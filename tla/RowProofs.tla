------------------------------ MODULE RowProofs ------------------------------
(***************************************************************************)
(* What is read out of pages, for any pages and rows.  The rows of a page  *)
(* are found where they are, each once; a row of the present columns gives *)
(* the values that were stored; a value on several pages is delivered whole *)
(* or not at all; and a HUGE table gives exactly the rows that are left.   *)
(***************************************************************************)
EXTENDS RowPage, RowValues, LobChain, HugeTable, Induction

(* The rows of a page (RowPage) *)

WordAt(t, n) == rowPage.slots[t][n]
KeysAt(t) == {n \in DOMAIN rowPage.slots[t] : WordAt(t, n) \in BoundaryKeys}
EmptyAt(t) == {n \in DOMAIN rowPage.slots[t] : WordAt(t, n) = 0}
UsedAt(t) == {n \in DOMAIN rowPage.slots[t] : ~Unused(WordAt(t, n))}
GoodAt(t) == {n \in DOMAIN rowPage.slots[t] :
  IsRow(WordAt(t, n)) /\ InArea(WordAt(t, n)) /\ WordAt(t, n) \notin broken}

RowPageState == rowPage \in RowPages /\ broken \in SUBSET rowPage.straddling

LEMMA PageIs == RowPageState => IsRowPage(rowPage)
BY RowPageAssumption DEF RowPageState, RowPageAssumption

LEMMA CountedApart ==
  ASSUME NEW S, NEW T, IsFiniteSet(S), IsFiniteSet(T), S \cap T = {}
  PROVE  IsFiniteSet(S \cup T) /\ Cardinality(S \cup T) = Cardinality(S) + Cardinality(T)
<1>1. IsFiniteSet(S \cup T)
      /\ Cardinality(S \cup T) = Cardinality(S) + Cardinality(T) - Cardinality(S \cap T)
  BY FS_Union
<1>2. Cardinality(S \cap T) = 0 BY FS_EmptySet
<1>3. Cardinality(S) \in Nat /\ Cardinality(T) \in Nat BY FS_CardinalityType
<1>4. PICK k : k = Cardinality(S \cap T) OBVIOUS
<1> QED BY <1>1, <1>2, <1>3, <1>4

\* Slots are keys of the page, empty or used; a good one is used, and no other
\* slot has its word.
LEMMA SlotsAre ==
  ASSUME RowPageState, NEW t \in {"base", "protected"}
  PROVE  /\ rowPage.slots[t] \in Seq(Nat) /\ SlotCount \in Nat /\ SlotCount < MaxSlots
         /\ DOMAIN rowPage.slots[t] = 1 .. SlotCount /\ Len(rowPage.slots[t]) = SlotCount
         /\ GoodAt(t) \subseteq UsedAt(t) /\ UsedAt(t) \subseteq 1 .. SlotCount
         /\ IsFiniteSet(KeysAt(t)) /\ IsFiniteSet(EmptyAt(t))
         /\ IsFiniteSet(UsedAt(t)) /\ IsFiniteSet(GoodAt(t))
         /\ Cardinality(KeysAt(t)) \in Nat /\ Cardinality(EmptyAt(t)) \in Nat
         /\ Cardinality(UsedAt(t)) \in Nat /\ Cardinality(GoodAt(t)) \in Nat
         /\ Cardinality(GoodAt(t)) <= Cardinality(UsedAt(t))
         /\ Cardinality(KeysAt(t)) + Cardinality(EmptyAt(t)) + Cardinality(UsedAt(t)) = SlotCount
<1>1. /\ rowPage.slots[t] \in Seq(Nat) /\ Len(rowPage.slots[t]) = Len(rowPage.slots.base)
      /\ Len(rowPage.slots.base) < MaxSlots
      /\ DOMAIN rowPage.word \in SUBSET (Nat \ (BoundaryKeys \cup {0}))
  BY PageIs DEF IsRowPage
<1>2. /\ SlotCount \in Nat /\ SlotCount < MaxSlots /\ Len(rowPage.slots[t]) = SlotCount
      /\ DOMAIN rowPage.slots[t] = 1 .. SlotCount
  BY <1>1 DEF SlotCount
<1>3. GoodAt(t) \subseteq UsedAt(t) /\ UsedAt(t) \subseteq 1 .. SlotCount
  <2>1. ASSUME NEW n \in GoodAt(t) PROVE n \in UsedAt(t)
    <3>1. n \in DOMAIN rowPage.slots[t] /\ WordAt(t, n) \in DOMAIN rowPage.word
      BY DEF GoodAt, IsRow, IsRowOn
    <3> QED BY <1>1, <3>1 DEF UsedAt, Unused
  <2> QED BY <1>2, <2>1 DEF UsedAt
<1>4. /\ KeysAt(t) \subseteq 1 .. SlotCount /\ EmptyAt(t) \subseteq 1 .. SlotCount
      /\ KeysAt(t) \cap EmptyAt(t) = {}
      /\ (KeysAt(t) \cup EmptyAt(t)) \cap UsedAt(t) = {}
      /\ (KeysAt(t) \cup EmptyAt(t)) \cup UsedAt(t) = 1 .. SlotCount
  BY <1>2, RowPageAssumption DEF KeysAt, EmptyAt, UsedAt, Unused, RowPageAssumption
<1>5. IsFiniteSet(1 .. SlotCount) /\ Cardinality(1 .. SlotCount) = SlotCount
  BY <1>2, FS_Interval
<1>6. /\ IsFiniteSet(KeysAt(t)) /\ IsFiniteSet(EmptyAt(t))
      /\ IsFiniteSet(UsedAt(t)) /\ IsFiniteSet(GoodAt(t))
      /\ Cardinality(GoodAt(t)) <= Cardinality(UsedAt(t))
  BY <1>3, <1>4, <1>5, FS_Subset
<1>7. /\ Cardinality(KeysAt(t)) \in Nat /\ Cardinality(EmptyAt(t)) \in Nat
      /\ Cardinality(UsedAt(t)) \in Nat /\ Cardinality(GoodAt(t)) \in Nat
  BY <1>6, FS_CardinalityType
<1>8. /\ IsFiniteSet(KeysAt(t) \cup EmptyAt(t))
      /\ Cardinality(KeysAt(t) \cup EmptyAt(t)) =
           Cardinality(KeysAt(t)) + Cardinality(EmptyAt(t))
  BY <1>4, <1>6, CountedApart
<1>9. Cardinality((KeysAt(t) \cup EmptyAt(t)) \cup UsedAt(t)) =
        Cardinality(KeysAt(t) \cup EmptyAt(t)) + Cardinality(UsedAt(t))
  BY <1>4, <1>6, <1>8, CountedApart
<1> QED BY <1>1, <1>2, <1>3, <1>4, <1>5, <1>6, <1>7, <1>8, <1>9, Zenon

\* What the code counts as rows are the good slots.
LEMMA EvidenceIs ==
  ASSUME RowPageState, NEW t \in {"base", "protected"}
  PROVE  LET e == Evidence(t)
             rows == Cardinality(GoodAt(t))
             all == 12 * Cardinality(KeysAt(t)) + 3 * Cardinality(EmptyAt(t)) + 16 * rows
         IN
         /\ e.rows = rows
         /\ e.invalid = Cardinality(UsedAt(t) \ GoodAt(t)) /\ e.invalid \in Nat
         /\ e.invalid = 0 <=> GoodAt(t) = UsedAt(t)
         /\ e.invalid = Cardinality(UsedAt(t)) - rows
         /\ e.delta = Magnitude(rows - rowPage.records) /\ e.delta \in Nat
         /\ e.delta = 0 <=> rows = rowPage.records
         /\ e.score \in Int
         /\ e.delta = 0 => e.score <= all + 32
         /\ e.delta = 0 /\ e.invalid = 0 => e.score = all + 32
<1> DEFINE words == rowPage.slots[t]
           used == {n \in DOMAIN words : ~Unused(words[n])}
           placed == {n \in used : InArea(words[n]) /\ First(words, n)}
           rs == {n \in placed : IsRow(words[n]) /\ words[n] \notin broken}
           again == {n \in used : InArea(words[n]) /\ ~First(words, n)}
           outside == {n \in used : ~InArea(words[n])}
           keys == {n \in DOMAIN words : words[n] \in BoundaryKeys}
           empty == {n \in DOMAIN words : words[n] = 0}
           delta == Magnitude(Cardinality(rs) - rowPage.records)
           e == Evidence(t)
<1>1. /\ e.rows = Cardinality(rs) /\ e.invalid = Cardinality(used \ rs) /\ e.delta = delta
      /\ e.score = 12 * Cardinality(keys) + 3 * Cardinality(empty) + 16 * Cardinality(rs)
                - 24 * Cardinality(outside) - 16 * Cardinality(again)
                - 12 * Cardinality(placed \ rs)
                - 8 * delta + (IF delta = 0 THEN 32 ELSE 0)
  BY DEF Evidence
<1>2. keys = KeysAt(t) /\ empty = EmptyAt(t) /\ used = UsedAt(t)
  BY DEF KeysAt, EmptyAt, UsedAt, WordAt
<1>3. rs = GoodAt(t)
  <2>1. ASSUME NEW n \in GoodAt(t) PROVE n \in rs
    <3>1. n \in UsedAt(t) /\ n \in 1 .. SlotCount BY SlotsAre
    <3>2. IsRow(words[n]) /\ InArea(words[n]) /\ words[n] \notin broken
      BY DEF GoodAt, WordAt
    <3>3. \A m \in 1 .. n - 1 : words[m] # words[n]
      <4>1. \A i, m \in DOMAIN words : i # m /\ IsRowOn(rowPage, words[i]) => words[i] # words[m]
        BY PageIs DEF IsRowPage
      <4>2. DOMAIN words = 1 .. SlotCount /\ SlotCount \in Nat BY SlotsAre
      <4> QED BY <3>1, <3>2, <4>1, <4>2 DEF IsRow
    <3> QED BY <1>2, <3>1, <3>2, <3>3 DEF First
  <2>2. ASSUME NEW n \in rs PROVE n \in GoodAt(t)
    BY DEF GoodAt, WordAt
  <2> QED BY <2>1, <2>2
<1>4. /\ outside \subseteq used \ rs /\ again \subseteq used \ rs /\ placed \ rs \subseteq used \ rs
      /\ rs \subseteq used
  OBVIOUS
<1>5. IsFiniteSet(used) /\ IsFiniteSet(used \ rs) /\ IsFiniteSet(outside) /\ IsFiniteSet(again)
      /\ IsFiniteSet(placed \ rs) /\ IsFiniteSet(rs)
  <2>1. IsFiniteSet(used) BY <1>2, SlotsAre
  <2>2. used \ rs \subseteq used OBVIOUS
  <2> QED BY <1>4, <2>1, <2>2, FS_Subset
<1> HIDE DEF used, placed, rs, again, outside, keys, empty, e
<1>6. /\ Cardinality(outside) \in Nat /\ Cardinality(again) \in Nat
      /\ Cardinality(placed \ rs) \in Nat /\ Cardinality(used \ rs) \in Nat
      /\ Cardinality(rs) \in Nat /\ Cardinality(used) \in Nat
      /\ Cardinality(used \ rs) = Cardinality(used) - Cardinality(rs)
  <2>1. used \cap rs = rs BY <1>4
  <2> QED BY <1>5, <2>1, FS_CardinalityType, FS_Difference
<1>7. Cardinality(used \ rs) = 0 <=> rs = used
  <2>1. Cardinality(used \ rs) = 0 <=> used \ rs = {} BY <1>5, FS_EmptySet
  <2> QED BY <1>4, <2>1
<1>8. Cardinality(used \ rs) = 0 =>
        Cardinality(outside) = 0 /\ Cardinality(again) = 0 /\ Cardinality(placed \ rs) = 0
  <2>1. Cardinality(used \ rs) = 0 => used \ rs = {} BY <1>5, FS_EmptySet
  <2>2. used \ rs = {} => outside = {} /\ again = {} /\ placed \ rs = {} BY <1>4
  <2> QED BY <2>1, <2>2, FS_EmptySet
<1>9. /\ Cardinality(keys) \in Nat /\ Cardinality(empty) \in Nat
      /\ rowPage.records \in Nat
  BY <1>2, SlotsAre, PageIs DEF IsRowPage
<1>10. delta \in Nat /\ (delta = 0 <=> Cardinality(rs) = rowPage.records)
  BY <1>6, <1>9 DEF Magnitude
<1> HIDE DEF delta
<1>11. /\ e.score \in Int
       /\ delta = 0 => e.score <= 12 * Cardinality(keys) + 3 * Cardinality(empty) + 16 * Cardinality(rs) + 32
       /\ delta = 0 /\ Cardinality(used \ rs) = 0 =>
            e.score = 12 * Cardinality(keys) + 3 * Cardinality(empty) + 16 * Cardinality(rs) + 32
  <2>1. PICK k, m, r, o, a, q, d, i :
          /\ k = Cardinality(keys) /\ m = Cardinality(empty) /\ r = Cardinality(rs)
          /\ o = Cardinality(outside) /\ a = Cardinality(again)
          /\ q = Cardinality(placed \ rs) /\ d = delta /\ i = Cardinality(used \ rs)
    OBVIOUS
  <2>2. /\ k \in Nat /\ m \in Nat /\ r \in Nat /\ o \in Nat /\ a \in Nat /\ q \in Nat /\ d \in Nat
        /\ i = 0 => o = 0 /\ a = 0 /\ q = 0
    BY <1>6, <1>8, <1>9, <1>10, <2>1
  <2>3. PICK score : score = e.score OBVIOUS
  <2>4. score = 12 * k + 3 * m + 16 * r - 24 * o - 16 * a - 12 * q
                - 8 * d + (IF d = 0 THEN 32 ELSE 0)
    BY <1>1, <2>1, <2>3
  <2>5. /\ score \in Int
        /\ d = 0 => score <= 12 * k + 3 * m + 16 * r + 32
        /\ d = 0 /\ i = 0 => score = 12 * k + 3 * m + 16 * r + 32
    BY ONLY <2>2, <2>4
  <2> QED BY <2>1, <2>3, <2>5
<1>12. delta = Magnitude(Cardinality(GoodAt(t)) - rowPage.records) BY <1>3 DEF delta
<1>13. /\ e.rows = Cardinality(rs) /\ e.invalid = Cardinality(used \ rs) /\ e.delta = delta
  BY <1>1
<1> QED BY <1>2, <1>3, <1>6, <1>7, <1>10, <1>11, <1>12, <1>13 DEF e


-----------------------------------------------------------------------------

TrueWords == {WordAt(rowPage.layout, n) : n \in 1 .. SlotCount}
GoodWords(t) == {WordAt(t, n) : n \in GoodAt(t)}

\* A page that holds together: all its rows are whole, each used slot points to
\* one of them, the count is right, and not all of them straddle a boundary.
Intact ==
  /\ \A o \in rowPage.heads : IsRow(o)
  /\ TrueWords \ BoundaryKeys \subseteq rowPage.heads \cup {0}
  /\ Cardinality(TrueWords \cap rowPage.heads) = rowPage.records
  /\ ~(rowPage.heads \cap TrueWords \subseteq rowPage.straddling)

\* Good slots point to as many rows as they are.
LEMMA GoodCounted ==
  ASSUME RowPageState, NEW t \in {"base", "protected"}, NEW S \in SUBSET GoodAt(t)
  PROVE  /\ IsFiniteSet({WordAt(t, n) : n \in S})
         /\ Cardinality({WordAt(t, n) : n \in S}) = Cardinality(S)
<1> DEFINE f == [n \in S |-> WordAt(t, n)]
           T == {WordAt(t, n) : n \in S}
<1>1. \A n, m \in S : WordAt(t, n) = WordAt(t, m) => n = m
  <2>1. \A i, m \in DOMAIN rowPage.slots[t] :
           i # m /\ IsRowOn(rowPage, rowPage.slots[t][i]) => rowPage.slots[t][i] # rowPage.slots[t][m]
    BY PageIs DEF IsRowPage
  <2>2. \A n \in S : n \in DOMAIN rowPage.slots[t] /\ IsRowOn(rowPage, rowPage.slots[t][n])
    BY DEF GoodAt, IsRow, WordAt
  <2> QED BY <2>1, <2>2 DEF WordAt
<1>2. f \in Bijection(S, T)
  <2>1. f \in [S -> T] OBVIOUS
  <2>2. \A n, m \in S : f[n] = f[m] => n = m BY <1>1
  <2>3. \A y \in T : \E n \in S : f[n] = y OBVIOUS
  <2> QED BY <2>1, <2>2, <2>3 DEF Bijection, Injection, Surjection, IsInjective
<1>3. IsFiniteSet(S) BY SlotsAre, FS_Subset
<1>4. ExistsBijection(S, T) BY <1>2 DEF ExistsBijection
<1> QED BY <1>3, <1>4, FS_Bijection

\* In an intact page the used slots are those of the rows.
LEMMA IntactSlots ==
  ASSUME RowPageState, Intact, NEW t, t = rowPage.layout
  PROVE  /\ \A n \in 1 .. SlotCount : n \in UsedAt(t) <=> WordAt(t, n) \in rowPage.heads
         /\ \A n \in 1 .. SlotCount :
              n \in GoodAt(t) <=> WordAt(t, n) \in rowPage.heads \ broken
         /\ Cardinality(UsedAt(t)) = rowPage.records
         /\ rowPage.records \in 1 .. SlotCount
         /\ Cardinality(UsedAt(t) \ GoodAt(t)) <= Sectors - 1
         /\ GoodAt(t) # {}
<1> DEFINE heads == rowPage.heads
<1>1. /\ t \in {"base", "protected"}
      /\ DOMAIN rowPage.word \in SUBSET (Nat \ (BoundaryKeys \cup {0}))
      /\ heads \in SUBSET DOMAIN rowPage.word
      /\ \A o \in heads : RowAreaStart <= o /\ o < rowPage.freeEnd
      /\ IsFiniteSet(DOMAIN rowPage.word)
      /\ Cardinality(rowPage.straddling) <= Sectors - 1
      /\ rowPage.straddling \in SUBSET heads
      /\ rowPage.records \in Nat
  BY PageIs DEF IsRowPage
<1>2. DOMAIN rowPage.slots[t] = 1 .. SlotCount /\ SlotCount \in Nat BY <1>1, SlotsAre
<1>3. ASSUME NEW n \in 1 .. SlotCount
      PROVE  n \in UsedAt(t) <=> WordAt(t, n) \in heads
  <2>1. WordAt(t, n) \in TrueWords BY DEF TrueWords
  <2>2. n \in UsedAt(t) <=> WordAt(t, n) \notin BoundaryKeys \cup {0}
    BY <1>2 DEF UsedAt, Unused
  <2>3. WordAt(t, n) \in BoundaryKeys \cup heads \cup {0} BY <2>1 DEF Intact
  <2> QED BY <1>1, <2>2, <2>3
<1>4. \A o \in heads : IsRow(o) /\ InArea(o)
  BY <1>1, RowPageAssumption DEF Intact, InArea, RowPageAssumption
<1>5. ASSUME NEW n \in 1 .. SlotCount
      PROVE  n \in GoodAt(t) <=> WordAt(t, n) \in heads \ broken
  <2>1. n \in GoodAt(t) => n \in UsedAt(t) /\ WordAt(t, n) \notin broken
    BY <1>1, SlotsAre DEF GoodAt
  <2>2. WordAt(t, n) \in heads \ broken => n \in GoodAt(t)
    BY <1>2, <1>4 DEF GoodAt
  <2> QED BY <1>3, <2>1, <2>2
<1>6. Cardinality(UsedAt(t)) = rowPage.records
  <2> DEFINE T == TrueWords \cap heads
             f == [n \in UsedAt(t) |-> WordAt(t, n)]
  <2>1. UsedAt(t) \subseteq 1 .. SlotCount /\ IsFiniteSet(UsedAt(t)) BY <1>1, SlotsAre
  <2>2. \A n \in UsedAt(t) : WordAt(t, n) \in T BY <1>3, <2>1 DEF TrueWords
  <2>3. f \in [UsedAt(t) -> T] BY <2>2
  <2>4. \A n, m \in UsedAt(t) : f[n] = f[m] => n = m
    <3>1. \A i, m \in DOMAIN rowPage.slots[t] :
             i # m /\ IsRowOn(rowPage, rowPage.slots[t][i]) => rowPage.slots[t][i] # rowPage.slots[t][m]
      BY <1>1, PageIs DEF IsRowPage
    <3>2. \A n \in UsedAt(t) : n \in DOMAIN rowPage.slots[t] /\ IsRowOn(rowPage, rowPage.slots[t][n])
      BY <1>2, <1>4, <2>1, <2>2 DEF IsRow, WordAt
    <3> QED BY <3>1, <3>2 DEF WordAt
  <2>5. \A y \in T : \E n \in UsedAt(t) : f[n] = y
    <3> SUFFICES ASSUME NEW y \in T PROVE \E n \in UsedAt(t) : f[n] = y
      OBVIOUS
    <3>1. PICK n \in 1 .. SlotCount : y = WordAt(t, n) BY DEF TrueWords
    <3>2. n \in UsedAt(t) BY <1>3, <3>1
    <3> QED BY <3>1, <3>2
  <2>6. ExistsBijection(UsedAt(t), T)
    <3> HIDE DEF T, f
    <3>1. f \in Injection(UsedAt(t), T) BY <2>3, <2>4 DEF Injection, IsInjective
    <3>2. f \in Surjection(UsedAt(t), T) BY <2>3, <2>5 DEF Surjection
    <3> QED BY <3>1, <3>2 DEF ExistsBijection, Bijection
  <2>7. Cardinality(T) = Cardinality(UsedAt(t)) BY <2>1, <2>6, FS_Bijection
  <2> QED BY <2>7 DEF Intact
<1>7. PICK o \in heads \cap TrueWords : o \notin rowPage.straddling BY DEF Intact
<1>8. PICK n \in 1 .. SlotCount : o = WordAt(t, n) BY <1>7 DEF TrueWords
<1>9. n \in GoodAt(t) /\ n \in UsedAt(t) BY <1>3, <1>5, <1>7, <1>8 DEF RowPageState
<1>10. rowPage.records \in 1 .. SlotCount
  <2>4. IsFiniteSet(1 .. SlotCount) /\ Cardinality(1 .. SlotCount) = SlotCount
    <3>1. 1 \in Int /\ SlotCount \in Int /\ SlotCount >= 0 BY <1>2
    <3> QED BY <3>1, FS_Interval
  <2>1. /\ IsFiniteSet(UsedAt(t)) /\ UsedAt(t) \subseteq 1 .. SlotCount
        /\ IsFiniteSet(1 .. SlotCount) /\ Cardinality(1 .. SlotCount) = SlotCount
    BY <1>1, <2>4, SlotsAre
  <2>2. Cardinality(UsedAt(t)) <= SlotCount BY <2>1, FS_Subset
  <2>3. Cardinality(UsedAt(t)) # 0 BY <1>9, <2>1, FS_EmptySet
  <2> QED BY <1>1, <1>2, <1>6, <2>2, <2>3
<1>11. Cardinality(UsedAt(t) \ GoodAt(t)) <= Sectors - 1
  <2> DEFINE U == UsedAt(t) \ GoodAt(t)
             f == [m \in U |-> WordAt(t, m)]
             B == rowPage.straddling
  <2>1. UsedAt(t) \subseteq 1 .. SlotCount /\ IsFiniteSet(UsedAt(t)) BY <1>1, SlotsAre
  <2>2. IsFiniteSet(U) BY <2>1, FS_Subset
  <2>3. IsFiniteSet(B) BY <1>1, FS_Subset
  <2>4. \A m \in U : WordAt(t, m) \in B BY <1>3, <1>5, <2>1 DEF RowPageState
  <2>5. \A m, k \in U : WordAt(t, m) = WordAt(t, k) => m = k
    <3>1. \A i, m \in DOMAIN rowPage.slots[t] :
             i # m /\ IsRowOn(rowPage, rowPage.slots[t][i]) => rowPage.slots[t][i] # rowPage.slots[t][m]
      BY <1>1, PageIs DEF IsRowPage
    <3>2. \A m \in U : m \in DOMAIN rowPage.slots[t] /\ IsRowOn(rowPage, rowPage.slots[t][m])
      BY <1>1, <1>2, <1>4, <2>1, <2>4 DEF IsRow, WordAt
    <3> QED BY <3>1, <3>2 DEF WordAt
  <2>6. f \in Injection(U, B)
    BY <2>4, <2>5 DEF Injection, IsInjective
  <2>7. Cardinality(U) <= Cardinality(B) BY <2>3, <2>6, FS_Injection
  <2>8. Cardinality(U) \in Nat /\ Cardinality(B) \in Nat BY <2>2, <2>3, FS_CardinalityType
  <2> QED BY <1>1, <2>7, <2>8, RowPageAssumption DEF RowPageAssumption
<1> QED BY <1>3, <1>5, <1>6, <1>9, <1>10, <1>11


\* A page that is not protected is not taken for one as long as it holds
\* together: the other place has no clear lead.
LEMMA BaseStays ==
  ASSUME RowPageState, Intact, rowPage.layout = "base"
  PROVE  ~LooksProtected
<1> DEFINE b == Evidence("base")
           e == Evidence("protected")
<1>1. broken = {} BY PageIs DEF IsRowPage, RowPageState
<1>2. GoodAt("base") = UsedAt("base") /\ Cardinality(UsedAt("base")) = rowPage.records
  <2>1. /\ \A n \in 1 .. SlotCount : n \in UsedAt("base") <=> n \in GoodAt("base")
        /\ Cardinality(UsedAt("base")) = rowPage.records
    BY <1>1, IntactSlots
  <2>2. UsedAt("base") \subseteq 1 .. SlotCount /\ GoodAt("base") \subseteq UsedAt("base")
    BY SlotsAre
  <2> QED BY <2>1, <2>2
<1>3. Cardinality(KeysAt("protected")) <= Cardinality(KeysAt("base")) + 3
  <2>1. /\ KeysAt("protected") = {n \in DOMAIN rowPage.slots["protected"] :
                                   rowPage.slots["protected"][n] \in BoundaryKeys}
        /\ KeysAt("base") = {n \in DOMAIN rowPage.slots["base"] :
                                   rowPage.slots["base"][n] \in BoundaryKeys}
    BY DEF KeysAt, WordAt
  <2> QED BY <2>1, PageIs, Zenon DEF IsRowPage
<1>4. PICK kb, mb, ub, kp, mp, up, gp, s, r :
        /\ kb = Cardinality(KeysAt("base")) /\ mb = Cardinality(EmptyAt("base"))
        /\ ub = Cardinality(UsedAt("base"))
        /\ kp = Cardinality(KeysAt("protected")) /\ mp = Cardinality(EmptyAt("protected"))
        /\ up = Cardinality(UsedAt("protected")) /\ gp = Cardinality(GoodAt("protected"))
        /\ s = SlotCount /\ r = rowPage.records
  OBVIOUS
<1>5. /\ kb \in Nat /\ mb \in Nat /\ ub \in Nat /\ kb + mb + ub = s
      /\ kp \in Nat /\ mp \in Nat /\ up \in Nat /\ kp + mp + up = s
      /\ gp \in Nat /\ gp <= up /\ s \in Nat /\ ub = r /\ kp <= kb + 3
  BY <1>2, <1>3, <1>4, SlotsAre
<1>6. /\ b.invalid = 0 /\ b.delta = 0 /\ b.score = 12 * kb + 3 * mb + 16 * r + 32
  BY <1>2, <1>4, EvidenceIs
<1>7. /\ e.invalid \in Nat /\ e.delta \in Nat /\ e.score \in Int
      /\ e.delta = 0 => gp = r
      /\ e.delta = 0 => e.score <= 12 * kp + 3 * mp + 16 * gp + 32
  BY <1>4, EvidenceIs
<1> HIDE DEF b, e
<1>8. ~(e.delta <= b.delta /\ e.score >= b.score + 32)
  <2>1. PICK x, y, z : x = e.score /\ y = b.score /\ z = e.delta OBVIOUS
  <2>2. SUFFICES ASSUME z = 0, x >= y + 32 PROVE FALSE
    BY <1>6, <1>7, <2>1
  <2>3. /\ gp = r /\ x \in Int /\ x <= 12 * kp + 3 * mp + 16 * gp + 32
        /\ y = 12 * kb + 3 * mb + 16 * r + 32
    BY <1>6, <1>7, <2>1, <2>2
  <2>4. kp + mp <= kb + mb BY ONLY <1>5, <2>3
  <2>5. 12 * kp + 3 * mp <= 12 * kb + 3 * mb + 27 BY ONLY <1>5, <2>4
  <2> QED BY ONLY <1>5, <2>2, <2>3, <2>5
<1>9. ~Speaks(b, e)
  BY <1>6, <1>7, <1>8 DEF Speaks
<1> QED BY <1>9 DEF LooksProtected, b, e

\* Where a protected page that holds together is not seen as such, no row of it
\* straddles a boundary and its slots are seen at the other place, too.
LEMMA ProtectedTold ==
  ASSUME RowPageState, Intact, rowPage.layout = "protected", ~LooksProtected
  PROVE  /\ GoodAt("base") = UsedAt("base")
         /\ Cardinality(UsedAt("base")) = rowPage.records
         /\ GoodWords("base") \subseteq rowPage.heads \cap TrueWords
<1> DEFINE b == Evidence("base")
           e == Evidence("protected")
<1>1. /\ Sectors \in Nat /\ Sectors > 1 /\ SlotCount \in 1 .. MaxSlots - 1
      /\ rowPage.records \in 1 .. SlotCount /\ rowPage.records \in Nat
      /\ rowPage.freeEnd >= RowAreaStart
  <2>1. rowPage.records \in 1 .. SlotCount BY IntactSlots
  <2>2. SlotCount \in Nat /\ SlotCount < MaxSlots /\ MaxSlots \in Nat /\ Sectors \in Nat
    BY SlotsAre, RowPageAssumption DEF RowPageAssumption
  <2>3. Sectors > 1 /\ rowPage.freeEnd >= RowAreaStart BY PageIs DEF IsRowPage
  <2> QED BY <2>1, <2>2, <2>3
<1>2. ~Speaks(b, e) BY <1>1 DEF LooksProtected
<1>3. PICK r, g, i, h, j : /\ r = rowPage.records /\ g = Cardinality(GoodAt("protected"))
        /\ i = Cardinality(UsedAt("protected") \ GoodAt("protected"))
        /\ h = Cardinality(GoodAt("base")) /\ j = Cardinality(UsedAt("base"))
  OBVIOUS
<1>4. /\ r \in Nat /\ g \in Nat /\ g # 0 /\ i \in Nat /\ i <= Sectors - 1 /\ g + i = r
      /\ h \in Nat /\ j \in Nat
  <2>1. /\ Cardinality(UsedAt("protected")) = r /\ i <= Sectors - 1 /\ GoodAt("protected") # {}
    BY <1>3, IntactSlots
  <2>2. IsFiniteSet(GoodAt("protected")) /\ g \in Nat /\ h \in Nat /\ j \in Nat BY <1>3, SlotsAre
  <2>3. g # 0 BY <1>3, <2>1, <2>2, FS_EmptySet
  <2>4. i \in Nat /\ i = r - g BY <1>3, <2>1, EvidenceIs
  <2> QED BY <1>1, <1>3, <2>1, <2>2, <2>3, <2>4
<1>5. /\ e.rows = g /\ e.invalid = i /\ e.delta \in Nat
      /\ b.invalid \in Nat /\ b.invalid = j - h /\ b.delta \in Nat /\ (b.delta = 0 <=> h = r)
      /\ b.invalid = 0 <=> GoodAt("base") = UsedAt("base")
      /\ e.delta = 0 <=> g = r
  BY <1>3, EvidenceIs
<1> HIDE DEF b, e
<1>6. b.delta = 0 /\ b.invalid <= e.invalid
  <2>1. e.rows > 0 /\ e.invalid <= Sectors - 1 /\ e.rows + e.invalid = rowPage.records
    BY <1>3, <1>4, <1>5
  <2>2. ~(b.delta # 0 \/ b.invalid > e.invalid) BY <1>2, <2>1 DEF Speaks
  <2> QED BY <1>4, <1>5, <2>2
<1>7. GoodWords("base") \subseteq GoodWords("protected")
  <2> SUFFICES ASSUME NEW n \in GoodAt("base") PROVE WordAt("base", n) \in GoodWords("protected")
    BY DEF GoodWords
  <2>1. n \in DOMAIN rowPage.slots["base"] /\ IsRowOn(rowPage, rowPage.slots["base"][n])
    BY DEF GoodAt, IsRow, WordAt
  <2>2. PICK m \in DOMAIN rowPage.slots["protected"] :
          rowPage.slots["protected"][m] = rowPage.slots["base"][n]
    BY <2>1, PageIs DEF IsRowPage
  <2>3. m \in GoodAt("protected") BY <2>2 DEF GoodAt, WordAt
  <2> QED BY <2>2, <2>3 DEF GoodWords, WordAt
<1>8. /\ IsFiniteSet(GoodWords("base")) /\ Cardinality(GoodWords("base")) = h
      /\ IsFiniteSet(GoodWords("protected")) /\ Cardinality(GoodWords("protected")) = g
  BY <1>3, GoodCounted DEF GoodWords
<1>9. h <= g BY <1>7, <1>8, FS_Subset
<1>10. h = r /\ g = r /\ i = 0 BY <1>4, <1>5, <1>6, <1>9
<1>11. GoodAt("base") = UsedAt("base") /\ j = r BY <1>4, <1>5, <1>6, <1>10
<1>12. GoodWords("protected") \subseteq rowPage.heads \cap TrueWords
  <2> SUFFICES ASSUME NEW n \in GoodAt("protected")
               PROVE  WordAt("protected", n) \in rowPage.heads \cap TrueWords
    BY DEF GoodWords
  <2>1. n \in 1 .. SlotCount BY SlotsAre
  <2> QED BY <2>1, IntactSlots DEF TrueWords
<1> QED BY <1>3, <1>7, <1>11, <1>12

\* From row to row: each step begins where the row before it ends.
Onward(o) == IF o = 0 \/ ~RowDecodable(o) THEN 0 ELSE o + RowWord(o).length

LEMMA WalkIs ==
  ASSUME RowPageState
  PROVE  \E r : /\ r[0] = RowAreaStart /\ \A n \in Nat \ {0} : r[n] = Onward(r[n - 1])
                /\ \A n \in 0 .. Cardinality(DOMAIN rowPage.word) : r[n] # 0 => r[n] \in Walk
<1> DEFINE Body(g, n) == IF n = 0 THEN RowAreaStart
                            ELSE IF g[n - 1] = 0 \/ ~RowDecodable(g[n - 1]) THEN 0
                            ELSE g[n - 1] + RowWord(g[n - 1]).length
           reached == CHOOSE g : g = [n \in Nat |-> Body(g, n)]
           f == [o \in Nat |-> Onward(o)]
<1>1. f \in [Nat -> Nat]
  <2>1. ASSUME NEW o \in Nat PROVE Onward(o) \in Nat
    BY PageIs DEF IsRowPage, Onward, RowDecodable, IsRow, IsRowOn, RowWord
  <2> QED BY <2>1
<1>2. RowAreaStart \in Nat BY RowPageAssumption DEF RowPageAssumption
<1>3. PICK r \in [Nat -> Nat] : r[0] = RowAreaStart /\ \A n \in Nat \ {0} : r[n] = f[r[n - 1]]
  <2>1. PICK T, a, g : T = Nat /\ a = RowAreaStart /\ g = f OBVIOUS
  <2>2. a \in T /\ g \in [T -> T] BY <1>1, <1>2, <2>1
  <2>3. \E r \in [Nat -> T] : r[0] = a /\ \A n \in Nat \ {0} : r[n] = g[r[n - 1]]
    BY ONLY <2>2, IterationExists
  <2> HIDE DEF f
  <2> QED BY <2>1, <2>3
<1>4. \A n \in Nat : r[n] = Body(r, n)
  <2> SUFFICES ASSUME NEW n \in Nat PROVE r[n] = Body(r, n) OBVIOUS
  <2>1. CASE n = 0 BY <1>3, <2>1
  <2>2. CASE n # 0
    <3>1. n \in Nat \ {0} /\ n - 1 \in Nat BY <2>2
    <3>2. r[n] = Onward(r[n - 1]) BY <1>3, <3>1
    <3> QED BY <2>2, <3>2 DEF Onward
  <2> QED BY <2>1, <2>2
<1>5. r = [n \in Nat |-> Body(r, n)] BY <1>4
<1>6. reached = [n \in Nat |-> Body(reached, n)] BY <1>5
<1>7. Walk = {reached[n] : n \in 0 .. Cardinality(DOMAIN rowPage.word)} \ {0}
  BY Zenon DEF Walk
<1> HIDE DEF reached
<1>8. reached[0] = RowAreaStart BY <1>6
<1>9. ASSUME NEW n \in Nat \ {0} PROVE reached[n] = Onward(reached[n - 1])
  <2>1. reached[n] = Body(reached, n) BY <1>6
  <2> QED BY <2>1 DEF Onward
<1> QED BY <1>7, <1>8, <1>9

\* A recovery that can read all heads meets every row up to the first damaged one.
LEMMA WalkFinds ==
  ASSUME RowPageState, broken = {}, NEW o \in rowPage.heads,
         \A p \in rowPage.heads : p <= o => IsRow(p)
  PROVE  o \in Walk
<1> DEFINE heads == rowPage.heads
           Below(p) == {q \in heads : q < p}
           Before == {p \in heads : \A q \in heads : q <= p => IsRow(q)}
           k == Cardinality(DOMAIN rowPage.word)
<1>1. /\ heads \in SUBSET Nat /\ heads \in SUBSET DOMAIN rowPage.word
      /\ IsFiniteSet(DOMAIN rowPage.word) /\ IsFiniteSet(heads)
      /\ \A p \in heads : RowAreaStart <= p /\ p < rowPage.freeEnd
      /\ RowAreaStart \in Nat \ {0} /\ RowAreaStart \in heads
      /\ \A p \in heads : IsRow(p) =>
           /\ p + rowPage.word[p].length \in heads \cup {rowPage.freeEnd}
           /\ \A q \in heads : q <= p \/ p + rowPage.word[p].length <= q
           /\ rowPage.word[p].length \in Nat \ {0}
  <2>1. IsRowPage(rowPage) BY PageIs
  <2>2. \A p \in heads : IsRow(p) => rowPage.word[p].length \in Nat \ {0}
    BY <2>1, RowPageAssumption DEF IsRowPage, IsRow, IsRowOn, RowPageAssumption
  <2>3. heads \in SUBSET DOMAIN rowPage.word /\ IsFiniteSet(DOMAIN rowPage.word)
    BY <2>1 DEF IsRowPage
  <2>4. IsFiniteSet(heads) BY <2>3, FS_Subset
  <2> QED BY <2>1, <2>2, <2>3, <2>4, RowPageAssumption DEF IsRowPage, IsRow, RowPageAssumption
<1>2. PICK r : /\ r[0] = RowAreaStart /\ \A n \in Nat \ {0} : r[n] = Onward(r[n - 1])
               /\ \A n \in 0 .. k : r[n] # 0 => r[n] \in Walk
  BY WalkIs
<1>3. \A p \in heads : /\ IsFiniteSet(Below(p)) /\ Cardinality(Below(p)) \in Nat
                       /\ Cardinality(Below(p)) <= k /\ k \in Nat
  <2> SUFFICES ASSUME NEW p \in heads
               PROVE  /\ IsFiniteSet(Below(p)) /\ Cardinality(Below(p)) \in Nat
                      /\ Cardinality(Below(p)) <= k /\ k \in Nat
    OBVIOUS
  <2>1. Below(p) \in SUBSET DOMAIN rowPage.word BY <1>1
  <2>2. IsFiniteSet(Below(p)) /\ Cardinality(Below(p)) <= k BY <1>1, <2>1, FS_Subset
  <2> QED BY <1>1, <2>2, FS_CardinalityType
<1> DEFINE Bad == {p \in Before : r[Cardinality(Below(p))] # p}
<1>4. Bad = {}
  <2> SUFFICES ASSUME Bad # {} PROVE FALSE OBVIOUS
  <2>1. Bad \in SUBSET Nat BY <1>1
  <2>2. PICK p \in Bad : \A q \in Bad : p <= q BY <2>1, LeastNat
  <2>3. p \in heads /\ p \in Nat /\ \A q \in heads : q <= p => IsRow(q) BY <1>1
  <2>4. CASE Below(p) = {}
    <3>1. p = RowAreaStart BY <1>1, <2>3, <2>4
    <3>2. Cardinality(Below(p)) = 0 BY <2>4, FS_EmptySet
    <3> QED BY <1>2, <2>2, <3>1, <3>2
  <2>5. CASE Below(p) # {}
    <3>1. Below(p) \in SUBSET Nat /\ \A q \in Below(p) : q <= p BY <1>1
    <3>2. PICK q \in Below(p) : \A s \in Below(p) : s <= q BY <2>3, <2>5, <3>1, GreatestNat
    <3>3. q \in heads /\ q \in Nat /\ q < p BY <1>1
    <3>4. q \in Before
      <4>1. \A s \in heads : s <= q => s <= p BY <1>1, <2>3, <3>3
      <4> QED BY <2>3, <3>3, <4>1
    <3>5. q \notin Bad BY <2>2, <2>3, <3>3
    <3>6. r[Cardinality(Below(q))] = q BY <3>4, <3>5
    <3>7. Cardinality(Below(p)) = Cardinality(Below(q)) + 1
      <4>1. Below(p) = Below(q) \cup {q} BY <1>1, <2>3, <3>2, <3>3
      <4>2. q \notin Below(q) BY <3>3
      <4>3. IsFiniteSet(Below(q)) BY <1>3, <3>3
      <4> HIDE DEF Below
      <4> QED BY <4>1, <4>2, <4>3, FS_AddElement
    <3>8. r[Cardinality(Below(p))] = Onward(q)
      <4>1. PICK c, d : c = Cardinality(Below(p)) /\ d = Cardinality(Below(q)) OBVIOUS
      <4>2. d \in Nat BY <1>3, <3>3, <4>1
      <4>3. c \in Nat \ {0} /\ c - 1 = d BY <3>7, <4>1, <4>2
      <4> QED BY <1>2, <3>6, <4>1, <4>3
    <3>9. IsRow(q) BY <2>3, <3>3
    <3>10. q # 0 BY <1>1, <3>3
    <3>11. Onward(q) = q + rowPage.word[q].length
      BY <3>9, <3>10 DEF Onward, RowDecodable, RowWord
    <3>12. PICK l : l = rowPage.word[q].length OBVIOUS
    <3>13. /\ l \in Nat \ {0} /\ q + l \in heads \cup {rowPage.freeEnd}
           /\ p <= q \/ q + l <= p
      BY <1>1, <2>3, <3>3, <3>9, <3>12
    <3>14. q + l = p
      <4>1. q + l <= p /\ p < rowPage.freeEnd BY <1>1, <2>3, <3>3, <3>13
      <4>2. rowPage.freeEnd \in Nat BY PageIs DEF IsRowPage
      <4>3. q + l \in heads BY <2>3, <3>3, <3>13, <4>1, <4>2
      <4>4. ~(q + l < p)
        <5> SUFFICES ASSUME q + l < p PROVE FALSE OBVIOUS
        <5>1. q + l \in Below(p) BY <4>3
        <5> QED BY <3>2, <3>3, <3>13, <5>1
      <4> QED BY <2>3, <3>3, <3>13, <4>1, <4>4
    <3> QED BY <2>2, <3>8, <3>11, <3>12, <3>14
  <2> QED BY <2>4, <2>5
<1>5. o \in Before OBVIOUS
<1>6. r[Cardinality(Below(o))] = o BY <1>4, <1>5
<1>7. Cardinality(Below(o)) \in 0 .. k BY <1>3
<1>8. o # 0 BY <1>1
<1> QED BY <1>2, <1>6, <1>7, <1>8

\* The rows found are those of slots and, in a recovery, of the walk: none twice.
LEMMA RowsAre ==
  ASSUME RowPageState, layout \in {"base", "protected"}
  PROVE  /\ \A r \in PageRows : r.offset \in DOMAIN rowPage.word /\ (~recovering => ~r.deleted)
         /\ \A n \in 1 .. SlotCount :
              RowDecodable(WordAt(layout, n)) /\ (recovering \/ ~RowWord(WordAt(layout, n)).deleted)
                => \E r \in PageRows : r.offset = WordAt(layout, n)
         /\ recovering => \A o \in Walk : RowDecodable(o) => \E r \in PageRows : r.offset = o
         /\ \A r, s \in PageRows : r.offset = s.offset => r = s
<1> DEFINE slotted == {SlotWords[n] : n \in SlotRows}
           A == {RowAt(SlotWords[n], n) : n \in SlotRows}
           B == IF recovering
                THEN {RowAt(o, 0) : o \in {w \in Walk \ slotted : RowDecodable(w)}} ELSE {}
<1>1. PageRows = A \cup B BY Zenon DEF PageRows
<1>2. /\ Slotted = 1 .. SlotCount /\ DOMAIN SlotWords = 1 .. SlotCount
      /\ \A n : SlotWords[n] = WordAt(layout, n)
  BY SlotsAre DEF Slotted, SlotWords, WordAt
<1>3. \A n \in SlotRows : /\ n \in 1 .. SlotCount /\ RowDecodable(SlotWords[n])
                          /\ recovering \/ ~RowWord(SlotWords[n]).deleted
  BY <1>2 DEF SlotRows
<1>4. \A n \in 1 .. SlotCount : RowDecodable(SlotWords[n])
        /\ (recovering \/ ~RowWord(SlotWords[n]).deleted) => n \in SlotRows
  BY <1>2 DEF SlotRows
<1>5. \A o, n : RowAt(o, n).offset = o /\ RowAt(o, n).deleted = RowWord(o).deleted
  BY DEF RowAt
<1>6. \A o : RowDecodable(o) => o \in DOMAIN rowPage.word
  BY DEF RowDecodable, IsRow, IsRowOn
<1>7. \A n, m \in SlotRows : SlotWords[n] = SlotWords[m] => n = m
  <2>1. \A i, m \in DOMAIN rowPage.slots[layout] :
           i # m /\ IsRowOn(rowPage, rowPage.slots[layout][i]) =>
             rowPage.slots[layout][i] # rowPage.slots[layout][m]
    BY PageIs DEF IsRowPage
  <2>2. \A n \in SlotRows : n \in DOMAIN rowPage.slots[layout] /\ IsRowOn(rowPage, SlotWords[n])
    BY <1>2, <1>3 DEF SlotWords, RowDecodable, IsRow
  <2> QED BY <2>1, <2>2 DEF SlotWords
<1>8. \A r \in A : \E n \in SlotRows : r = RowAt(SlotWords[n], n) OBVIOUS
<1>9. \A r \in B : recovering /\ \E o \in Walk : RowDecodable(o) /\ o \notin slotted /\ r = RowAt(o, 0)
  OBVIOUS
<1>10. \A n \in SlotRows : RowAt(SlotWords[n], n) \in A /\ SlotWords[n] \in slotted OBVIOUS
<1>11. \A o \in Walk : recovering /\ RowDecodable(o) /\ o \notin slotted => RowAt(o, 0) \in B
  OBVIOUS
<1>12. \A o \in slotted : \E n \in SlotRows : o = SlotWords[n] OBVIOUS
<1> HIDE DEF A, B, slotted
<1>13. ASSUME NEW r \in PageRows
       PROVE  r.offset \in DOMAIN rowPage.word /\ (~recovering => ~r.deleted)
  <2>1. CASE r \in A BY <1>3, <1>5, <1>6, <1>8, <2>1
  <2>2. CASE r \in B BY <1>5, <1>6, <1>9, <2>2
  <2> QED BY <1>1, <2>1, <2>2
<1>14. ASSUME NEW n \in 1 .. SlotCount, RowDecodable(WordAt(layout, n)),
              recovering \/ ~RowWord(WordAt(layout, n)).deleted
       PROVE  \E r \in PageRows : r.offset = WordAt(layout, n)
  <2>1. n \in SlotRows BY <1>2, <1>4, <1>14
  <2>2. RowAt(SlotWords[n], n) \in PageRows BY <1>1, <1>10, <2>1
  <2> QED BY <1>2, <1>5, <2>2
<1>15. ASSUME recovering, NEW o \in Walk, RowDecodable(o)
       PROVE  \E r \in PageRows : r.offset = o
  <2>1. CASE o \in slotted
    <3>1. PICK n \in SlotRows : o = SlotWords[n] BY <1>12, <2>1
    <3>2. RowAt(SlotWords[n], n) \in PageRows BY <1>1, <1>10
    <3> QED BY <1>5, <3>1, <3>2
  <2>2. CASE o \notin slotted
    <3>1. RowAt(o, 0) \in PageRows BY <1>1, <1>11, <1>15, <2>2
    <3> QED BY <1>5, <3>1
  <2> QED BY <2>1, <2>2
<1>16. ASSUME NEW r \in PageRows, NEW s \in PageRows, r.offset = s.offset PROVE r = s
  <2>1. CASE r \in A /\ s \in A
    <3>1. PICK n \in SlotRows : r = RowAt(SlotWords[n], n) BY <1>8, <2>1
    <3>2. PICK m \in SlotRows : s = RowAt(SlotWords[m], m) BY <1>8, <2>1
    <3> QED BY <1>5, <1>7, <1>16, <3>1, <3>2
  <2>2. ASSUME NEW x \in A, NEW y \in B PROVE x.offset # y.offset
    <3>1. PICK n \in SlotRows : x = RowAt(SlotWords[n], n) BY <1>8
    <3>2. PICK o \in Walk : o \notin slotted /\ y = RowAt(o, 0) BY <1>9
    <3> QED BY <1>5, <1>10, <3>1, <3>2
  <2>3. CASE r \in B /\ s \in B
    <3>1. PICK o \in Walk : r = RowAt(o, 0) BY <1>9, <2>3
    <3>2. PICK q \in Walk : s = RowAt(q, 0) BY <1>9, <2>3
    <3> QED BY <1>5, <1>16, <3>1, <3>2
  <2> QED BY <1>1, <1>16, <2>1, <2>2, <2>3
<1> QED BY <1>13, <1>14, <1>15, <1>16

\* What holds of the page while its rows are looked for
PageInv ==
  /\ RowPageState
  /\ layout \in {"unknown", "restored", "base", "protected"}
  /\ layout = "restored" => broken = {} \/ ~LooksProtected
  /\ layout = "base" => ~LooksProtected
  /\ layout = "protected" => LooksProtected /\ broken = {}
  /\ located # <<>> => layout \in {"base", "protected"}

\* Wherever the slots of an intact page are read, they point to its rows.
LEMMA IntactFound ==
  ASSUME PageInv, layout \in {"base", "protected"}, Intact
  PROVE  /\ GoodAt(layout) = UsedAt(layout)
         /\ Cardinality(GoodAt(layout)) = rowPage.records
         /\ GoodWords(layout) = rowPage.heads \cap TrueWords
<1>1. RowPageState BY DEF PageInv
<1>2. rowPage.layout \in {"base", "protected"} BY <1>1, PageIs DEF IsRowPage
<1>3. CASE rowPage.layout = layout
  <2>1. broken = {}
    <3>1. CASE layout = "base" BY <1>1, <1>3, <3>1, PageIs DEF IsRowPage, RowPageState
    <3>2. CASE layout = "protected" BY <3>2 DEF PageInv
    <3> QED BY <3>1, <3>2
  <2>2. /\ \A n \in 1 .. SlotCount : n \in UsedAt(layout) <=> WordAt(layout, n) \in rowPage.heads
        /\ \A n \in 1 .. SlotCount : n \in GoodAt(layout) <=> WordAt(layout, n) \in rowPage.heads
        /\ Cardinality(UsedAt(layout)) = rowPage.records
    BY <1>1, <1>3, <2>1, IntactSlots
  <2>3. GoodAt(layout) \subseteq UsedAt(layout) /\ UsedAt(layout) \subseteq 1 .. SlotCount
    BY <1>1, SlotsAre
  <2>4. GoodAt(layout) = UsedAt(layout) BY <2>2, <2>3
  <2>5. GoodWords(layout) = rowPage.heads \cap TrueWords
    BY <1>3, <2>2, <2>3 DEF GoodWords, TrueWords
  <2> QED BY <2>2, <2>4, <2>5
<1>4. CASE rowPage.layout # layout
  <2>1. rowPage.layout = "protected" /\ layout = "base" /\ ~LooksProtected
    BY <1>1, <1>2, <1>4, BaseStays DEF PageInv
  <2>2. /\ GoodAt("base") = UsedAt("base")
        /\ Cardinality(UsedAt("base")) = rowPage.records
        /\ GoodWords("base") \subseteq rowPage.heads \cap TrueWords
    BY <1>1, <2>1, ProtectedTold
  <2>3. /\ IsFiniteSet(GoodWords("base"))
        /\ Cardinality(GoodWords("base")) = Cardinality(GoodAt("base"))
    BY <1>1, GoodCounted DEF GoodWords
  <2>4. IsFiniteSet(rowPage.heads \cap TrueWords)
    <3>1. rowPage.heads \in SUBSET DOMAIN rowPage.word /\ IsFiniteSet(DOMAIN rowPage.word)
      BY <1>1, PageIs DEF IsRowPage
    <3>2. rowPage.heads \cap TrueWords \in SUBSET DOMAIN rowPage.word BY <3>1
    <3> QED BY <3>1, <3>2, FS_Subset
  <2>5. Cardinality(rowPage.heads \cap TrueWords) = rowPage.records
    <3>1. rowPage.heads \cap TrueWords = TrueWords \cap rowPage.heads OBVIOUS
    <3> QED BY <3>1 DEF Intact
  <2>6. GoodWords("base") = rowPage.heads \cap TrueWords
    BY <2>2, <2>3, <2>4, <2>5, FS_Subset
  <2> QED BY <2>1, <2>2, <2>6
<1> QED BY <1>3, <1>4

\* The check does not call an intact page damaged.
LEMMA IntactSound ==
  ASSUME PageInv, layout \in {"base", "protected"}, Intact
  PROVE  CheckRowPage = "sound"
<1> DEFINE words == SlotWords
           used == {n \in DOMAIN words : ~Unused(words[n])}
           good == {n \in used : InArea(words[n]) /\ RowDecodable(words[n])
                      /\ \A m \in used : m < n => words[m] # words[n]}
           live == {n \in good : ~RowWord(words[n]).deleted}
<1>1. RowPageState BY DEF PageInv
<1>2. used = UsedAt(layout) BY DEF UsedAt, WordAt, SlotWords
<1>3. GoodAt(layout) = UsedAt(layout) /\ Cardinality(GoodAt(layout)) = rowPage.records
      /\ GoodWords(layout) = rowPage.heads \cap TrueWords
  BY IntactFound
<1>4. good = used
  <2>1. \A i, m \in DOMAIN rowPage.slots[layout] :
           i # m /\ IsRowOn(rowPage, rowPage.slots[layout][i]) =>
             rowPage.slots[layout][i] # rowPage.slots[layout][m]
    BY <1>1, PageIs DEF IsRowPage
  <2>2. SlotCount \in Nat /\ DOMAIN rowPage.slots[layout] = 1 .. SlotCount BY <1>1, SlotsAre
  <2>3. ASSUME NEW n \in used PROVE n \in good
    <3>1. n \in GoodAt(layout) BY <1>2, <1>3
    <3>2. /\ n \in DOMAIN rowPage.slots[layout] /\ IsRow(words[n]) /\ InArea(words[n])
          /\ words[n] \notin broken
      BY <3>1 DEF GoodAt, WordAt, SlotWords
    <3>3. \A m \in used : m < n => words[m] # words[n]
      BY <2>1, <2>2, <3>2 DEF IsRow, SlotWords
    <3> QED BY <3>2, <3>3 DEF RowDecodable
  <2> QED BY <2>3
<1>5. ~RowsOverlap({words[n] : n \in good})
  <2>1. \A n \in good : words[n] \in rowPage.heads
    BY <1>2, <1>3, <1>4 DEF GoodWords, WordAt, SlotWords
  <2>2. \A o \in rowPage.heads : \A q \in rowPage.heads : q <= o \/ o + RowWord(o).length <= q
    BY <1>1, PageIs DEF IsRowPage, Intact, IsRow, RowWord
  <2>3. /\ rowPage.heads \in SUBSET Nat
        /\ \A o \in rowPage.heads : RowWord(o).length \in Nat
    BY <1>1, PageIs DEF IsRowPage, RowWord
  <2> SUFFICES ASSUME NEW n \in good, NEW m \in good,
                      words[n] < words[m], words[m] < words[n] + RowWord(words[n]).length
               PROVE  FALSE
    BY DEF RowsOverlap
  <2>4. PICK o, q, l : o = words[n] /\ q = words[m] /\ l = RowWord(words[n]).length OBVIOUS
  <2>5. o \in Nat /\ q \in Nat /\ l \in Nat /\ (q <= o \/ o + l <= q)
    BY <2>1, <2>2, <2>3, <2>4
  <2> QED BY <2>4, <2>5
<1>6. /\ ~(SlotCount >= MaxSlots) /\ ~(rowPage.records > SlotCount)
      /\ ~(rowPage.freeEnd < RowAreaStart)
  <2>1. SlotCount \in Nat /\ SlotCount < MaxSlots /\ MaxSlots \in Nat
    BY <1>1, SlotsAre, RowPageAssumption DEF RowPageAssumption
  <2>2. rowPage.records \in 1 .. SlotCount BY <1>1, IntactSlots
  <2>3. rowPage.freeEnd >= RowAreaStart /\ rowPage.freeEnd \in Nat /\ RowAreaStart \in Nat
    BY <1>1, PageIs, RowPageAssumption DEF IsRowPage, RowPageAssumption
  <2> QED BY <2>1, <2>2, <2>3
<1>7. Cardinality(good) = rowPage.records BY <1>2, <1>3, <1>4
<1>8. Cardinality(live) <= rowPage.records
  <2>1. live \subseteq good OBVIOUS
  <2>2. IsFiniteSet(good) BY <1>1, <1>2, <1>4, SlotsAre
  <2> HIDE DEF live, good
  <2>3. Cardinality(live) <= Cardinality(good) BY <2>1, <2>2, FS_Subset
  <2> QED BY <1>7, <2>3
<1>9. rowPage.records \in Nat BY <1>1, PageIs DEF IsRowPage
<1> DEFINE overlap == RowsOverlap({words[n] : n \in good})
<1>10. CheckRowPage =
         IF SlotCount >= MaxSlots \/ rowPage.records > SlotCount
              \/ rowPage.freeEnd < RowAreaStart THEN "damaged"
         ELSE IF rowPage.level # 0 \/ rowPage.records = 0 THEN "sound"
         ELSE IF overlap THEN "damaged"
         ELSE IF \/ Cardinality(live) = rowPage.records
                 \/ /\ ~(good # used) /\ Cardinality(live) <= rowPage.records
                    /\ rowPage.records <= Cardinality(good)
              THEN "sound" ELSE "damaged"
  BY Zenon DEF CheckRowPage
<1> HIDE DEF live, good, used, overlap
<1>11. ~overlap BY <1>5 DEF overlap
<1> QED BY <1>4, <1>6, <1>7, <1>8, <1>9, <1>10, <1>11

\* What RowsLocatedOnce says of the rows found and of the verdict
Right(rows, said) ==
  LET found == {r.offset : r \in rows}
      before == {o \in rowPage.heads : \A p \in rowPage.heads : p <= o => IsRow(p)}
      slotted == {rowPage.slots[rowPage.layout][n] : n \in DOMAIN SlotWords}
  IN /\ Intact => /\ \A o \in slotted \cap rowPage.heads : ~RowWord(o).deleted => o \in found
                  /\ said = "sound"
     /\ layout = rowPage.layout =>
          \A o \in slotted \cap rowPage.heads :
            IsRow(o) /\ ~RowWord(o).deleted => o \in found
     /\ ~recovering => \A r \in rows : ~r.deleted
     /\ recovering /\ broken = {} => before \subseteq found
     /\ Cardinality(found) = Cardinality(rows)

RightSays == \A rows, said :
  RowPageState /\ layout \in {"base", "protected"} /\ located = <<rows>> /\ verdict = said =>
    (Right(rows, said) <=> RowsLocatedOnce)

LEMMA RightIs == RightSays
<1> SUFFICES ASSUME RowPageState, layout \in {"base", "protected"}, NEW rows, NEW said,
                    located = <<rows>>, verdict = said
             PROVE  Right(rows, said) <=> RowsLocatedOnce
  BY DEF RightSays
<1> DEFINE slotted == {rowPage.slots[rowPage.layout][n] : n \in DOMAIN SlotWords}
           found == {r.offset : r \in rows}
<1>1. slotted = TrueWords
  <2>1. DOMAIN SlotWords = 1 .. SlotCount BY SlotsAre DEF SlotWords
  <2> QED BY <2>1 DEF TrueWords, WordAt
<1>2. located # <<>> /\ located[1] = rows OBVIOUS
<1>3. RowsLocatedOnce <=>
        LET whole == \A o \in rowPage.heads : IsRow(o)
            before == {o \in rowPage.heads : \A p \in rowPage.heads : p <= o => IsRow(p)}
            intact == /\ whole /\ slotted \ BoundaryKeys \subseteq rowPage.heads \cup {0}
                      /\ Cardinality(slotted \cap rowPage.heads) = rowPage.records
                      /\ ~(rowPage.heads \cap slotted \subseteq rowPage.straddling)
            live == {o \in slotted \cap rowPage.heads : ~RowWord(o).deleted}
        IN /\ intact => live \subseteq found /\ verdict = "sound"
           /\ layout = rowPage.layout =>
                \A o \in slotted \cap rowPage.heads :
                  IsRow(o) /\ ~RowWord(o).deleted => o \in found
           /\ ~recovering => \A r \in rows : ~r.deleted
           /\ recovering /\ broken = {} => before \subseteq found
           /\ Cardinality(found) = Cardinality(rows)
  BY <1>2, Zenon DEF RowsLocatedOnce
<1>4. Right(rows, said) <=>
        LET before == {o \in rowPage.heads : \A p \in rowPage.heads : p <= o => IsRow(p)}
        IN /\ Intact => /\ \A o \in slotted \cap rowPage.heads : ~RowWord(o).deleted => o \in found
                        /\ said = "sound"
           /\ layout = rowPage.layout =>
                \A o \in slotted \cap rowPage.heads :
                  IsRow(o) /\ ~RowWord(o).deleted => o \in found
           /\ ~recovering => \A r \in rows : ~r.deleted
           /\ recovering /\ broken = {} => before \subseteq found
           /\ Cardinality(found) = Cardinality(rows)
  BY Zenon DEF Right
<1>5. Intact <=>
        /\ \A o \in rowPage.heads : IsRow(o)
        /\ slotted \ BoundaryKeys \subseteq rowPage.heads \cup {0}
        /\ Cardinality(slotted \cap rowPage.heads) = rowPage.records
        /\ ~(rowPage.heads \cap slotted \subseteq rowPage.straddling)
  BY <1>1 DEF Intact
<1> HIDE DEF slotted, found
<1> QED BY <1>3, <1>4, <1>5

\* The rows located are right, wherever the slots were found.
LEMMA LocatedRight ==
  ASSUME PageInv, layout \in {"base", "protected"}
  PROVE  Right(PageRows, CheckRowPage)
<1>1. RowPageState BY DEF PageInv
<1> DEFINE found == {r.offset : r \in PageRows}
           slotted == {rowPage.slots[rowPage.layout][n] : n \in DOMAIN SlotWords}
           before == {o \in rowPage.heads : \A p \in rowPage.heads : p <= o => IsRow(p)}
<1>2. slotted = TrueWords
  <2>1. DOMAIN SlotWords = 1 .. SlotCount BY <1>1, SlotsAre DEF SlotWords
  <2> QED BY <2>1 DEF TrueWords, WordAt
<1>3. \A r \in PageRows : r.offset \in found OBVIOUS
<1>4. ASSUME NEW n \in 1 .. SlotCount, RowDecodable(WordAt(layout, n)),
             ~RowWord(WordAt(layout, n)).deleted
      PROVE  WordAt(layout, n) \in found
  <2>1. PICK r \in PageRows : r.offset = WordAt(layout, n) BY <1>1, <1>4, RowsAre
  <2> QED BY <1>3, <2>1
<1>5. ASSUME Intact, NEW o \in TrueWords \cap rowPage.heads, ~RowWord(o).deleted
      PROVE  o \in found
  <2>1. o \in GoodWords(layout) BY <1>5, IntactFound
  <2>2. PICK n \in GoodAt(layout) : o = WordAt(layout, n) BY <2>1 DEF GoodWords
  <2>3. n \in 1 .. SlotCount BY <1>1, SlotsAre
  <2>4. RowDecodable(o) BY <2>2 DEF GoodAt, RowDecodable
  <2> QED BY <1>4, <1>5, <2>2, <2>3, <2>4
<1>6. Intact => CheckRowPage = "sound" BY IntactSound
<1>7. ASSUME layout = rowPage.layout, NEW o \in TrueWords \cap rowPage.heads,
             IsRow(o), ~RowWord(o).deleted
      PROVE  o \in found
  <2>1. PICK n \in 1 .. SlotCount : o = WordAt(layout, n) BY <1>7 DEF TrueWords
  <2>2. broken = {}
    <3>1. CASE layout = "base" BY <1>1, <1>7, <3>1, PageIs DEF IsRowPage, RowPageState
    <3>2. CASE layout = "protected" BY <3>2 DEF PageInv
    <3> QED BY <3>1, <3>2
  <2>3. RowDecodable(o) BY <1>7, <2>2 DEF RowDecodable
  <2> QED BY <1>4, <1>7, <2>1, <2>3
<1>8. ~recovering => \A r \in PageRows : ~r.deleted BY <1>1, RowsAre
<1>9. ASSUME recovering, broken = {}, NEW o \in before PROVE o \in found
  <2>1. o \in Walk BY <1>1, <1>9, WalkFinds
  <2>2. o \in rowPage.heads /\ o <= o
    BY <1>1, PageIs DEF IsRowPage
  <2>3. RowDecodable(o) BY <1>9, <2>2 DEF RowDecodable
  <2>4. PICK r \in PageRows : r.offset = o BY <1>1, <1>9, <2>1, <2>3, RowsAre
  <2> QED BY <1>3, <2>4
<1>10. Cardinality(found) = Cardinality(PageRows)
  <2> DEFINE f == [r \in PageRows |-> r.offset]
  <2>1. f \in [PageRows -> found] OBVIOUS
  <2>2. \A r, s \in PageRows : f[r] = f[s] => r = s
    <3>1. \A r, s \in PageRows : r.offset = s.offset => r = s BY <1>1, RowsAre
    <3> QED BY <3>1
  <2>3. \A o \in found : \E r \in PageRows : f[r] = o OBVIOUS
  <2>4. IsFiniteSet(found)
    <3>1. found \in SUBSET DOMAIN rowPage.word
      <4>1. \A r \in PageRows : r.offset \in DOMAIN rowPage.word BY <1>1, RowsAre
      <4> QED BY <4>1
    <3>2. IsFiniteSet(DOMAIN rowPage.word) BY <1>1, PageIs DEF IsRowPage
    <3> QED BY <3>1, <3>2, FS_Subset
  <2> HIDE DEF f, found
  <2>5. f \in Injection(PageRows, found) BY <2>1, <2>2 DEF Injection, IsInjective
  <2>6. f \in Surjection(PageRows, found) BY <2>1, <2>3 DEF Surjection
  <2> QED BY <2>4, <2>5, <2>6, FS_Injection
<1> HIDE DEF found, slotted
<1>11. /\ Intact => /\ \A o \in slotted \cap rowPage.heads : ~RowWord(o).deleted => o \in found
                    /\ CheckRowPage = "sound"
       /\ layout = rowPage.layout =>
            \A o \in slotted \cap rowPage.heads :
              IsRow(o) /\ ~RowWord(o).deleted => o \in found
       /\ ~recovering => \A r \in PageRows : ~r.deleted
       /\ recovering /\ broken = {} => before \subseteq found
       /\ Cardinality(found) = Cardinality(PageRows)
  BY <1>2, <1>5, <1>6, <1>7, <1>8, <1>9, <1>10
<1> QED BY <1>11, Zenon DEF Right, found, slotted

\* A page looked at again is the same page.
LEMMA SameEvidence ==
  ASSUME rowPage' = rowPage, broken' = broken, NEW CONSTANT t
  PROVE  Evidence(t)' = Evidence(t)
<1> DEFINE words == rowPage.slots[t]
           used == {n \in DOMAIN words : ~Unused(words[n])}
           placed == {n \in used : InArea(words[n]) /\ First(words, n)}
           rs == {n \in placed : IsRow(words[n]) /\ words[n] \notin broken}
           again == {n \in used : InArea(words[n]) /\ ~First(words, n)}
           outside == {n \in used : ~InArea(words[n])}
           keys == {n \in DOMAIN words : words[n] \in BoundaryKeys}
           empty == {n \in DOMAIN words : words[n] = 0}
           delta == Magnitude(Cardinality(rs) - rowPage.records)
           Told(r, i, d, k, m, o, a, q) ==
             [rows |-> r, invalid |-> i, delta |-> d,
              score |-> 12 * k + 3 * m + 16 * r - 24 * o - 16 * a - 12 * q
                          - 8 * d + (IF d = 0 THEN 32 ELSE 0)]
<1>1. \A o : (IsRow(o)' <=> IsRow(o)) /\ (InArea(o)' <=> InArea(o))
  BY DEF IsRow, IsRowOn, InArea
<1>2. words' = words OBVIOUS
<1>3. \A n : First(words, n)' <=> First(words, n) BY <1>2 DEF First
<1> HIDE DEF words
<1>4. used' = used /\ keys' = keys /\ empty' = empty BY <1>2 DEF Unused
<1> HIDE DEF used, keys, empty
<1>5. placed' = placed /\ again' = again /\ outside' = outside BY <1>1, <1>2, <1>3, <1>4
<1> HIDE DEF placed, again, outside
<1>6. rs' = rs BY <1>1, <1>2, <1>5
<1> HIDE DEF rs
<1>7. delta' = delta BY <1>6 DEF Magnitude
<1> HIDE DEF delta, Told
<1>8. Evidence(t) = Told(Cardinality(rs), Cardinality(used \ rs), delta, Cardinality(keys),
         Cardinality(empty), Cardinality(outside), Cardinality(again), Cardinality(placed \ rs))
  BY Zenon DEF Evidence, Told, delta, rs, placed, again, outside, used, keys, empty, words
<1>9. Evidence(t)' = Told(Cardinality(rs'), Cardinality(used' \ rs'), delta', Cardinality(keys'),
         Cardinality(empty'), Cardinality(outside'), Cardinality(again'), Cardinality(placed' \ rs'))
  BY Zenon DEF Evidence, Told, delta, rs, placed, again, outside, used, keys, empty, words
<1> QED BY <1>4, <1>5, <1>6, <1>7, <1>8, <1>9, Zenon

LEMMA SamePage ==
  ASSUME rowPage' = rowPage, broken' = broken
  PROVE  LooksProtected' = LooksProtected /\ RowPageState' = RowPageState
<1>1. Evidence("base")' = Evidence("base") /\ Evidence("protected")' = Evidence("protected")
  BY SameEvidence
<1>2. PICK b, e : b = Evidence("base") /\ e = Evidence("protected") OBVIOUS
<1>3. Speaks(Evidence("base"), Evidence("protected"))' <=>
        Speaks(Evidence("base"), Evidence("protected"))
  BY <1>1 DEF Speaks
<1> QED BY <1>3 DEF LooksProtected, RowPageState, SlotCount

LEMMA SameRight ==
  ASSUME rowPage' = rowPage, broken' = broken, layout' = layout, recovering' = recovering,
         NEW CONSTANT rows, NEW CONSTANT said
  PROVE  Right(rows, said)' = Right(rows, said)
BY DEF Right, Intact, TrueWords, WordAt, SlotCount, SlotWords, IsRow, IsRowOn, RowWord


PageHeld == PageInv /\ RowsLocatedOnce

LEMMA PageHeldInit == RowPageInit => PageHeld
BY RowPageAssumption DEF RowPageInit, PageHeld, PageInv, RowPageState, RowsLocatedOnce,
   RowPageAssumption

LEMMA RestoreBytesStep == PageHeld /\ RestoreBytes => PageHeld'
<1> SUFFICES ASSUME PageHeld, RestoreBytes PROVE PageHeld' OBVIOUS
<1>1. /\ rowPage' = rowPage /\ layout' = "restored" /\ located' = located /\ located = <<>>
      /\ RowPageState
  BY DEF RestoreBytes, PageHeld, PageInv
<1>2. CASE LooksProtected
  BY <1>1, <1>2 DEF RestoreBytes, PageHeld, PageInv, RowPageState, RowsLocatedOnce
<1>3. CASE ~LooksProtected
  <2>1. broken' = broken BY <1>3 DEF RestoreBytes
  <2>2. LooksProtected' = LooksProtected /\ RowPageState' = RowPageState BY <1>1, <2>1, SamePage
  <2> QED BY <1>1, <1>3, <2>2 DEF PageHeld, PageInv, RowsLocatedOnce
<1> QED BY <1>2, <1>3

LEMMA FindLayoutStep == PageHeld /\ FindLayout => PageHeld'
<1> SUFFICES ASSUME PageHeld, FindLayout PROVE PageHeld' OBVIOUS
<1>1. /\ rowPage' = rowPage /\ broken' = broken /\ located' = located /\ located = <<>>
      /\ RowPageState /\ (broken = {} \/ ~LooksProtected)
      /\ layout' = IF LooksProtected THEN "protected" ELSE "base"
  BY DEF FindLayout, PageHeld, PageInv
<1>2. LooksProtected' = LooksProtected /\ RowPageState' = RowPageState BY <1>1, SamePage
<1> QED BY <1>1, <1>2 DEF PageHeld, PageInv, RowsLocatedOnce

LEMMA LocateRowsStep == PageHeld /\ LocateRows => PageHeld'
<1> SUFFICES ASSUME PageHeld, LocateRows PROVE PageHeld' OBVIOUS
<1>1. /\ PageInv /\ layout \in {"base", "protected"}
      /\ rowPage' = rowPage /\ broken' = broken /\ layout' = layout /\ recovering' = recovering
      /\ RowPageState
  BY DEF LocateRows, PageHeld, PageInv
<1>2. PICK rows, said : rows = PageRows /\ said = CheckRowPage OBVIOUS
<1>3. located' = <<rows>> /\ verdict' = said BY <1>2 DEF LocateRows
<1>4. Right(rows, said) BY <1>1, <1>2, LocatedRight
<1>5. Right(rows, said)' BY <1>1, <1>4, SameRight
<1>6. LooksProtected' = LooksProtected /\ RowPageState' = RowPageState BY <1>1, SamePage
<1>7. PageInv' BY <1>1, <1>6 DEF PageInv
<1>8. RowsLocatedOnce'
  <2>1. RowPageState' /\ layout' \in {"base", "protected"} BY <1>1, <1>6
  <2>2. RightSays' BY RightIs, PTL
  <2> QED BY <1>3, <1>5, <2>1, <2>2 DEF RightSays
<1> QED BY <1>7, <1>8 DEF PageHeld

LEMMA PageStill == PageHeld /\ UNCHANGED pageVars => PageHeld'
<1> SUFFICES ASSUME PageHeld, UNCHANGED pageVars PROVE PageHeld' OBVIOUS
<1>1. /\ rowPage' = rowPage /\ broken' = broken /\ layout' = layout /\ recovering' = recovering
      /\ located' = located /\ verdict' = verdict
  BY DEF pageVars
<1>2. LooksProtected' = LooksProtected /\ RowPageState' = RowPageState BY <1>1, SamePage
<1>3. PageInv' BY <1>1, <1>2 DEF PageHeld, PageInv
<1>4. RowsLocatedOnce' 
  BY <1>1 DEF PageHeld, RowsLocatedOnce, SlotWords, RowWord, IsRow, IsRowOn
<1> QED BY <1>3, <1>4 DEF PageHeld

\* Whatever its slots and rows are and wherever its directory is: the rows of a
\* page are located as RowsLocatedOnce says.
THEOREM RowsAreLocated == RowPageSpec => []RowsLocatedOnce
<1>1. PageHeld /\ [RowPageNext]_pageVars => PageHeld'
  BY RestoreBytesStep, FindLayoutStep, LocateRowsStep, PageStill DEF RowPageNext
<1>2. PageHeld => RowsLocatedOnce BY DEF PageHeld
<1> QED BY <1>1, <1>2, PageHeldInit, PTL DEF RowPageSpec

-----------------------------------------------------------------------------

(* The values of a row (RowValues) *)

Octets == 0 .. 255

\* A slice of a row is its bytes from one position up to another.
LEMMA SliceIs ==
  ASSUME NEW T, NEW row \in Seq(T), NEW from \in Nat, NEW to \in Nat,
         from <= to, to <= Len(row)
  PROVE  /\ Slice(row, from, to) \in Seq(T) /\ Len(Slice(row, from, to)) = to - from
         /\ \A n \in 1 .. to - from : Slice(row, from, to)[n] = Byte(row, from + n - 1)
<1> DEFINE y == SubSeq(row, from + 1, to)
<1>1. /\ y \in Seq(T) /\ Len(y) = to - from
      /\ \A k \in 1 .. to - from : y[k] = row[from + k]
  OBVIOUS
<1>2. \A n \in 1 .. to - from : from + n - 1 + 1 = from + n OBVIOUS
<1>3. \A n \in 1 .. to - from : Byte(row, from + n - 1) = row[from + n] BY <1>2 DEF Byte
<1> QED BY <1>1, <1>3 DEF Slice

\* A byte of a row is a byte.
LEMMA ByteIs ==
  ASSUME NEW row \in Seq(Octets), NEW pos \in Nat, pos < Len(row)
  PROVE  Byte(row, pos) \in Octets /\ Byte(row, pos) \in Int
         /\ 0 <= Byte(row, pos) /\ Byte(row, pos) <= 255
<1>1. pos + 1 \in DOMAIN row OBVIOUS
<1>2. Byte(row, pos) \in Octets BY <1>1 DEF Byte
<1>3. \A b \in Octets : b \in Int /\ 0 <= b /\ b <= 255 BY DEF Octets
<1> QED BY <1>2, <1>3

\* The three ways a short value is marked are told from one another.
LEMMA ShortBytesIs ==
  ASSUME NEW row \in Seq(Octets), NEW from \in Nat, NEW to \in Nat, ShortFits(row, from, to)
  PROVE  /\ ShortBytes(row, from) = Value(ShortAt(row, from, to), to)
         /\ ShortAt(row, from, to) \in Seq(Octets)
<1> DEFINE marker == Byte(row, from)
           size == Big(row, from)
<1>1. from < to /\ to <= Len(row) /\ Len(row) \in Nat BY DEF ShortFits
<1>2. marker \in Int /\ 0 <= marker /\ marker <= 255 BY <1>1, ByteIs
<1>3. ASSUME marker < 128, from + 2 < to, to = from + 2 + size
      PROVE  /\ ShortBytes(row, from) = Value(ShortAt(row, from, to), to)
             /\ ShortAt(row, from, to) \in Seq(Octets)
  <2>1. from + 2 <= to /\ size = to - (from + 2) /\ size # 0
    <3>1. Byte(row, from + 1) \in Int BY <1>1, <1>3, ByteIs
    <3>2. size \in Int BY <1>2, <3>1 DEF Big
    <3> QED BY <3>2, <1>3
  <2>2. ShortAt(row, from, to) = Slice(row, from + 2, to) BY <1>3 DEF ShortAt
  <2>3. ShortAt(row, from, to) \in Seq(Octets) BY <1>1, <2>1, <2>2, SliceIs
  <2>4. from + 2 + size = to BY <2>1
  <2>5. Bytes(row, from + 2, size) = Value(Slice(row, from + 2, to), to)
    BY <1>1, <2>4 DEF Bytes
  <2>6. ~(from >= Len(row)) /\ ~(from + 2 > Len(row)) /\ marker # 128 BY <1>1, <1>2, <1>3
  <2> HIDE DEF size
  <2>7. ShortBytes(row, from) = Bytes(row, from + 2, size)
    <3> HIDE DEF marker
    <3>1. ~(marker \in 129 .. 254) BY <1>2, <1>3
    <3> QED BY <1>3, <2>1, <2>6, <3>1 DEF ShortBytes, marker, size
  <2> QED BY <2>2, <2>3, <2>5, <2>7
<1>4. ASSUME marker = 128, to = from + 1
      PROVE  /\ ShortBytes(row, from) = Value(ShortAt(row, from, to), to)
             /\ ShortAt(row, from, to) \in Seq(Octets)
  <2>1. ShortAt(row, from, to) = <<>> BY <1>4, <1>1 DEF ShortAt, Slice
  <2>2. ShortBytes(row, from) = Value(<<>>, to) BY <1>4, <1>1 DEF ShortBytes
  <2> QED BY <2>1, <2>2
<1>5. ASSUME marker \in 129 .. 254, to = from + 1 + (marker - 128)
      PROVE  /\ ShortBytes(row, from) = Value(ShortAt(row, from, to), to)
             /\ ShortAt(row, from, to) \in Seq(Octets)
  <2>1. ~(marker < 128) /\ marker # 128 /\ from + 1 <= to /\ from + 1 + (marker - 128) = to
    <3> HIDE DEF marker
    <3> QED BY <1>2, <1>5
  <2>2. ShortAt(row, from, to) = Slice(row, from + 1, to) BY <2>1 DEF ShortAt
  <2>3. ShortAt(row, from, to) \in Seq(Octets) BY <1>1, <2>1, <2>2, SliceIs
  <2>4. Bytes(row, from + 1, marker - 128) = Value(Slice(row, from + 1, to), to)
    BY <1>1, <2>1 DEF Bytes
  <2>5. ~(from >= Len(row)) BY <1>1
  <2>6. ShortBytes(row, from) = Bytes(row, from + 1, marker - 128)
    <3> HIDE DEF marker
    <3> QED BY <1>5, <2>1, <2>5 DEF ShortBytes, marker
  <2> QED BY <2>2, <2>3, <2>4, <2>6
<1>6. \/ marker \in 128 .. 254 /\ to = from + 1 + (marker - 128)
      \/ marker < 128 /\ from + 2 < to /\ to = from + 2 + size
  BY DEF ShortFits
<1>7. (marker = 128 /\ to = from + 1)
      \/ (marker \in 129 .. 254 /\ to = from + 1 + (marker - 128))
      \/ (marker < 128 /\ from + 2 < to /\ to = from + 2 + size)
  <2> HIDE DEF marker, size
  <2> QED BY <1>2, <1>6
<1> QED BY <1>3, <1>4, <1>5, <1>7

ColumnType == {"int", "char", "clob"}
ColumnOf == [id : Nat, type : ColumnType, nullable : BOOLEAN, default : BOOLEAN]

\* What the world of a row says of its lob ids, and that they can be read
Readable(c) ==
  \A a \in c.away : a[2] \in DOMAIN lobs /\ lobs[a[2]] # Nowhere
MeantOf(c) == c.stored \cup {<<a[1], <<lobs[a[2]], a[2]>>>> : a \in c.away}

\* A locator leads to the value it was written for.
LEMMA OutOfLineRead ==
  ASSUME NEW c, Readable(c), NEW raw, NEW next, LocatorOf(raw), NEW id,
         <<id, LobId(raw)>> \in c.away
  PROVE  \E v : OutOfLine(raw, next) = Value(v, next) /\ <<id, v>> \in MeantOf(c)
<1> DEFINE a == <<id, LobId(raw)>>
           v == <<lobs[LobId(raw)], LobId(raw)>>
<1>1. a \in c.away /\ a[1] = id /\ a[2] = LobId(raw) OBVIOUS
<1> HIDE DEF a
<1>2. LobId(raw) \in DOMAIN lobs /\ lobs[LobId(raw)] # Nowhere BY <1>1 DEF Readable
<1>3. OutOfLine(raw, next) = Value(v, next) BY <1>2 DEF OutOfLine, LocatorOf
<1>4. <<a[1], <<lobs[a[2]], a[2]>>>> \in MeantOf(c) BY <1>1 DEF MeantOf
<1> QED BY <1>1, <1>3, <1>4

\* Neither the first byte of a locator nor zero is in any text.
LEMMA DecodableByte == \A b \in {9, 10, 13} \cup (32 .. 254) : b # 0 /\ b # 2
OBVIOUS

\* A value out of line is not taken for one in the row: what starts with the
\* bytes of a locator has no length that fits, or holds a control byte.
LEMMA LocatorNotInRow ==
  ASSUME NEW row \in Seq(Octets), NEW from \in Nat, NEW to \in Nat, to = from + LocatorSize,
         to <= Len(row), NEW col, LocatorOf(Slice(row, from, to))
  PROVE  ~Held(col, ShortBytes(row, from)).ok
<1> DEFINE raw == Slice(row, from, to)
           size == Big(row, from)
           short == Slice(row, from + 2, from + 2 + size)
<1>1. to = from + 21 /\ from + 21 <= Len(row) /\ Len(row) \in Nat BY DEF LocatorSize
<1>2. /\ raw[1] = Byte(row, from) /\ raw[3] = Byte(row, from + 2)
      /\ raw[5] = Byte(row, from + 4) /\ raw[17] = Byte(row, from + 16)
  <2>1. from <= to /\ to <= Len(row) /\ \A n \in {1, 3, 5, 17} : n \in 1 .. to - from
    BY <1>1
  <2>3. \A n \in 1 .. to - from : raw[n] = Byte(row, from + n - 1)
    BY ONLY <2>1, SliceIs, row \in Seq(Octets), from \in Nat, to \in Nat, Zenon
  <2> HIDE DEF raw
  <2>2. /\ raw[1] = Byte(row, from + 1 - 1) /\ raw[3] = Byte(row, from + 3 - 1)
        /\ raw[5] = Byte(row, from + 5 - 1) /\ raw[17] = Byte(row, from + 17 - 1)
    BY <2>1, <2>3
  <2> QED BY <2>2
<1>3. /\ Byte(row, from) = 2 /\ Byte(row, from + 16) = 0
      /\ ~(Byte(row, from + 2) = 1 /\ Byte(row, from + 4) \in {3, 4})
  <2> HIDE DEF raw
  <2>1. raw[1] = 2 /\ raw[17] = 0 /\ ~(raw[3] = 1 /\ raw[5] \in {3, 4})
    BY DEF LocatorOf, Locator, raw
  <2> QED BY <1>2, <2>1
<1>4. Byte(row, from + 1) \in Int /\ 0 <= Byte(row, from + 1) BY <1>1, ByteIs
<1>5. size \in Nat /\ size >= 512 BY <1>3, <1>4 DEF Big
<1>6. ~(from >= Len(row)) /\ ~(from + 2 > Len(row)) BY <1>1
<1>7. ShortBytes(row, from) = Bytes(row, from + 2, size)
  <2> HIDE DEF size
  <2>1. Byte(row, from) # 128 /\ Byte(row, from) < 128 /\ ~(Byte(row, from) \in 129 .. 254)
        /\ size # 0
    BY <1>3, <1>5
  <2> QED BY <1>6, <2>1 DEF ShortBytes, size
<1> HIDE DEF size, raw
<1>8. CASE from + 2 + size > Len(row)
  <2>1. ShortBytes(row, from) = Error BY <1>7, <1>8 DEF Bytes
  <2> QED BY <2>1 DEF Held, Error
<1>9. CASE ~(from + 2 + size > Len(row))
  <2>1. from + 2 <= from + 2 + size /\ from + 2 + size <= Len(row)
        /\ (from + 2 + size) - (from + 2) = size /\ from + 2 \in Nat /\ from + 2 + size \in Nat
        /\ \A n \in {1, 3, 15} : n \in 1 .. size
    BY <1>1, <1>5, <1>9
  <2>2. short \in Seq(Octets) /\ Len(short) = size
        /\ \A n \in 1 .. size : short[n] = Byte(row, from + 2 + n - 1)
    <3>1. PICK f : f = from + 2 OBVIOUS
    <3>2. PICK t : t = from + 2 + size OBVIOUS
    <3>3. f \in Nat /\ t \in Nat /\ f <= t /\ t <= Len(row) BY <2>1, <3>1, <3>2
    <3>5. t - f = size BY <2>1, <3>1, <3>2
    <3>6. Slice(row, f, t) \in Seq(Octets) BY ONLY <3>3, SliceIs, row \in Seq(Octets)
    <3>7. Len(Slice(row, f, t)) = t - f BY ONLY <3>3, SliceIs, row \in Seq(Octets)
    <3>8. \A n \in 1 .. t - f : Slice(row, f, t)[n] = Byte(row, f + n - 1)
      <4>1. SUFFICES ASSUME NEW n \in 1 .. t - f PROVE Slice(row, f, t)[n] = Byte(row, f + n - 1)
        OBVIOUS
      <4>2. f \in Nat /\ t \in Nat /\ f <= t /\ t <= Len(row) /\ row \in Seq(Octets)
        BY ONLY <3>3, row \in Seq(Octets)
      <4>3. f + n - 1 + 1 = f + n BY <4>2
      <4>4. SubSeq(row, f + 1, t)[n] = row[f + n] BY <4>2
      <4> QED BY <4>3, <4>4 DEF Slice, Byte
    <3> QED BY ONLY <3>1, <3>2, <3>5, <3>6, <3>7, <3>8
  <2>3. short[1] = Byte(row, from + 2) /\ short[3] = Byte(row, from + 4) /\ short[15] = 0
    <3>1. /\ short[1] = Byte(row, from + 2 + 1 - 1) /\ short[3] = Byte(row, from + 2 + 3 - 1)
          /\ short[15] = Byte(row, from + 2 + 15 - 1)
      BY <2>1, <2>2
    <3>2. from + 2 + 1 - 1 = from + 2 /\ from + 2 + 3 - 1 = from + 4
          /\ from + 2 + 15 - 1 = from + 16
      OBVIOUS
    <3> QED BY <3>1, <3>2, <1>3
  <2> HIDE DEF short
  <2>4. ShortBytes(row, from) = Value(short, from + 2 + size) BY <1>7, <1>9 DEF Bytes, short
  <2>5. ~Enveloped(short) BY <2>3, <1>3 DEF Enveloped
  <2>6. ~Locator(short) BY <2>2, <1>5 DEF Locator, LocatorSize
  <2>7. ~Decodable(short)
    <3>1. 15 \in DOMAIN short BY <2>1, <2>2
    <3> QED BY <3>1, <2>3, DecodableByte DEF Decodable
  <2>8. Held(col, Value(short, from + 2 + size)) = Error
    BY <2>5, <2>6, <2>7 DEF Held, Text, Value
  <2> QED BY <2>4, <2>8 DEF Error
<1> QED BY <1>8, <1>9

\* A short value is read as what was meant by it.
LEMMA HeldIs ==
  ASSUME NEW c, Readable(c), NEW col, NEW raw \in Seq(Octets), NEW to,
         \/ LocatorOf(raw) /\ <<col.id, LobId(raw)>> \in c.away
         \/ Decodable(Inner(col, raw)) /\ <<col.id, Inner(col, raw)>> \in c.stored
  PROVE  \E v : Held(col, Value(raw, to)) = Value(v, to) /\ <<col.id, v>> \in MeantOf(c)
<1>1. Value(raw, to).ok /\ Value(raw, to).value = raw /\ Value(raw, to).next = to BY DEF Value
<1>2. CASE LocatorOf(raw) /\ <<col.id, LobId(raw)>> \in c.away
  <2>1. Locator(raw) /\ ~Enveloped(raw) BY <1>2 DEF LocatorOf, Locator, Enveloped
  <2>2. Held(col, Value(raw, to)) = OutOfLine(raw, to) BY <1>1, <2>1 DEF Held
  <2> QED BY <1>2, <2>2, OutOfLineRead
<1>3. CASE Decodable(Inner(col, raw)) /\ <<col.id, Inner(col, raw)>> \in c.stored
  <2>1. <<col.id, Inner(col, raw)>> \in MeantOf(c) BY <1>3 DEF MeantOf
  <2>2. CASE col.type = "clob" /\ Enveloped(raw)
    <3>1. Inner(col, raw) = SubSeq(raw, EnvelopeSize + 1, Len(raw)) BY <2>2 DEF Inner
    <3>2. Held(col, Value(raw, to)) = Text(Inner(col, raw), to) BY <1>1, <2>2, <3>1 DEF Held
    <3> QED BY <1>3, <2>1, <3>2 DEF Text
  <2>3. CASE ~(col.type = "clob" /\ Enveloped(raw))
    <3>1. Inner(col, raw) = raw BY <2>3 DEF Inner
    <3>2. ~Locator(raw)
      <4>1. SUFFICES ASSUME Len(raw) = 21, raw[1] = 2 PROVE FALSE BY DEF Locator, LocatorSize
      <4>2. 1 \in DOMAIN raw BY <4>1
      <4> QED BY <1>3, <3>1, <4>1, <4>2, DecodableByte DEF Decodable
    <3>3. Held(col, Value(raw, to)) = Text(raw, to) BY <1>1, <2>3, <3>2 DEF Held
    <3> QED BY <1>3, <2>1, <3>1, <3>3 DEF Text
  <2> QED BY <2>2, <2>3
<1> QED BY <1>2, <1>3

\* A column was read as written, and where it ends the next one begins; a state
\* nobody knows is refused.
ReadAsWritten(c, col, state, from, to) ==
  \/ state = 2 /\ c.unknown /\ StateValue(col, c.bytes, from, state) = Refusal
  \/ /\ state # 2
     /\ \E v : /\ StateValue(col, c.bytes, from, state) = Value(v, to)
               /\ <<col.id, v>> \in MeantOf(c)

\* Every column is read as written.
LEMMA ColumnRead ==
  ASSUME NEW c, Readable(c), c.bytes \in Seq(Octets), NEW col, NEW state,
         NEW from \in Nat, NEW to \in Nat, ColumnWritten(c, col, state, from, to)
  PROVE  ReadAsWritten(c, col, state, from, to)
<1> DEFINE row == c.bytes
           raw == ShortAt(row, from, to)
           here == Slice(row, from, to)
<1>1. row \in Seq(Octets) /\ Len(row) \in Nat OBVIOUS
<1>2. CASE /\ state = 3 /\ to = from + IF Fixed(col) THEN IntSize ELSE 0
           /\ to <= Len(row) /\ <<col.id, Null>> \in c.stored
  <2>1. to = from + NullRoom(col) BY <1>2 DEF NullRoom
  <2>2. ~(to > Len(row)) BY <1>1, <1>2
  <2>3. StateValue(col, row, from, state) = Value(Null, to) BY <1>2, <2>1, <2>2 DEF StateValue
  <2>4. <<col.id, Null>> \in MeantOf(c) BY <1>2 DEF MeantOf
  <2> QED BY <1>2, <2>3, <2>4 DEF ReadAsWritten
<1>3. CASE state = 2 /\ c.unknown
  BY <1>3 DEF StateValue, ReadAsWritten
<1>4. CASE /\ state = 1 /\ ~Fixed(col) /\ to = from + LocatorSize /\ to <= Len(row)
           /\ LocatorOf(here) /\ <<col.id, LobId(here)>> \in c.away
  <2>1. ~InRow(col, row, from).ok BY <1>1, <1>4, LocatorNotInRow DEF InRow
  <2>2. Bytes(row, from, LocatorSize) = Value(here, to) BY <1>1, <1>4 DEF Bytes
  <2>3. StateValue(col, row, from, state) = BareLocator(col, Value(here, to))
    BY <1>4, <2>1, <2>2 DEF StateValue, OrElse
  <2>4. BareLocator(col, Value(here, to)) = OutOfLine(here, to)
    BY <1>4 DEF BareLocator, Value
  <2>5. \E v : OutOfLine(here, to) = Value(v, to) /\ <<col.id, v>> \in MeantOf(c)
    BY <1>4, OutOfLineRead
  <2> QED BY <1>4, <2>3, <2>4, <2>5 DEF ReadAsWritten
<1>5. CASE /\ state = 0 /\ Fixed(col) /\ to = from + IntSize /\ to <= Len(row)
           /\ <<col.id, here>> \in c.stored
  <2>1. InRow(col, row, from) = Value(here, to) BY <1>1, <1>5 DEF InRow, Bytes
  <2>2. StateValue(col, row, from, state) = Value(here, to) BY <1>5, <2>1 DEF StateValue
  <2>3. <<col.id, here>> \in MeantOf(c) BY <1>5 DEF MeantOf
  <2> QED BY <1>5, <2>2, <2>3 DEF ReadAsWritten
<1>6. CASE /\ state = 0 /\ ~Fixed(col) /\ ShortFits(row, from, to)
           /\ \/ LocatorOf(raw) /\ <<col.id, LobId(raw)>> \in c.away
              \/ Decodable(Inner(col, raw)) /\ <<col.id, Inner(col, raw)>> \in c.stored
  <2>1. ShortBytes(row, from) = Value(raw, to) /\ raw \in Seq(Octets)
    BY <1>1, <1>6, ShortBytesIs
  <2> HIDE DEF raw
  <2>2. \E v : Held(col, Value(raw, to)) = Value(v, to) /\ <<col.id, v>> \in MeantOf(c)
    BY <1>6, <2>1, HeldIs
  <2>3. StateValue(col, row, from, state) = Held(col, Value(raw, to))
    BY <1>6, <2>1 DEF StateValue, InRow
  <2> QED BY <1>6, <2>2, <2>3 DEF ReadAsWritten
<1> QED BY <1>2, <1>3, <1>4, <1>5, <1>6 DEF ColumnWritten

\* What reading has after some columns, when all were read as written
StateOf(c, n) == State(c.bytes, n)
ValueOf(c, n) ==
  LET cols == StorageOrder(c.columns)
  IN StateValue(cols[n], c.bytes, c.places[n], StateOf(c, n))
PairOf(c, n) == <<StorageOrder(c.columns)[n].id, ValueOf(c, n).value>>
Reached(c, n) ==
  IF \E k \in 1 .. n : StateOf(c, k) = 2 THEN Refusal
  ELSE Parsing(c.places[n + 1], [k \in 1 .. n |-> PairOf(c, k)])

\* The recursion of WithMetadata
OneMore(row, cols, n, p) ==
  IF ~p.ok \/ Len(p.values) >= n THEN p
  ELSE Advance(row, p, cols, n, StateValue(cols[n], row, p.next, State(row, n)),
               State(row, n) = 0)
IsReading(f, row, cols, start) ==
  f = [n \in 0 .. Len(cols) |->
         IF n = 0 THEN Parsing(start, <<>>) ELSE OneMore(row, cols, n, f[n - 1])]

\* Reading by the states is the recursion named above.
LEMMA ReadingIs ==
  ASSUME NEW row, NEW columns
  PROVE  LET cols == StorageOrder(columns)
             start == 2 + MetaLength(Len(cols))
         IN WithMetadata(row, columns) =
              IF Len(row) < start THEN Error
              ELSE Ending(row, (CHOOSE f : IsReading(f, row, cols, start))[Len(cols)], 0 .. 64)
BY Zenon DEF WithMetadata, IsReading, OneMore

\* What IsRowCase says of a row that has all its columns
Laid(c) ==
  LET cols == StorageOrder(c.columns)
  IN /\ c.bytes \in Seq(Octets) /\ c.places \in Seq(0 .. Len(c.bytes))
     /\ Len(c.places) = Len(cols) + 1 /\ cols \in Seq(ColumnOf)
     /\ c.places[1] = 2 + MetaLength(Len(cols))
     /\ \A n \in DOMAIN cols :
          ColumnWritten(c, cols[n], State(c.bytes, n), c.places[n], c.places[n + 1])

\* A sequence is its front with its last element appended.
LEMMA AppendedOne ==
  ASSUME NEW n \in Nat \ {0}, NEW f, NEW h, NEW e,
         f = [k \in 1 .. n |-> f[k]], h = [k \in 1 .. n - 1 |-> f[k]], e = f[n]
  PROVE  Append(h, e) = f
<1> DEFINE S == {f[k] : k \in 1 .. n}
<1>1. n - 1 \in Nat /\ \A k \in 1 .. n - 1 : k \in 1 .. n OBVIOUS
<1>2. h \in [1 .. n - 1 -> S] BY <1>1
<1>3. f[n] \in S OBVIOUS
<1> HIDE DEF S
<1>4. h \in Seq(S)
  <2>1. PICK m : m = n - 1 OBVIOUS
  <2>2. m \in Nat /\ h \in [1 .. m -> S] BY <1>1, <1>2, <2>1
  <2> QED BY ONLY <2>2
<1>5. DOMAIN h = 1 .. n - 1 BY <1>2
<1>6. Len(h) = n - 1 BY <1>1, <1>4, <1>5
<1>7. /\ Append(h, e) \in Seq(S) /\ Len(Append(h, e)) = n
      /\ \A k \in 1 .. n - 1 : Append(h, e)[k] = h[k]
      /\ Append(h, e)[n] = e
  BY <1>1, <1>3, <1>4, <1>6
<1>8. Append(h, e) = [k \in 1 .. n |-> Append(h, e)[k]] BY <1>7
<1>9. \A k \in 1 .. n : Append(h, e)[k] = f[k]
  <2>1. SUFFICES ASSUME NEW k \in 1 .. n PROVE Append(h, e)[k] = f[k] OBVIOUS
  <2>2. k = n \/ k \in 1 .. n - 1 OBVIOUS
  <2>3. k \in 1 .. n - 1 => h[k] = f[k] OBVIOUS
  <2> QED BY <1>7, <2>2, <2>3
<1>10. Append(h, e) = [k \in 1 .. n |-> f[k]] BY <1>8, <1>9
<1> QED BY ONLY <1>10, f = [k \in 1 .. n |-> f[k]]

\* One column takes reading from what is expected before it to what is after.
LEMMA OneColumn ==
  ASSUME NEW c, Readable(c), Laid(c), NEW n \in 1 .. Len(StorageOrder(c.columns))
  PROVE  OneMore(c.bytes, StorageOrder(c.columns), n, Reached(c, n - 1)) = Reached(c, n)
<1> DEFINE cols == StorageOrder(c.columns)
           row == c.bytes
           p == Reached(c, n - 1)
<1>0. n \in Nat \ {0} /\ n \in DOMAIN cols /\ n \in DOMAIN c.places /\ n + 1 \in DOMAIN c.places
  <2>1. cols \in Seq(ColumnOf) /\ c.places \in Seq(0 .. Len(c.bytes)) BY DEF Laid
  <2>2. Len(c.places) = Len(cols) + 1 BY DEF Laid
  <2> QED BY <2>1, <2>2
<1>1. /\ row \in Seq(Octets) /\ Len(cols) \in Nat /\ n \in DOMAIN cols /\ n \in Nat \ {0}
      /\ c.places[n] \in Nat /\ c.places[n + 1] \in Nat /\ n - 1 + 1 = n /\ n - 1 \in Nat
      /\ ColumnWritten(c, cols[n], StateOf(c, n), c.places[n], c.places[n + 1])
  <2>1. row \in Seq(Octets) /\ cols \in Seq(ColumnOf) BY DEF Laid
  <2>2. c.places[n] \in 0 .. Len(row) /\ c.places[n + 1] \in 0 .. Len(row)
    <3>1. PICK R : R = 0 .. Len(row) OBVIOUS
    <3>2. c.places \in Seq(R) BY <3>1 DEF Laid
    <3> QED BY <1>0, <3>1, <3>2
  <2>3. ColumnWritten(c, cols[n], StateOf(c, n), c.places[n], c.places[n + 1])
    BY <1>0 DEF Laid, StateOf
  <2> QED BY <1>0, <2>1, <2>2, <2>3
<1>2. CASE \E k \in 1 .. n - 1 : StateOf(c, k) = 2
  <2>1. p = Refusal BY <1>2 DEF Reached
  <2>2. Reached(c, n) = Refusal
    <3>1. \E k \in 1 .. n : StateOf(c, k) = 2 BY <1>2, <1>1
    <3> QED BY <3>1 DEF Reached
  <2> QED BY <2>1, <2>2 DEF OneMore, Refusal
<1>3. CASE ~\E k \in 1 .. n - 1 : StateOf(c, k) = 2
  <2> DEFINE values == [k \in 1 .. n - 1 |-> PairOf(c, k)]
             v == ValueOf(c, n)
  <2>1. p = Parsing(c.places[n], values) BY <1>1, <1>3 DEF Reached
  <2>2. Len(values) = n - 1 BY <1>1
  <2> HIDE DEF values, p
  <2>3. p.ok /\ p.next = c.places[n] /\ p.values = values BY <2>1 DEF Parsing
  <2>4. ~(Len(p.values) >= n) BY <2>2, <2>3, <1>1
  <2>5. StateValue(cols[n], row, p.next, State(row, n)) = v BY <2>3 DEF ValueOf, StateOf
  <2> HIDE DEF v, cols
  <2>6. OneMore(row, cols, n, p) = Advance(row, p, cols, n, v, State(row, n) = 0)
    BY <2>3, <2>4, <2>5 DEF OneMore
  <2>7. v = StateValue(cols[n], row, c.places[n], StateOf(c, n)) BY DEF v, ValueOf, cols
  <2>10. ReadAsWritten(c, cols[n], StateOf(c, n), c.places[n], c.places[n + 1])
    BY <1>1, ColumnRead
  <2>8. CASE StateOf(c, n) = 2
    <3>1. v = Refusal BY <2>7, <2>8, <2>10 DEF ReadAsWritten
    <3>2. State(row, n) = 2 BY <2>8 DEF StateOf
    <3>3. ~(State(row, n) = 0) BY <3>2
    <3>4. Advance(row, p, cols, n, v, State(row, n) = 0) = Refusal
      BY <3>1, <3>3 DEF Advance, With, Refusal
    <3>5. \E k \in 1 .. n : StateOf(c, k) = 2 BY <2>8, <1>1
    <3> QED BY <2>6, <3>4, <3>5 DEF Reached, cols, p
  <2>9. CASE StateOf(c, n) # 2
    <3>1. PICK u : v = Value(u, c.places[n + 1]) BY <2>7, <2>9, <2>10 DEF ReadAsWritten
    <3>2. v.ok /\ v.next = c.places[n + 1] BY <3>1 DEF Value
    <3>3. Advance(row, p, cols, n, v, State(row, n) = 0)
            = Parsing(c.places[n + 1], Append(values, <<cols[n].id, v.value>>))
      BY <3>2, <2>3 DEF Advance, With
    <3>4. <<cols[n].id, v.value>> = PairOf(c, n) BY DEF PairOf, v, cols
    <3>5. Append(values, PairOf(c, n)) = [k \in 1 .. n |-> PairOf(c, k)]
      <4> DEFINE f == [k \in 1 .. n |-> PairOf(c, k)]
      <4>1. f = [k \in 1 .. n |-> f[k]] /\ PairOf(c, n) = f[n] BY <1>1
      <4>2. values = [k \in 1 .. n - 1 |-> f[k]] BY <1>1 DEF values
      <4> HIDE DEF f
      <4>4. PICK e : e = PairOf(c, n) OBVIOUS
      <4>5. e = f[n] BY <4>1, <4>4
      <4>3. Append(values, e) = f BY ONLY n \in Nat \ {0}, <1>0, <4>1, <4>2, <4>5, AppendedOne
      <4> QED BY <4>3, <4>4 DEF f
    <3>6. ~\E k \in 1 .. n : StateOf(c, k) = 2
      <4>1. \A k \in 1 .. n : k = n \/ k \in 1 .. n - 1 BY <1>1
      <4> QED BY <1>3, <2>9, <4>1
    <3>7. Reached(c, n) = Parsing(c.places[n + 1], [k \in 1 .. n |-> PairOf(c, k)])
      BY <3>6 DEF Reached
    <3> QED BY <2>6, <3>3, <3>4, <3>5, <3>7 DEF cols, p
  <2> QED BY <2>8, <2>9
<1> QED BY <1>2, <1>3

\* Reading by the states goes through the row as it was written.
LEMMA ReadingReaches ==
  ASSUME NEW c, Readable(c), Laid(c)
  PROVE  LET cols == StorageOrder(c.columns)
             start == 2 + MetaLength(Len(cols))
         IN (CHOOSE f : IsReading(f, c.bytes, cols, start))[Len(cols)] = Reached(c, Len(cols))
<1> DEFINE cols == StorageOrder(c.columns)
           start == 2 + MetaLength(Len(cols))
           L == Len(cols)
           W == [n \in 0 .. L |-> Reached(c, n)]
<1>1. L \in Nat /\ c.places[1] = start BY DEF Laid
<1>2. Reached(c, 0) = Parsing(start, <<>>)
  <2>1. ~\E k \in 1 .. 0 : StateOf(c, k) = 2 OBVIOUS
  <2>2. [k \in 1 .. 0 |-> PairOf(c, k)] = <<>> OBVIOUS
  <2>3. 0 + 1 = 1 OBVIOUS
  <2> QED BY <1>1, <2>1, <2>2, <2>3 DEF Reached
<1>3. \A n \in 1 .. L : OneMore(c.bytes, cols, n, Reached(c, n - 1)) = Reached(c, n)
  BY OneColumn
<1> HIDE DEF cols, start, L
<1>4. IsReading(W, c.bytes, cols, start)
  <2>1. ASSUME NEW n \in 0 .. L
        PROVE  W[n] = IF n = 0 THEN Parsing(start, <<>>)
                      ELSE OneMore(c.bytes, cols, n, W[n - 1])
    <3>1. CASE n = 0 BY <1>1, <1>2, <3>1
    <3>2. CASE n # 0
      <4>1. n \in 1 .. L /\ n - 1 \in 0 .. L BY <1>1, <3>2
      <4>2. W[n] = Reached(c, n) /\ W[n - 1] = Reached(c, n - 1) BY <4>1
      <4> QED BY <1>3, <3>2, <4>1, <4>2
    <3> QED BY <3>1, <3>2
  <2>2. W = [n \in 0 .. L |-> W[n]] OBVIOUS
  <2> HIDE DEF W
  <2> QED BY <2>1, <2>2 DEF IsReading, L
<1>5. PICK g : g = (CHOOSE f : IsReading(f, c.bytes, cols, start)) OBVIOUS
<1>6. IsReading(g, c.bytes, cols, start) BY <1>4, <1>5
<1>7. 0 .. L \subseteq {n \in 0 .. L : g[n] = Reached(c, n)}
  <2> DEFINE T == {n \in 0 .. L : g[n] = Reached(c, n)}
  <2>1. 0 \in T BY <1>1, <1>2, <1>6 DEF IsReading, L
  <2>2. ASSUME NEW k \in 1 .. L, k - 1 \in T PROVE k \in T
    <3>1. k \in 0 .. L /\ k # 0 BY <1>1
    <3>2. g[k] = OneMore(c.bytes, cols, k, g[k - 1]) BY <1>6, <3>1 DEF IsReading, L
    <3>3. g[k] = Reached(c, k) BY <3>2, <2>2, <1>3
    <3> QED BY <3>1, <3>3
  <2> HIDE DEF T
  <2>3. 0 .. L \subseteq T BY ONLY <2>1, <2>2, <1>1, SegmentInduction
  <2> QED BY <2>3 DEF T
<1>8. g[L] = Reached(c, L) BY <1>1, <1>7
<1> QED BY <1>5, <1>8 DEF cols, start, L

\* The columns in storage order are the columns of the table.
LEMMA StorageOrderIs ==
  ASSUME NEW T, NEW columns \in Seq(T)
  PROVE  /\ StorageOrder(columns) \in Seq(T)
         /\ Range(StorageOrder(columns)) = ToSet(columns)
<1> DEFINE F == FixedOnes(columns)
           a == Kept(columns, F)
           b == Kept(columns, ToSet(columns) \ F)
<1>1. ToSet(columns) = Range(columns) BY ToSetIsRange
<1>2. F \subseteq Range(columns) BY <1>1 DEF FixedOnes
<1>3. a \in Seq(T) /\ Range(a) = Range(columns) \cap F BY KeptFacts
<1>4. b \in Seq(T) /\ Range(b) = Range(columns) \cap (ToSet(columns) \ F) BY KeptFacts
<1>5. StorageOrder(columns) = a \o b BY DEF StorageOrder
<1> HIDE DEF a, b, F
<1>6. a \o b \in Seq(T) /\ Range(a \o b) = Range(a) \cup Range(b)
  BY <1>3, <1>4, RangeConcatenation
<1>7. Range(a) \cup Range(b) = Range(columns) BY <1>1, <1>2, <1>3, <1>4
<1> QED BY <1>1, <1>5, <1>6, <1>7

\* Each column has one value in what was meant.
Distinct(c) ==
  /\ \A v, w \in c.stored : v[1] = w[1] => v = w
  /\ \A v, w \in c.away : v[1] = w[1] => v = w
  /\ \A v \in c.stored, w \in c.away : v[1] # w[1]
  /\ \A w \in c.stored \cup c.away : w = <<w[1], w[2]>>

LEMMA MeantOnce ==
  ASSUME NEW c, Distinct(c), NEW m \in MeantOf(c), NEW v, <<m[1], v>> \in MeantOf(c)
  PROVE  m = <<m[1], v>>
<1> DEFINE out == {<<a[1], <<lobs[a[2]], a[2]>>>> : a \in c.away}
<1>1. \A p \in out : \E a \in c.away : p = <<a[1], <<lobs[a[2]], a[2]>>>> /\ p[1] = a[1] OBVIOUS
<1>2. MeantOf(c) = c.stored \cup out BY DEF MeantOf
<1>3. PICK n : n = <<m[1], v>> OBVIOUS
<1>4. n \in MeantOf(c) /\ n[1] = m[1] BY <1>3
<1> HIDE DEF out
<1>5. CASE m \in c.stored /\ n \in c.stored BY <1>3, <1>4, <1>5 DEF Distinct
<1>6. CASE m \in out /\ n \in out
  <2>1. PICK a \in c.away : m = <<a[1], <<lobs[a[2]], a[2]>>>> /\ m[1] = a[1] BY <1>1, <1>6
  <2>2. PICK b \in c.away : n = <<b[1], <<lobs[b[2]], b[2]>>>> /\ n[1] = b[1] BY <1>1, <1>6
  <2>3. a = b BY <1>4, <2>1, <2>2 DEF Distinct
  <2> QED BY <1>3, <2>1, <2>2, <2>3
<1>7. CASE m \in c.stored /\ n \in out BY <1>1, <1>4, <1>7 DEF Distinct
<1>8. CASE m \in out /\ n \in c.stored BY <1>1, <1>4, <1>8 DEF Distinct
<1> QED BY <1>2, <1>4, <1>5, <1>6, <1>7, <1>8

\* What reading such a row must give
Exact(c, p) ==
  IF c.unknown THEN ~p.ok /\ p.refused ELSE p.ok /\ ToSet(p.values) = MeantOf(c)

\* A row with all its columns is read exactly by its states.
LEMMA StatesExact ==
  ASSUME NEW c, Readable(c), Laid(c), Distinct(c), c.columns \in Seq(ColumnOf),
         c.unknown \in BOOLEAN,
         c.unknown => \E n \in DOMAIN StorageOrder(c.columns) : StateOf(c, n) = 2,
         Len(c.bytes) - c.places[Len(c.places)] \in 0 .. 64,
         {m[1] : m \in MeantOf(c)} = {x.id : x \in ToSet(c.columns)}
  PROVE  Exact(c, WithMetadata(c.bytes, c.columns))
<1> DEFINE cols == StorageOrder(c.columns)
           L == Len(cols)
           start == 2 + MetaLength(L)
           p == Reached(c, L)
           values == [k \in 1 .. L |-> PairOf(c, k)]
<1>1. cols \in Seq(ColumnOf) /\ L \in Nat /\ DOMAIN cols = 1 .. L BY DEF Laid
<1>2. Len(c.places) = L + 1 /\ c.places[1] = start BY DEF Laid
<1>3. \A n \in 1 .. L : ReadAsWritten(c, cols[n], StateOf(c, n), c.places[n], c.places[n + 1])
  <2>1. SUFFICES ASSUME NEW n \in 1 .. L
        PROVE ReadAsWritten(c, cols[n], StateOf(c, n), c.places[n], c.places[n + 1])
    OBVIOUS
  <2>2. n \in DOMAIN c.places /\ n + 1 \in DOMAIN c.places
    <3>1. c.places \in Seq(0 .. Len(c.bytes)) BY DEF Laid
    <3> QED BY <1>1, <1>2, <3>1
  <2>3. c.places[n] \in Nat /\ c.places[n + 1] \in Nat
    <3>1. PICK R : R = 0 .. Len(c.bytes) OBVIOUS
    <3>2. c.places \in Seq(R) BY <3>1 DEF Laid
    <3>3. c.places[n] \in R /\ c.places[n + 1] \in R BY <2>2, <3>2
    <3> QED BY <3>1, <3>3
  <2>4. ColumnWritten(c, cols[n], StateOf(c, n), c.places[n], c.places[n + 1])
        /\ c.bytes \in Seq(Octets)
    BY <1>1 DEF Laid, StateOf
  <2> QED BY <2>3, <2>4, ColumnRead
<1>4. WithMetadata(c.bytes, c.columns) = Ending(c.bytes, p, 0 .. 64)
  <2>1. ~(Len(c.bytes) < start)
    <3>1. PICK R : R = 0 .. Len(c.bytes) OBVIOUS
    <3>2. c.places \in Seq(R) BY <3>1 DEF Laid
    <3>3. c.places[1] \in R BY <1>1, <1>2, <3>2
    <3>4. Len(c.bytes) \in Nat BY DEF Laid
    <3>5. c.places[1] <= Len(c.bytes) /\ c.places[1] \in Nat BY <3>1, <3>3, <3>4
    <3>6. PICK s : s = start OBVIOUS
    <3>7. s \in Nat /\ s <= Len(c.bytes) BY <1>2, <3>5, <3>6
    <3>8. ~(Len(c.bytes) < s) BY <3>4, <3>7
    <3> QED BY <3>6, <3>8
  <2>2. (CHOOSE f : IsReading(f, c.bytes, cols, start))[L] = p BY ReadingReaches
  <2> HIDE DEF p
  <2> QED BY <2>1, <2>2, ReadingIs
<1> HIDE DEF cols, L, start
<1>5. CASE \E k \in 1 .. L : StateOf(c, k) = 2
  <2>1. c.unknown BY <1>3, <1>5 DEF ReadAsWritten
  <2>2. p = Refusal BY <1>5 DEF Reached
  <2>3. Ending(c.bytes, p, 0 .. 64) = Refusal BY <2>2 DEF Ending, Refusal
  <2> QED BY <1>4, <2>1, <2>3 DEF Exact, Refusal
<1>6. CASE ~\E k \in 1 .. L : StateOf(c, k) = 2
  <2>1. ~c.unknown BY <1>1, <1>6 DEF cols
  <2>2. p = Parsing(c.places[L + 1], values) BY <1>6 DEF Reached
  <2>3. Ending(c.bytes, p, 0 .. 64) = p BY <1>2, <2>2 DEF Ending, Parsing
  <2>4. \A k \in 1 .. L : PairOf(c, k) \in MeantOf(c) /\ PairOf(c, k)[1] = cols[k].id
    <3>1. SUFFICES ASSUME NEW k \in 1 .. L
          PROVE PairOf(c, k) \in MeantOf(c) /\ PairOf(c, k)[1] = cols[k].id
      OBVIOUS
    <3>2. PICK u : /\ StateValue(cols[k], c.bytes, c.places[k], StateOf(c, k))
                        = Value(u, c.places[k + 1])
                   /\ <<cols[k].id, u>> \in MeantOf(c)
      BY <1>3, <1>6 DEF ReadAsWritten
    <3>3. PairOf(c, k) = <<cols[k].id, u>> BY <3>2 DEF PairOf, ValueOf, Value, cols
    <3> QED BY <3>2, <3>3
  <2>5. ToSet(values) = MeantOf(c)
    <3>1. \A m \in MeantOf(c) : \E k \in 1 .. L : m = PairOf(c, k)
      <4>1. SUFFICES ASSUME NEW m \in MeantOf(c) PROVE \E k \in 1 .. L : m = PairOf(c, k)
        OBVIOUS
      <4>2. PICK x \in ToSet(c.columns) : m[1] = x.id OBVIOUS
      <4>3. x \in Range(cols) BY <4>2, StorageOrderIs DEF cols
      <4>4. PICK k \in 1 .. L : x = cols[k] BY <1>1, <4>3 DEF Range
      <4>5. PairOf(c, k) = <<m[1], ValueOf(c, k).value>>
        BY <4>2, <4>4 DEF PairOf, cols
      <4>6. m = <<m[1], ValueOf(c, k).value>>
        BY <2>4, <4>5, MeantOnce
      <4> QED BY <4>5, <4>6
    <3>2. ToSet(values) = {PairOf(c, k) : k \in 1 .. L} BY DEF ToSet
    <3> QED BY <2>4, <3>1, <3>2
  <2> HIDE DEF values, p
  <2>6. p.ok /\ p.values = values BY <2>2 DEF Parsing
  <2>7. WithMetadata(c.bytes, c.columns) = p BY <1>4, <2>3
  <2> QED BY <2>1, <2>5, <2>6, <2>7 DEF Exact
<1> QED BY <1>5, <1>6

\* Until it is settled a row of the present columns is read by its states.
RowHeld ==
  /\ rowCase \in RowCases /\ lobs \in LobStores
  /\ Whole /\ ~Lost =>
       \/ rowPhase = "states" /\ trying = rowCase.columns /\ parsed = <<>>
       \/ rowPhase = "done" /\ PresentRowsExact

\* The assumption on rows says what the lemmas need.
LEMMA WholeRows ==
  ASSUME RowHeld, Whole, ~Lost
  PROVE  Exact(rowCase, WithMetadata(rowCase.bytes, rowCase.columns))
<1> DEFINE c == rowCase
           written == c.stored \cup c.away
<1>1. c \in RowCases /\ lobs \in LobStores BY DEF RowHeld
<1>2. IsRowCase(c) BY <1>1, RowAssumption
<1>3. MeantOf(c) = Meant BY DEF MeantOf, Meant
<1>4. {m[1] : m \in Meant} = {x.id : x \in ToSet(c.columns)} BY DEF Whole, MeantIds
<1>5. {w[1] : w \in written} = {m[1] : m \in Meant}
  <2> DEFINE out == {<<a[1], <<lobs[a[2]], a[2]>>>> : a \in c.away}
  <2>1. \A a \in c.away : \E m \in out : m[1] = a[1]
    <3>1. SUFFICES ASSUME NEW a \in c.away PROVE \E m \in out : m[1] = a[1] OBVIOUS
    <3>2. <<a[1], <<lobs[a[2]], a[2]>>>> \in out OBVIOUS
    <3>3. <<a[1], <<lobs[a[2]], a[2]>>>>[1] = a[1] OBVIOUS
    <3> QED BY ONLY <3>2, <3>3
  <2>2. \A m \in out : \E a \in c.away : m[1] = a[1] OBVIOUS
  <2>3. Meant = c.stored \cup out BY DEF Meant
  <2> HIDE DEF out
  <2> QED BY <2>1, <2>2, <2>3
<1>6. PICK ids : ids = {w[1] : w \in written} OBVIOUS
<1>7. {w[1] : w \in written} = {x.id : x \in ToSet(c.columns)} BY <1>4, <1>5
<1>8. /\ Laid(c) /\ Distinct(c) /\ c.unknown \in BOOLEAN /\ c.columns \in Seq(ColumnOf)
      /\ c.unknown => \E n \in DOMAIN StorageOrder(c.columns) : StateOf(c, n) = 2
      /\ Len(c.bytes) - c.places[Len(c.places)] \in 0 .. 64
  <2>1. c.columns \in Seq(ColumnOf) BY <1>2 DEF IsRowCase, ColumnOf, ColumnType
  <2>2. StorageOrder(c.columns) \in Seq(ColumnOf) BY <2>1, StorageOrderIs
  <2>3. /\ c.places \in Seq(0 .. Len(c.bytes)) /\ Len(c.places) = Len(StorageOrder(c.columns)) + 1
        /\ c.places[1] = 2 + MetaLength(Len(StorageOrder(c.columns)))
        /\ \A n \in DOMAIN StorageOrder(c.columns) :
             ColumnWritten(c, StorageOrder(c.columns)[n], State(c.bytes, n),
                           c.places[n], c.places[n + 1])
        /\ Len(c.bytes) - Last(c.places) \in 0 .. 64
    BY <1>2, <1>7 DEF IsRowCase
  <2>4. /\ c.unknown => \E n \in DOMAIN StorageOrder(c.columns) : State(c.bytes, n) = 2
        /\ Distinct(c)
    BY <1>2, <1>7 DEF IsRowCase, Distinct
  <2>5. c.bytes \in Seq(Octets) /\ c.unknown \in BOOLEAN BY <1>2 DEF IsRowCase, Octets
  <2>6. Laid(c) BY <2>2, <2>3, <2>5 DEF Laid
  <2>7. Last(c.places) = c.places[Len(c.places)] BY DEF Last
  <2> QED BY <2>1, <2>3, <2>4, <2>5, <2>6, <2>7 DEF StateOf
<1>9. Readable(c)
  <2>1. \A a \in c.away : a[2] \in DOMAIN lobs BY <1>1, <1>2 DEF IsRowCase
  <2> QED BY <2>1 DEF Readable, Lost
<1>10. {m[1] : m \in MeantOf(c)} = {x.id : x \in ToSet(c.columns)} BY <1>3, <1>4
<1> HIDE DEF c
<1>11. Exact(c, WithMetadata(c.bytes, c.columns)) BY <1>8, <1>9, <1>10, StatesExact
<1> QED BY <1>11 DEF c

\* At first nothing has been read.
LEMMA RowHeldInit == RowInit => RowHeld
BY DEF RowInit, RowHeld

\* Reading by the states settles such a row, and no other way is tried.
LEMMA RowHeldStep == RowHeld /\ [RowNext]_rowVars => RowHeld'
<1> SUFFICES ASSUME RowHeld, [RowNext]_rowVars PROVE RowHeld' OBVIOUS
<1>1. rowCase' = rowCase /\ lobs' = lobs
  BY DEF RowNext, ByStates, ByOffsets, FewerColumns, Settle, rowVars
<1>2. (Whole' <=> Whole) /\ (Lost' <=> Lost) /\ Meant' = Meant
  BY <1>1 DEF Whole, Lost, MeantIds, Meant
<1>3. rowCase' \in RowCases /\ lobs' \in LobStores BY <1>1 DEF RowHeld
<1>4. SUFFICES ASSUME Whole, ~Lost
      PROVE \/ rowPhase' = "states" /\ trying' = rowCase' .columns /\ parsed' = <<>>
            \/ rowPhase' = "done" /\ PresentRowsExact'
  BY <1>2, <1>3 DEF RowHeld
<1>5. \/ rowPhase = "states" /\ trying = rowCase.columns /\ parsed = <<>>
      \/ rowPhase = "done" /\ PresentRowsExact
  BY <1>4 DEF RowHeld
<1>6. CASE ByStates
  <2> DEFINE p == WithMetadata(rowCase.bytes, rowCase.columns)
  <2>1. rowPhase = "states" /\ trying = rowCase.columns BY <1>5, <1>6 DEF ByStates
  <2>2. Settle(p, "offsets") BY <1>6, <2>1 DEF ByStates
  <2>3. Exact(rowCase, p) BY <1>4, WholeRows
  <2> HIDE DEF p
  <2>4. p.ok \/ (p.refused /\ trying = rowCase.columns) BY <2>1, <2>3 DEF Exact
  <2>5. parsed' = <<p>> /\ rowPhase' = "done" BY <2>2, <2>4 DEF Settle
  <2>6. parsed'[1] = p BY <2>5
  <2>7. IF rowCase.unknown THEN ~p.ok ELSE p.ok /\ ToSet(p.values) = Meant
    BY <2>3 DEF Exact, MeantOf, Meant
  <2>8. PresentRowsExact' BY <1>1, <1>2, <2>6, <2>7 DEF PresentRowsExact
  <2> QED BY <2>5, <2>8
<1>7. CASE ByOffsets BY <1>5, <1>7 DEF ByOffsets
<1>8. CASE FewerColumns BY <1>5, <1>8 DEF FewerColumns
<1>9. CASE UNCHANGED rowVars
  <2>1. /\ rowPhase' = rowPhase /\ trying' = trying /\ parsed' = parsed BY <1>9 DEF rowVars
  <2>2. PresentRowsExact' <=> PresentRowsExact BY <1>1, <1>2, <2>1 DEF PresentRowsExact
  <2> QED BY <1>1, <1>5, <2>1, <2>2
<1> QED BY <1>6, <1>7, <1>8, <1>9 DEF RowNext

\* For every row whose columns were written one after another, whatever its bytes
\* look like: the values exported are those stored, in the row or out of line, and
\* a row with a state nobody knows is refused.
THEOREM PresentRowsAreExact == RowSpec => []PresentRowsExact
<1>1. RowHeld /\ [RowNext]_rowVars => RowHeld' BY RowHeldStep
<1>2. RowHeld => PresentRowsExact BY DEF RowHeld, PresentRowsExact
<1> QED BY <1>1, <1>2, RowHeldInit, PTL DEF RowSpec

-----------------------------------------------------------------------------

(* Values out of line (LobChain) *)

PayloadBytes == 0 .. 255
At == lobWorld.at
Cut == lobWorld.cut
Content == lobWorld.content
Got == delivered \o chunk

\* How far the value has been read: up to page i as it was stored; or less than
\* that, when a damaged page is behind; or as far as it goes.
OnTrack(i) ==
  /\ chainAt = At[i] /\ passed = {At[j] : j \in 1 .. i - 1}
  /\ Got = SubSeq(Content, 1, Cut[i])
Behind(i) ==
  /\ chainAt = At[i] /\ ~lobWorld.sound
  /\ \A j \in i .. Len(At) : AsWritten(lobWorld, j)
  /\ Len(Got) < Cut[i]
AtEnd ==
  /\ (\A n \in DOMAIN At : chainAt # At[n]) \/ chainAt \in passed
  /\ Got = Content \/ (~lobWorld.sound /\ Len(Got) < LobLength)

ReadingInv ==
  /\ At # <<>>
  /\ delivered \in Seq(PayloadBytes) /\ chunk \in Seq(PayloadBytes)
  /\ unread = LobLength - Len(delivered) /\ Len(chunk) <= unread
  /\ room \in -1 .. ReadSize /\ owed \in BOOLEAN
  /\ owed => ~lobWorld.sound
  /\ AtEnd \/ \E i \in DOMAIN At : OnTrack(i) \/ Behind(i)

LobInv ==
  /\ lobWorld \in LobWorlds
  /\ lobPhase \in {"start", "open", "done", "error"}
  /\ lobPhase = "start" =>
       /\ chunk = <<>> /\ passed = {} /\ room = -1 /\ owed = FALSE /\ delivered = <<>>
  /\ lobPhase = "open" => ReadingInv
  /\ lobPhase = "done" => delivered = Content
  /\ lobPhase = "error" => ~lobWorld.sound

\* What the assumption says of the world of a behaviour
LEMMA StoredIs ==
  ASSUME lobWorld \in LobWorlds
  PROVE  /\ IsFiniteSet(DOMAIN lobWorld.page) /\ NoPage \notin DOMAIN lobWorld.page
         /\ Content \in Seq(PayloadBytes) /\ LobLength \in Nat
         /\ At \in Seq(DOMAIN lobWorld.page) /\ DOMAIN At = 1 .. Len(At) /\ Len(At) \in Nat
         /\ \A n \in DOMAIN At : At[n] \in DOMAIN lobWorld.page
         /\ \A n, m \in DOMAIN At : At[n] = At[m] => n = m
         /\ \A r \in DOMAIN lobWorld.page :
              /\ LobPage(r).payload \in Seq(PayloadBytes)
              /\ LobPage(r).lob = lobWorld.lob => \E n \in DOMAIN At : At[n] = r
         /\ At # <<>> => Cut[1] = 0 /\ Cut[Len(At) + 1] = LobLength
         /\ \A n \in DOMAIN At :
              /\ Cut[n] \in Nat /\ Cut[n + 1] \in Nat /\ Cut[n] < Cut[n + 1]
              /\ ~AsWritten(lobWorld, n) =>
                   /\ \A m \in DOMAIN At \ {n} : AsWritten(lobWorld, m)
                   /\ \/ LobPage(At[n]).payload = SubSeq(Content, Cut[n] + 1, Cut[n + 1])
                      \/ Len(LobPage(At[n]).payload)
                           < Len(SubSeq(Content, Cut[n] + 1, Cut[n + 1]))
         /\ lobWorld.sound => \A n \in DOMAIN At : AsWritten(lobWorld, n)
         /\ ReadSize \in Nat \ {0} /\ WalkFactor \in Nat \ {0}
<1>1. IsStored(lobWorld) /\ ReadSize \in Nat \ {0} /\ WalkFactor \in Nat \ {0}
  BY LobAssumption
<1>2. /\ IsFiniteSet(DOMAIN lobWorld.page) /\ NoPage \notin DOMAIN lobWorld.page
      /\ Content \in Seq(PayloadBytes) /\ At \in Seq(DOMAIN lobWorld.page)
      /\ \A n, m \in DOMAIN At : At[n] = At[m] => n = m
      /\ \A r \in DOMAIN lobWorld.page :
           /\ LobPage(r).payload \in Seq(PayloadBytes)
           /\ LobPage(r).lob = lobWorld.lob => \E n \in DOMAIN At : At[n] = r
      /\ At # <<>> => Cut[1] = 0 /\ Cut[Len(At) + 1] = LobLength
      /\ Cut \in Seq(Nat) /\ Len(Cut) = Len(At) + 1
      /\ \A n \in DOMAIN At : Cut[n] < Cut[n + 1]
      /\ lobWorld.sound => \A n \in DOMAIN At : AsWritten(lobWorld, n)
  BY <1>1, Zenon DEF IsStored, At, Cut, Content, PayloadBytes, LobPage, LobLength
<1>3. \A n \in DOMAIN At : ~AsWritten(lobWorld, n) =>
         /\ \A m \in DOMAIN At \ {n} : AsWritten(lobWorld, m)
         /\ \/ LobPage(At[n]).payload = SubSeq(Content, Cut[n] + 1, Cut[n + 1])
            \/ Len(LobPage(At[n]).payload) < Len(SubSeq(Content, Cut[n] + 1, Cut[n + 1]))
  BY <1>1, Zenon DEF IsStored, At, Cut, Content, LobPage
<1>4. DOMAIN At = 1 .. Len(At) /\ Len(At) \in Nat /\ LobLength \in Nat
  BY <1>2 DEF LobLength, Content
<1>5. \A n \in DOMAIN At : At[n] \in DOMAIN lobWorld.page BY <1>2, <1>4, ElementOfSeq
<1>6. \A n \in DOMAIN At : Cut[n] \in Nat /\ Cut[n + 1] \in Nat
  <2> SUFFICES ASSUME NEW n \in DOMAIN At PROVE Cut[n] \in Nat /\ Cut[n + 1] \in Nat OBVIOUS
  <2>1. n \in 1 .. Len(Cut) /\ n + 1 \in 1 .. Len(Cut) BY <1>2, <1>4
  <2> QED BY <1>2, <2>1, ElementOfSeq
<1> QED BY <1>1, <1>2, <1>3, <1>4, <1>5, <1>6

\* The cuts go up to the length of the value.
LEMMA CutsGrow ==
  ASSUME lobWorld \in LobWorlds, At # <<>>,
         NEW i \in 1 .. Len(At) + 1, NEW j \in 1 .. Len(At) + 1, i <= j
  PROVE  Cut[i] <= Cut[j] /\ Cut[i] \in Nat /\ Cut[j] <= LobLength
<1>1. /\ Len(At) \in Nat /\ Cut[Len(At) + 1] = LobLength /\ LobLength \in Nat
      /\ \A n \in 1 .. Len(At) : Cut[n] \in Nat /\ Cut[n + 1] \in Nat /\ Cut[n] < Cut[n + 1]
  BY StoredIs
<1>2. \A n \in 1 .. Len(At) + 1 : Cut[n] \in Nat
  <2> SUFFICES ASSUME NEW n \in 1 .. Len(At) + 1 PROVE Cut[n] \in Nat OBVIOUS
  <2>1. n \in 1 .. Len(At) \/ n = Len(At) + 1 BY <1>1
  <2> QED BY <1>1, <2>1
<1>3. ASSUME NEW a \in 1 .. Len(At) + 1, NEW b \in 1 .. Len(At) + 1, a <= b
      PROVE  Cut[a] <= Cut[b]
  <2> DEFINE Up == {d \in Nat : a + d <= Len(At) + 1 => Cut[a] <= Cut[a + d]}
  <2>1. 0 \in Up BY <1>2
  <2>2. ASSUME NEW d \in 1 .. Len(At) + 1, d - 1 \in Up PROVE d \in Up
    <3>1. CASE a + d <= Len(At) + 1
      <4>1. a + (d - 1) \in 1 .. Len(At) /\ a + (d - 1) + 1 = a + d BY <1>1, <3>1
      <4>2. Cut[a + (d - 1)] < Cut[a + d] /\ Cut[a + (d - 1)] \in Nat /\ Cut[a + d] \in Nat
        BY <1>1, <4>1
      <4>3. Cut[a] <= Cut[a + (d - 1)] /\ Cut[a] \in Nat BY <1>1, <1>2, <2>2, <3>1
      <4> QED BY <4>2, <4>3
    <3>2. CASE ~(a + d <= Len(At) + 1) BY <1>1, <3>2
    <3> QED BY <3>1, <3>2
  <2> HIDE DEF Up
  <2>3. Len(At) + 1 \in Nat BY <1>1
  <2>4. 0 .. Len(At) + 1 \subseteq Up BY <2>1, <2>2, <2>3, SegmentInduction
  <2>5. b - a \in 0 .. Len(At) + 1 /\ a + (b - a) = b /\ b <= Len(At) + 1 BY <1>1, <1>3
  <2> QED BY <2>4, <2>5 DEF Up
<1>4. Cut[j] <= Cut[Len(At) + 1]
  <2>1. Len(At) + 1 \in 1 .. Len(At) + 1 /\ j <= Len(At) + 1 BY <1>1
  <2> QED BY <1>3, <2>1
<1> QED BY <1>1, <1>2, <1>3, <1>4

\* Reading a page that is as it was written adds its part.
LEMMA PartAdded ==
  ASSUME lobWorld \in LobWorlds, At # <<>>, NEW i \in DOMAIN At
  PROVE  LET part == SubSeq(Content, Cut[i] + 1, Cut[i + 1])
         IN /\ part \in Seq(PayloadBytes) /\ Len(part) = Cut[i + 1] - Cut[i]
            /\ SubSeq(Content, 1, Cut[i]) \o part = SubSeq(Content, 1, Cut[i + 1])
            /\ Len(SubSeq(Content, 1, Cut[i])) = Cut[i]
            /\ Cut[i] \in Nat /\ Cut[i + 1] \in Nat /\ Cut[i] < Cut[i + 1]
            /\ Cut[i + 1] <= LobLength /\ LobLength \in Nat
            /\ SubSeq(Content, 1, LobLength) = Content
<1>1. Content \in Seq(PayloadBytes) /\ Len(Content) = LobLength BY StoredIs DEF LobLength, Content
<1>2. /\ Cut[i] \in Nat /\ Cut[i + 1] \in Nat /\ Cut[i] < Cut[i + 1]
      /\ Cut[i + 1] <= LobLength /\ LobLength \in Nat
  <2>1. i \in 1 .. Len(At) + 1 /\ i + 1 \in 1 .. Len(At) + 1 /\ i + 1 <= i + 1
    BY StoredIs
  <2> QED BY <2>1, StoredIs, CutsGrow
<1> DEFINE c == Content
           a == Cut[i]
           b == Cut[i + 1]
<1>3. c \in Seq(PayloadBytes) /\ a \in Nat /\ b \in Nat /\ a <= b /\ b <= Len(c) BY <1>1, <1>2
<1> HIDE DEF a, b, c
<1>4. /\ SubSeq(c, 1, a) \in Seq(PayloadBytes) /\ Len(SubSeq(c, 1, a)) = a
      /\ SubSeq(c, a + 1, b) \in Seq(PayloadBytes) /\ Len(SubSeq(c, a + 1, b)) = b - a
      /\ SubSeq(c, 1, a) \o SubSeq(c, a + 1, b) = SubSeq(c, 1, b)
      /\ SubSeq(c, 1, Len(c)) = c
  BY <1>3, PartsJoined
<1> QED BY <1>1, <1>2, <1>4 DEF a, b, c

\* Opening the chain of a value
LEMMA OpenKeeps ==
  ASSUME LobInv, OpenChain
  PROVE  LobInv'
<1>1. /\ lobPhase = "start" /\ lobPhase' = "open" /\ chainAt' \in FirstPages
      /\ unread' = LobLength /\ lobWorld' = lobWorld /\ chunk' = chunk /\ passed' = passed
      /\ room' = room /\ owed' = owed /\ delivered' = delivered
  BY DEF OpenChain
<1>2. /\ chunk = <<>> /\ passed = {} /\ room = -1 /\ owed = FALSE /\ delivered = <<>>
      /\ lobWorld \in LobWorlds
  BY <1>1 DEF LobInv
<1>3. At # <<>> /\ chainAt' = At[1] /\ 1 \in DOMAIN At
  <2>1. PICK r \in {<<f, lobWorld.first>> : f \in lobWorld.files} : chainAt' = r /\ IsPageOfLob(r)
    BY <1>1 DEF FirstPages
  <2>2. r \in DOMAIN lobWorld.page /\ LobPage(r).lob = lobWorld.lob
    BY <2>1 DEF IsPageOfLob, IsLobPage
  <2>3. r = At[1]
    <3>1. IsStored(lobWorld) BY <1>2, LobAssumption
    <3> QED BY <2>1, <2>2, <3>1 DEF IsStored, At, LobPage
  <2>4. \E n \in DOMAIN At : At[n] = r BY <1>2, <2>2, StoredIs
  <2>5. DOMAIN At = 1 .. Len(At) /\ Len(At) \in Nat BY <1>2, StoredIs
  <2> QED BY <2>1, <2>3, <2>4, <2>5
<1>4. Cut[1] = 0 /\ Content \in Seq(PayloadBytes) /\ LobLength \in Nat BY <1>2, <1>3, StoredIs
<1>5. SubSeq(Content, 1, Cut[1]) = <<>> BY <1>4
<1>6. <<>> \o <<>> = <<>> OBVIOUS
<1>7. OnTrack(1)'
  <2>1. {At[j] : j \in 1 .. 1 - 1} = {} OBVIOUS
  <2> QED BY <1>1, <1>2, <1>3, <1>5, <1>6, <2>1 DEF OnTrack, Got, At, Cut, Content
<1>8. ReadingInv'
  <2>1. <<>> \in Seq(PayloadBytes) /\ Len(<<>>) = 0 OBVIOUS
  <2>2. LobLength' = LobLength /\ At' = At /\ LobLength \in Nat
    BY <1>1, <1>4 DEF LobLength, At
  <2>3. unread' = LobLength' - Len(delivered') /\ Len(chunk') <= unread'
    BY <1>1, <1>2, <2>1, <2>2
  <2>4. room' \in -1 .. ReadSize BY <1>1, <1>2, StoredIs
  <2>5. \E i \in DOMAIN At' : OnTrack(i)' BY <1>3, <1>7, <2>2
  <2> QED BY <1>1, <1>2, <1>3, <2>1, <2>2, <2>3, <2>4, <2>5 DEF ReadingInv
<1> QED BY <1>1, <1>2, <1>8 DEF LobInv

\* A value that is a record of a long-row page
LEMMA LongRowKeeps ==
  ASSUME LobInv, ReadLongRow
  PROVE  LobInv'
<1>1. lobPhase = "start" /\ lobWorld' = lobWorld /\ lobWorld \in LobWorlds /\ FirstPages = {}
  BY DEF ReadLongRow, LobInv
<1>2. IsStored(lobWorld) BY <1>1, LobAssumption
<1> DEFINE places == {<<f, lobWorld.first>> : f \in lobWorld.files} \cap DOMAIN lobWorld.page
<1>3. /\ \A r \in places : LobPage(r).record \in {<<>>, Content}
      /\ lobWorld.sound =>
           /\ \A n \in DOMAIN At : AsWritten(lobWorld, n)
           /\ IF At # <<>> THEN At[1] \in places
              ELSE \E r \in places : LobPage(r).read /\ LobPage(r).mine
                     /\ LobPage(r).kind = "long" /\ LobPage(r).record = Content
                     /\ Content # <<>>
  BY <1>2, Zenon DEF IsStored, At, Content, LobPage
<1>4. CASE LongRowPlaces = {}
  <2>1. lobPhase' = "error" BY <1>4 DEF ReadLongRow
  <2>2. ASSUME lobWorld.sound PROVE FALSE
    <3>1. CASE At # <<>>
      <4>1. At[1] \in places /\ 1 \in DOMAIN At /\ AsWritten(lobWorld, 1)
        <5>1. 1 \in DOMAIN At BY <1>1, <3>1, StoredIs
        <5> QED BY <1>3, <2>2, <3>1, <5>1
      <4>2. IsPageOfLob(At[1]) BY <4>1 DEF IsPageOfLob, IsLobPage, AsWritten, At, LobPage
      <4> QED BY <1>1, <4>1, <4>2 DEF FirstPages
    <3>2. CASE At = <<>>
      <4>1. PICK r \in places : LobPage(r).read /\ LobPage(r).mine
                     /\ LobPage(r).kind = "long" /\ LobPage(r).record = Content
                     /\ Content # <<>>
        BY <1>3, <2>2, <3>2
      <4>2. Len(LobPage(r).record) <= LobLength
        <5>1. LobLength \in Nat /\ LobLength = Len(Content)
          BY <1>1, StoredIs DEF LobLength, Content
        <5> QED BY <4>1, <5>1
      <4>3. r \in LongRowPlaces BY <4>1, <4>2 DEF LongRowPlaces, IsLobPage
      <4> QED BY <1>4, <4>3
    <3> QED BY <3>1, <3>2
  <2> QED BY <1>1, <2>1, <2>2 DEF LobInv
<1>5. CASE LongRowPlaces # {}
  <2>1. lobPhase' = "done" /\ \E r \in LongRowPlaces : delivered' = LobPage(r).record
    BY <1>5 DEF ReadLongRow
  <2>2. delivered' = Content
    <3>1. PICK r \in LongRowPlaces : delivered' = LobPage(r).record BY <2>1
    <3>2. r \in places /\ LobPage(r).record # <<>> BY DEF LongRowPlaces, IsLobPage
    <3> QED BY <1>3, <3>1, <3>2
  <2>3. Content' = Content BY <1>1 DEF Content
  <2> QED BY <1>1, <2>1, <2>2, <2>3 DEF LobInv
<1> QED BY <1>4, <1>5

\* Less of the page is copied than is there, than the buffer takes and than the
\* value has left.
LEMMA CopyKeeps ==
  ASSUME LobInv, CopyPayload
  PROVE  LobInv'
<1> DEFINE n == CHOOSE k \in {Len(chunk), room, unread} :
                  \A j \in {Len(chunk), room, unread} : k <= j
<1>1. /\ lobPhase = "open" /\ room > 0 /\ unread > 0 /\ chunk # <<>>
      /\ lobPhase' = "open" /\ lobWorld' = lobWorld /\ chainAt' = chainAt
      /\ passed' = passed /\ owed' = owed
      /\ delivered' = delivered \o SubSeq(chunk, 1, n)
      /\ chunk' = SubSeq(chunk, n + 1, Len(chunk))
      /\ room' = room - n /\ unread' = unread - n
  BY DEF CopyPayload, InCall
<1>2. ReadingInv /\ lobWorld \in LobWorlds BY <1>1 DEF LobInv
<1>3. /\ delivered \in Seq(PayloadBytes) /\ chunk \in Seq(PayloadBytes) /\ LobLength \in Nat
      /\ unread = LobLength - Len(delivered) /\ Len(chunk) <= unread
      /\ room \in -1 .. ReadSize /\ ReadSize \in Nat /\ Len(chunk) \in Nat /\ unread \in Int
      /\ Len(delivered) \in Nat
  BY <1>2, StoredIs DEF ReadingInv
<1>4. n \in 0 .. Len(chunk) /\ n <= room
  <2> DEFINE S == {Len(chunk), room, unread}
  <2>1. \E k \in S : \A j \in S : k <= j
    <3>1. Len(chunk) \in Int /\ room \in Int BY <1>3
    <3>2. CASE Len(chunk) <= room BY <1>3, <3>1, <3>2
    <3>3. CASE ~(Len(chunk) <= room) BY <1>3, <3>1, <3>3
    <3> QED BY <3>2, <3>3
  <2>2. n \in S /\ \A j \in S : n <= j BY <2>1, Zenon
  <2> HIDE DEF n
  <2> QED BY <1>1, <1>3, <2>2
<1> HIDE DEF n
<1>5. /\ delivered' \in Seq(PayloadBytes) /\ chunk' \in Seq(PayloadBytes)
      /\ Len(delivered') = Len(delivered) + n /\ Len(chunk') = Len(chunk) - n
      /\ Got' = Got
  <2> DEFINE x == SubSeq(chunk, 1, n)
             y == SubSeq(chunk, n + 1, Len(chunk))
  <2>1. /\ x \in Seq(PayloadBytes) /\ y \in Seq(PayloadBytes) /\ Len(x) = n /\ Len(y) = Len(chunk) - n
        /\ x \o y = chunk
    <3> DEFINE l == Len(chunk)
    <3>1. n \in Nat /\ l \in Nat /\ n <= l /\ l <= Len(chunk) BY <1>3, <1>4
    <3> HIDE DEF l
    <3>2. /\ SubSeq(chunk, 1, n) \in Seq(PayloadBytes) /\ Len(SubSeq(chunk, 1, n)) = n
          /\ SubSeq(chunk, n + 1, l) \in Seq(PayloadBytes) /\ Len(SubSeq(chunk, n + 1, l)) = l - n
          /\ SubSeq(chunk, 1, n) \o SubSeq(chunk, n + 1, l) = SubSeq(chunk, 1, l)
          /\ SubSeq(chunk, 1, Len(chunk)) = chunk
      BY <1>3, <3>1, PartsJoined
    <3> QED BY <3>2 DEF l
  <2>2. delivered' = delivered \o x /\ chunk' = y BY <1>1
  <2> HIDE DEF x, y
  <2>3. (delivered \o x) \o y = delivered \o (x \o y)
    <3>1. delivered \in Seq(PayloadBytes) /\ x \in Seq(PayloadBytes) /\ y \in Seq(PayloadBytes) BY <1>3, <2>1
    <3> QED BY <3>1, ConcatAssociative
  <2>4. Got' = Got BY <2>1, <2>2, <2>3 DEF Got
  <2>5. delivered \o x \in Seq(PayloadBytes) /\ Len(delivered \o x) = Len(delivered) + n
    <3>1. delivered \in Seq(PayloadBytes) /\ x \in Seq(PayloadBytes) /\ Len(x) = n BY <1>3, <2>1
    <3> QED BY <3>1, ConcatProperties
  <2> QED BY <2>1, <2>2, <2>4, <2>5
<1>6. ReadingInv'
  <2>1. /\ LobLength' = LobLength /\ At' = At /\ Content' = Content /\ Cut' = Cut
    BY <1>1 DEF LobLength, At, Content, Cut
  <2>2. unread' = LobLength' - Len(delivered') /\ Len(chunk') <= unread'
    <3>1. unread' = unread - n /\ Len(delivered') = Len(delivered) + n
          /\ Len(chunk') = Len(chunk) - n /\ n \in Int
      BY <1>1, <1>4, <1>5
    <3> QED BY <1>3, <2>1, <3>1
  <2>3. room' \in -1 .. ReadSize BY <1>1, <1>3, <1>4
  <2>4. AtEnd' <=> AtEnd BY <1>1, <1>5, <2>1 DEF AtEnd
  <2>5. \A i \in DOMAIN At : (OnTrack(i)' <=> OnTrack(i)) /\ (Behind(i)' <=> Behind(i))
    BY <1>1, <1>5, <2>1 DEF OnTrack, Behind
  <2> QED BY <1>1, <1>2, <1>5, <2>1, <2>2, <2>3, <2>4, <2>5 DEF ReadingInv
<1> QED BY <1>1, <1>2, <1>6 DEF LobInv

\* A page that was read
LEMMA PageReadKeeps ==
  ASSUME LobInv, LoadNextPayload, chainAt \notin passed, IsPageOfLob(chainAt),
         passed' = passed \cup {chainAt},
         chunk' = IF Len(LobPage(chainAt).payload) > unread
                  THEN SubSeq(LobPage(chainAt).payload, 1, unread)
                  ELSE LobPage(chainAt).payload,
         chainAt' = LobPage(chainAt).next, UNCHANGED <<room, owed, lobPhase>>
  PROVE  ReadingInv'
<1> DEFINE page == LobPage(chainAt)
           P == page.payload
<1>1. /\ lobPhase = "open" /\ unread > 0 /\ chunk = <<>>
      /\ lobWorld' = lobWorld /\ unread' = unread /\ delivered' = delivered
      /\ ReadingInv /\ lobWorld \in LobWorlds
  BY DEF LoadNextPayload, InCall, LobInv
<1>2. /\ At # <<>> /\ DOMAIN At = 1 .. Len(At) /\ Len(At) \in Nat
      /\ delivered \in Seq(PayloadBytes) /\ Len(delivered) \in Nat /\ LobLength \in Nat
      /\ unread = LobLength - Len(delivered) /\ unread \in Nat
  BY <1>1, StoredIs DEF ReadingInv
<1>3. Got = delivered
  BY <1>1, <1>2, ConcatEmptySeq DEF Got
<1>4. chainAt \in DOMAIN lobWorld.page /\ page.lob = lobWorld.lob /\ P \in Seq(PayloadBytes)
  <2>1. chainAt \in DOMAIN lobWorld.page /\ page.lob = lobWorld.lob
    BY DEF IsPageOfLob, IsLobPage
  <2> QED BY <1>1, <2>1, StoredIs
<1>5. PICK i \in DOMAIN At : OnTrack(i) \/ Behind(i)
  <2>1. ~AtEnd
    <3>1. \E n \in DOMAIN At : At[n] = chainAt BY <1>1, <1>4, StoredIs
    <3> QED BY <3>1 DEF AtEnd
  <2> QED BY <1>1, <2>1 DEF ReadingInv
<1>6. chainAt = At[i] BY <1>5 DEF OnTrack, Behind
<1> DEFINE part == SubSeq(Content, Cut[i] + 1, Cut[i + 1])
<1>7. /\ part \in Seq(PayloadBytes) /\ Len(part) = Cut[i + 1] - Cut[i]
      /\ SubSeq(Content, 1, Cut[i]) \o part = SubSeq(Content, 1, Cut[i + 1])
      /\ Len(SubSeq(Content, 1, Cut[i])) = Cut[i]
      /\ Cut[i] \in Nat /\ Cut[i + 1] \in Nat /\ Cut[i] < Cut[i + 1]
      /\ Cut[i + 1] <= LobLength /\ LobLength \in Nat
      /\ SubSeq(Content, 1, LobLength) = Content
  BY <1>1, <1>2, PartAdded
<1>8. Len(Got) <= Cut[i]
  <2>1. CASE OnTrack(i) BY <1>7, <2>1 DEF OnTrack
  <2>2. CASE Behind(i)
    <3>1. Len(Got) \in Nat /\ Len(Got) < Cut[i] BY <1>2, <1>3, <2>2 DEF Behind
    <3> QED BY <1>7, <3>1
  <2> QED BY <1>5, <2>1, <2>2
<1>9. P = part \/ (Len(P) < Len(part) /\ ~AsWritten(lobWorld, i))
  <2>1. CASE AsWritten(lobWorld, i)
    <3>1. P = part BY <1>6, <2>1 DEF AsWritten, LobPage, At, Cut, Content
    <3> QED BY <3>1
  <2>2. CASE ~AsWritten(lobWorld, i) BY <1>1, <1>6, <2>2, StoredIs
  <2> QED BY <2>1, <2>2
<1> HIDE DEF part, P
<1>10. Len(P) \in Nat /\ Len(P) <= Cut[i + 1] - Cut[i] /\ Len(P) <= unread
  <2>1. Len(P) \in Nat BY <1>4
  <2>2. Len(P) <= Cut[i + 1] - Cut[i] BY <1>7, <1>9, <2>1
  <2> QED BY <1>2, <1>3, <1>7, <1>8, <2>1, <2>2
<1>11. chunk' = P
  <2>1. ~(Len(P) > unread) BY <1>2, <1>10
  <2> QED BY <2>1 DEF P
<1>12. Got' = Got \o P /\ Len(Got') = Len(Got) + Len(P) /\ Len(Got) \in Nat
  <2>1. Got' = Got \o P BY <1>1, <1>3, <1>11 DEF Got
  <2>2. Len(Got \o P) = Len(Got) + Len(P) BY <1>2, <1>3, <1>4, ConcatProperties
  <2> QED BY <1>2, <1>3, <2>1, <2>2
<1>13. /\ LobLength' = LobLength /\ At' = At /\ Content' = Content /\ Cut' = Cut
       /\ lobWorld'.sound = lobWorld.sound
       /\ \A n : AsWritten(lobWorld', n) <=> AsWritten(lobWorld, n)
  BY <1>1 DEF LobLength, At, Content, Cut
<1>14. chainAt' = page.next /\ passed' = passed \cup {chainAt} OBVIOUS
\* The track goes on as far as page i was as it was written.
<1>15. P = part /\ OnTrack(i) => Got' = SubSeq(Content, 1, Cut[i + 1])
  BY <1>7, <1>12 DEF OnTrack
<1>16. AsWritten(lobWorld, i) =>
         IF i < Len(At) THEN chainAt' = At[i + 1]
         ELSE \A m \in DOMAIN At : chainAt' # At[m]
  BY <1>6 DEF AsWritten, LobPage, At
<1>18. OnTrack(i) => passed' = {At[j] : j \in 1 .. (i + 1) - 1}
  <2> SUFFICES ASSUME OnTrack(i) PROVE passed' = {At[j] : j \in 1 .. (i + 1) - 1} OBVIOUS
  <2>1. passed = {At[j] : j \in 1 .. i - 1} BY DEF OnTrack
  <2>2. \A j : j \in 1 .. (i + 1) - 1 <=> j \in 1 .. i - 1 \/ j = i BY <1>2
  <2> QED BY <1>6, <1>14, <2>1, <2>2
<1>17. AtEnd' \/ \E j \in DOMAIN At : OnTrack(j)' \/ Behind(j)'
  <2>1. CASE AsWritten(lobWorld, i) /\ i < Len(At)
    <3>1. i + 1 \in DOMAIN At /\ chainAt' = At[i + 1] BY <1>2, <1>16, <2>1
    <3>2. CASE OnTrack(i)
      <4>1. P = part BY <1>4, <1>7, <1>9, <2>1
      <4>2. passed' = {At[j] : j \in 1 .. (i + 1) - 1} BY <1>18, <3>2
      <4>3. OnTrack(i + 1)' BY <1>13, <1>15, <3>1, <3>2, <4>1, <4>2 DEF OnTrack
      <4> QED BY <3>1, <4>3
    <3>3. CASE Behind(i)
      <4>1. Len(Got') < Cut[i + 1] BY <1>7, <1>10, <1>12, <3>3 DEF Behind
      <4>2. \A j \in i + 1 .. Len(At) : AsWritten(lobWorld, j)
        <5>1. \A j \in i + 1 .. Len(At) : j \in i .. Len(At) BY <1>2
        <5> QED BY <3>3, <5>1 DEF Behind
      <4>3. Behind(i + 1)' BY <1>13, <3>1, <3>3, <4>1, <4>2 DEF Behind
      <4> QED BY <3>1, <4>3
    <3> QED BY <1>5, <3>2, <3>3
  <2>2. CASE AsWritten(lobWorld, i) /\ ~(i < Len(At))
    <3>1. i = Len(At) /\ Cut[i + 1] = LobLength BY <1>1, <1>2, <2>2, StoredIs
    <3>2. \A m \in DOMAIN At : chainAt' # At[m] BY <1>16, <2>2
    <3>3. CASE OnTrack(i)
      <4>1. P = part BY <1>4, <1>7, <1>9, <2>2
      <4>2. Got' = Content BY <1>7, <1>15, <3>1, <3>3, <4>1
      <4> QED BY <1>13, <3>2, <4>2 DEF AtEnd
    <3>4. CASE Behind(i)
      <4>1. Len(Got') < LobLength BY <1>7, <1>10, <1>12, <3>1, <3>4 DEF Behind
      <4>2. ~lobWorld.sound BY <3>4 DEF Behind
      <4> QED BY <1>13, <3>2, <4>1, <4>2 DEF AtEnd
    <3> QED BY <1>5, <3>3, <3>4
  <2>3. CASE ~AsWritten(lobWorld, i)
    <3>1. OnTrack(i)
      <4>1. i \in i .. Len(At) BY <1>2
      <4>2. ~Behind(i) BY <2>3, <4>1 DEF Behind
      <4> QED BY <1>5, <4>2
    <3>2. ~lobWorld.sound BY <1>1, <2>3, StoredIs
    <3>3. \A m \in DOMAIN At \ {i} : AsWritten(lobWorld, m) BY <1>1, <2>3, StoredIs
    <3>4. Len(Got) = Cut[i] BY <1>7, <3>1 DEF OnTrack
    <3>5. CASE (\A n \in DOMAIN At : chainAt' # At[n]) \/ chainAt' \in passed'
      <4>1. CASE Len(Got') < LobLength BY <1>13, <3>2, <3>5, <4>1 DEF AtEnd
      <4>2. CASE ~(Len(Got') < LobLength)
        <5>1. Len(P) = Len(part) /\ Cut[i + 1] = LobLength
          BY <1>7, <1>10, <1>12, <3>4, <4>2
        <5>2. P = part BY <1>7, <1>9, <5>1
        <5>3. Got' = Content BY <1>7, <1>15, <3>1, <5>1, <5>2
        <5> QED BY <1>13, <3>5, <5>3 DEF AtEnd
      <4> QED BY <4>1, <4>2
    <3>6. ASSUME NEW j \in DOMAIN At, chainAt' = At[j], chainAt' \notin passed'
          PROVE  OnTrack(j)' \/ Behind(j)' \/ AtEnd'
      <4>1. j # i BY <1>6, <1>14, <3>6
      <4>2. CASE j < i
        <5>1. j \in 1 .. i - 1 BY <1>2, <4>2
        <5>2. At[j] \in passed BY <3>1, <5>1 DEF OnTrack
        <5> QED BY <1>14, <3>6, <5>2
      <4>3. CASE j = i + 1 /\ P = part
        <5>1. passed' = {At[l] : l \in 1 .. j - 1} BY <1>18, <3>1, <4>3
        <5> QED BY <1>13, <1>15, <3>1, <3>6, <4>3, <5>1 DEF OnTrack
      <4>4. CASE j > i /\ ~(j = i + 1 /\ P = part)
        <5>1. \A l \in j .. Len(At) : AsWritten(lobWorld, l)
          <6>1. \A l \in j .. Len(At) : l \in DOMAIN At \ {i} BY <1>2, <4>4
          <6> QED BY <3>3, <6>1
        <5>2. Len(Got') < Cut[j]
          <6>1. Cut[i + 1] <= Cut[j] /\ (j # i + 1 => Cut[i + 1] < Cut[j])
            <7>1. i + 1 \in 1 .. Len(At) + 1 /\ j \in 1 .. Len(At) + 1 /\ i + 1 <= j
              BY <1>2, <4>4
            <7>2. Cut[i + 1] <= Cut[j] BY <1>1, <1>2, <7>1, CutsGrow
            <7>3. ASSUME j # i + 1 PROVE Cut[i + 1] < Cut[j]
              <8>1. i + 2 \in 1 .. Len(At) + 1 /\ i + 2 <= j /\ i + 1 \in DOMAIN At
                    /\ i + 2 = (i + 1) + 1
                BY <1>2, <4>4, <7>3
              <8>2. Cut[i + 2] <= Cut[j] /\ Cut[i + 2] \in Nat
                BY <1>1, <1>2, <7>1, <8>1, CutsGrow
              <8>3. Cut[i + 1] < Cut[i + 2] BY <1>1, <8>1, StoredIs
              <8>4. Cut[j] \in Nat BY <1>1, StoredIs
              <8> QED BY <1>7, <8>2, <8>3, <8>4
            <7> QED BY <7>2, <7>3
          <6>2. Cut[j] \in Nat BY <1>1, StoredIs
          <6>3. j = i + 1 => Len(P) < Cut[i + 1] - Cut[i] BY <1>7, <1>9, <4>4
          <6>4. Len(Got') = Cut[i] + Len(P) BY <1>12, <3>4
          <6>5. CASE j = i + 1 BY <1>7, <1>10, <6>3, <6>4, <6>5
          <6>6. CASE j # i + 1
            <7>1. Len(Got') <= Cut[i + 1] BY <1>7, <1>10, <6>4
            <7>2. Len(Got') \in Int BY <1>7, <1>10, <6>4
            <7> QED BY <1>7, <6>1, <6>2, <6>6, <7>1, <7>2
          <6> QED BY <6>5, <6>6
        <5> QED BY <1>13, <3>2, <3>6, <5>1, <5>2 DEF Behind
      <4>5. j < i \/ j > i BY <1>2, <4>1
      <4> QED BY <4>2, <4>3, <4>4, <4>5
    <3> QED BY <3>5, <3>6
  <2> QED BY <2>1, <2>2, <2>3
<1>19. /\ room' = room /\ owed' = owed
       /\ room \in -1 .. ReadSize /\ owed \in BOOLEAN
       /\ owed => ~lobWorld.sound
  BY <1>1 DEF ReadingInv
<1> QED
  BY <1>1, <1>2, <1>4, <1>10, <1>11, <1>13, <1>17, <1>19 DEF ReadingInv, P

\* A page that cannot be read, or was read before, or one too many
LEMMA FailKeeps ==
  ASSUME LobInv, LoadNextPayload, FailRead, passed' \in {passed, passed \cup {chainAt}},
         ~lobWorld.sound
  PROVE  LobInv'
<1>1. /\ lobPhase = "open" /\ unread > 0 /\ chunk = <<>> /\ room > 0
      /\ lobWorld' = lobWorld /\ unread' = unread /\ delivered' = delivered
      /\ ReadingInv /\ lobWorld \in LobWorlds /\ owed \in BOOLEAN
  BY DEF LoadNextPayload, InCall, LobInv, ReadingInv
<1>2. /\ chainAt' = chainAt /\ chunk' = chunk /\ room' = -1 /\ owed' \in BOOLEAN
      /\ lobPhase' \in {"open", "error"}
  BY <1>1 DEF FailRead
<1>3. /\ LobLength' = LobLength /\ At' = At /\ Content' = Content /\ Cut' = Cut
      /\ Got' = Got /\ lobWorld'.sound = lobWorld.sound
      /\ \A n : AsWritten(lobWorld', n) <=> AsWritten(lobWorld, n)
  BY <1>1, <1>2 DEF LobLength, At, Content, Cut, Got
<1>4. AtEnd' \/ \E j \in DOMAIN At : OnTrack(j)' \/ Behind(j)'
  <2>1. CASE AtEnd
    <3>1. passed \subseteq passed' OBVIOUS
    <3> QED BY <1>2, <1>3, <2>1, <3>1 DEF AtEnd
  <2>2. ASSUME NEW i \in DOMAIN At, Behind(i) PROVE Behind(i)'
    BY <1>2, <1>3, <2>2 DEF Behind
  <2>3. ASSUME NEW i \in DOMAIN At, OnTrack(i) PROVE OnTrack(i)' \/ AtEnd'
    <3>1. CASE passed' = passed BY <1>2, <1>3, <2>3, <3>1 DEF OnTrack
    <3>2. CASE passed' = passed \cup {chainAt}
      <4>1. Len(Got) = Cut[i] /\ Cut[i] < LobLength
        <5>1. At # <<>> BY <1>1 DEF ReadingInv
        <5>2. /\ Len(SubSeq(Content, 1, Cut[i])) = Cut[i]
              /\ Cut[i] \in Nat /\ Cut[i + 1] \in Nat /\ Cut[i] < Cut[i + 1]
              /\ Cut[i + 1] <= LobLength /\ LobLength \in Nat
          BY <1>1, <5>1, PartAdded
        <5> QED BY <2>3, <5>2 DEF OnTrack
      <4> QED BY <1>2, <1>3, <3>2, <4>1 DEF AtEnd
    <3> QED BY <3>1, <3>2
  <2> QED BY <1>1, <2>1, <2>2, <2>3 DEF ReadingInv
<1>5. ReadingInv'
  <2>1. room' \in -1 .. ReadSize BY <1>1, <1>2, StoredIs
  <2> QED BY <1>1, <1>2, <1>3, <1>4, <2>1 DEF ReadingInv
<1> QED BY <1>1, <1>2, <1>5 DEF LobInv

\* A sound value has its next page in place.
LEMMA SoundReads ==
  ASSUME LobInv, lobPhase = "open", InCall, chunk = <<>>, lobWorld.sound
  PROVE  /\ chainAt # NoPage /\ chainAt \notin passed /\ IsPageOfLob(chainAt)
         /\ ~(Cardinality(passed) >= WalkFactor * Cardinality(DOMAIN lobWorld.page))
         /\ LobPage(chainAt).payload # <<>>
<1>1. /\ ReadingInv /\ lobWorld \in LobWorlds /\ unread > 0 /\ At # <<>>
      /\ delivered \in Seq(PayloadBytes) /\ unread = LobLength - Len(delivered)
  BY DEF LobInv, InCall, ReadingInv
<1>2. Got = delivered BY <1>1, ConcatEmptySeq DEF Got
<1>3. LobLength = Len(Content) /\ LobLength \in Nat BY <1>1, StoredIs DEF LobLength, Content
<1>4. Got # Content BY <1>1, <1>2, <1>3
<1>5. PICK i \in DOMAIN At : OnTrack(i)
  <2>1. ~AtEnd BY <1>4 DEF AtEnd
  <2>2. \A i \in DOMAIN At : ~Behind(i) BY DEF Behind
  <2> QED BY <1>1, <2>1, <2>2 DEF ReadingInv
<1>6. /\ chainAt = At[i] /\ passed = {At[j] : j \in 1 .. i - 1} BY <1>5 DEF OnTrack
<1>7. /\ chainAt \in DOMAIN lobWorld.page /\ AsWritten(lobWorld, i)
      /\ DOMAIN At = 1 .. Len(At) /\ Len(At) \in Nat /\ NoPage \notin DOMAIN lobWorld.page
      /\ \A n, m \in DOMAIN At : At[n] = At[m] => n = m
      /\ IsFiniteSet(DOMAIN lobWorld.page) /\ WalkFactor \in Nat \ {0}
  BY <1>1, <1>6, StoredIs
<1>8. chainAt \notin passed
  <2> SUFFICES ASSUME NEW j \in 1 .. i - 1, At[j] = At[i] PROVE FALSE BY <1>6
  <2>1. j \in DOMAIN At /\ j # i BY <1>7
  <2> QED BY <1>7, <2>1
<1>9. IsPageOfLob(chainAt) /\ LobPage(chainAt).payload = SubSeq(Content, Cut[i] + 1, Cut[i + 1])
  BY <1>6, <1>7 DEF IsPageOfLob, IsLobPage, AsWritten, At, Cut, Content, LobPage
<1>10. LobPage(chainAt).payload # <<>>
  <2>1. /\ Len(SubSeq(Content, Cut[i] + 1, Cut[i + 1])) = Cut[i + 1] - Cut[i]
        /\ Cut[i] \in Nat /\ Cut[i + 1] \in Nat /\ Cut[i] < Cut[i + 1]
    BY <1>1, PartAdded
  <2> DEFINE part == SubSeq(Content, Cut[i] + 1, Cut[i + 1])
  <2>2. Len(part) # 0 BY <2>1
  <2> HIDE DEF part
  <2>3. part # <<>> BY <2>2
  <2> QED BY <1>9, <2>3 DEF part
<1>11. ~(Cardinality(passed) >= WalkFactor * Cardinality(DOMAIN lobWorld.page))
  <2> DEFINE D == DOMAIN lobWorld.page
             p == Cardinality(passed)
             d == Cardinality(D)
  <2>1. IsFiniteSet(D \ {chainAt}) /\ Cardinality(D \ {chainAt}) = d - 1
    BY <1>7, FS_RemoveElement
  <2>2. passed \subseteq D \ {chainAt}
    <3>1. \A j \in 1 .. i - 1 : j \in DOMAIN At BY <1>7
    <3>2. \A j \in DOMAIN At : At[j] \in D BY <1>1, StoredIs
    <3> QED BY <1>6, <1>8, <3>1, <3>2
  <2>3. IsFiniteSet(passed) /\ Cardinality(passed) <= Cardinality(D \ {chainAt})
    BY <2>1, <2>2, FS_Subset
  <2>4. p \in Nat /\ d \in Nat BY <1>7, <2>3, FS_CardinalityType
  <2>5. p < d BY <2>1, <2>3, <2>4
  <2> HIDE DEF p, d
  <2>6. d <= WalkFactor * d
    <3>1. \A x \in Nat : \A y \in Nat \ {0} : x <= y * x BY SMT
    <3> QED BY <1>7, <2>4, <3>1
  <2>7. WalkFactor * d \in Nat BY <1>7, <2>4
  <2>8. ~(p >= WalkFactor * d) BY <2>4, <2>5, <2>6, <2>7
  <2> QED BY <2>8 DEF p, d
<1> QED BY <1>7, <1>8, <1>9, <1>10, <1>11

\* The next page of the chain is loaded, or is not there.
LEMMA LoadKeeps ==
  ASSUME LobInv, LoadNextPayload
  PROVE  LobInv'
<1> DEFINE stops == \/ chainAt = NoPage
                    \/ Cardinality(passed) >= WalkFactor * Cardinality(DOMAIN lobWorld.page)
                    \/ chainAt \in passed
           page == LobPage(chainAt)
           bad == ~IsPageOfLob(chainAt) \/ (page.payload = <<>> /\ page.next = NoPage)
<1>1. /\ lobPhase = "open" /\ InCall /\ chunk = <<>> /\ lobWorld' = lobWorld
      /\ ReadingInv /\ lobWorld \in LobWorlds
  BY DEF LoadNextPayload, InCall, LobInv
<1>2. CASE stops
  <2>1. FailRead /\ passed' = passed BY <1>2, Zenon DEF LoadNextPayload
  <2>2. ~lobWorld.sound BY <1>1, <1>2, SoundReads
  <2> QED BY <2>1, <2>2, FailKeeps
<1>3. CASE ~stops /\ bad
  <2>1. FailRead /\ passed' = passed \cup {chainAt} BY <1>3, Zenon DEF LoadNextPayload
  <2>2. ~lobWorld.sound BY <1>1, <1>3, SoundReads
  <2> QED BY <2>1, <2>2, FailKeeps
<1>4. CASE ~stops /\ ~bad
  <2>1. /\ passed' = passed \cup {chainAt}
        /\ chunk' = IF Len(page.payload) > unread THEN SubSeq(page.payload, 1, unread)
                    ELSE page.payload
        /\ chainAt' = page.next /\ UNCHANGED <<room, owed, lobPhase>>
    BY <1>4, Zenon DEF LoadNextPayload
  <2>2. ReadingInv' BY <1>4, <2>1, PageReadKeeps
  <2> QED BY <1>1, <2>1, <2>2 DEF LobInv
<1> QED BY <1>2, <1>3, <1>4

\* Between two calls what was read stays as it is.
LEMMA CallKeeps ==
  ASSUME LobInv, CallRead \/ ReturnFromRead
  PROVE  LobInv'
<1>1. /\ lobPhase = "open" /\ lobWorld' = lobWorld /\ chainAt' = chainAt /\ unread' = unread
      /\ chunk' = chunk /\ passed' = passed /\ owed' = owed /\ delivered' = delivered
      /\ room' \in {-1, room, ReadSize} /\ lobPhase' \in {"open", "done", "error"}
      /\ lobPhase' = "done" => unread = 0
      /\ lobPhase' = "error" => owed
  BY DEF CallRead, ReturnFromRead
<1>2. ReadingInv /\ lobWorld \in LobWorlds BY <1>1 DEF LobInv
<1>3. /\ LobLength' = LobLength /\ At' = At /\ Content' = Content /\ Cut' = Cut
      /\ Got' = Got
  BY <1>1 DEF LobLength, At, Content, Cut, Got
<1>4. ReadingInv'
  <2>1. room' \in -1 .. ReadSize
    <3>1. room \in -1 .. ReadSize /\ ReadSize \in Nat BY <1>2, StoredIs DEF ReadingInv
    <3> QED BY <1>1, <3>1
  <2>2. AtEnd' <=> AtEnd BY <1>1, <1>3 DEF AtEnd
  <2>3. \A i \in DOMAIN At : (OnTrack(i)' <=> OnTrack(i)) /\ (Behind(i)' <=> Behind(i))
    BY <1>1, <1>3 DEF OnTrack, Behind
  <2> QED BY <1>1, <1>2, <1>3, <2>1, <2>2, <2>3 DEF ReadingInv
<1>5. lobPhase' = "error" => ~lobWorld.sound BY <1>1, <1>2 DEF ReadingInv
\* A value read to its end was read along the track.
<1>6. ASSUME unread = 0 PROVE delivered = Content
  <2>1. /\ delivered \in Seq(PayloadBytes) /\ chunk \in Seq(PayloadBytes) /\ LobLength \in Nat
        /\ LobLength = Len(delivered) /\ Len(chunk) <= 0
    BY <1>2, <1>6, StoredIs DEF ReadingInv
  <2>2. chunk = <<>> BY <2>1
  <2>3. Got = delivered /\ Len(Got) = LobLength BY <2>1, <2>2, ConcatEmptySeq DEF Got
  <2>4. ASSUME NEW i \in DOMAIN At, OnTrack(i) \/ Behind(i) PROVE FALSE
    <3>1. At # <<>> BY <1>2 DEF ReadingInv
    <3>2. /\ Len(SubSeq(Content, 1, Cut[i])) = Cut[i]
          /\ Cut[i] \in Nat /\ Cut[i + 1] \in Nat /\ Cut[i] < Cut[i + 1]
          /\ Cut[i + 1] <= LobLength
      BY <1>2, <3>1, PartAdded
    <3>3. CASE OnTrack(i)
      <4>1. Len(Got) = Cut[i] BY <3>2, <3>3 DEF OnTrack
      <4> QED BY <2>1, <2>3, <3>2, <4>1
    <3>4. CASE Behind(i)
      <4>1. Len(Got) < Cut[i] BY <3>4 DEF Behind
      <4> QED BY <2>1, <2>3, <3>2, <4>1
    <3> QED BY <2>4, <3>3, <3>4
  <2>5. AtEnd BY <1>2, <2>4 DEF ReadingInv
  <2>6. ~(Len(Got) < LobLength) BY <2>1, <2>3
  <2> QED BY <2>3, <2>5, <2>6 DEF AtEnd
<1> QED BY <1>1, <1>2, <1>3, <1>4, <1>5, <1>6 DEF LobInv

LEMMA LobStarts == LobInit => LobInv
<1> SUFFICES ASSUME LobInit PROVE LobInv OBVIOUS
<1> QED BY DEF LobInit, LobInv

LEMMA LobStays == LobInv /\ [LobNext]_lobVars => LobInv'
<1> SUFFICES ASSUME LobInv, [LobNext]_lobVars PROVE LobInv' OBVIOUS
<1>1. CASE UNCHANGED lobVars
  <2>1. /\ lobWorld' = lobWorld /\ chainAt' = chainAt /\ unread' = unread
        /\ chunk' = chunk /\ passed' = passed /\ room' = room /\ owed' = owed
        /\ delivered' = delivered /\ lobPhase' = lobPhase
    BY <1>1 DEF lobVars
  <2> QED BY <2>1 DEF LobInv, ReadingInv, AtEnd, OnTrack, Behind, LobLength, At, Content,
                      Cut, Got
<1>2. CASE LobNext
  BY <1>2, OpenKeeps, LongRowKeeps, CallKeeps, LoadKeeps, CopyKeeps DEF LobNext
<1> QED BY <1>1, <1>2

\* Whatever files a value out of line is kept in, on however many pages and cut
\* by the calls as it may be: it is delivered as it was stored or not at all,
\* wherever one page of it is damaged, and a sound one is always delivered
\* (dmLOBChainReader.Read, loadNextPayload, findFirstLOBPage).
THEOREM ValuesAreWhole == LobSpec => []LobWhole
<1>1. LobInit => LobInv BY LobStarts
<1>2. LobInv /\ [LobNext]_lobVars => LobInv' BY LobStays
<1>3. LobInv => LobWhole BY DEF LobInv, LobWhole, Content
<1> QED BY <1>1, <1>2, <1>3, PTL DEF LobSpec

\* The page to load next, and those loaded
LEMMA ChainStays ==
  ASSUME LobTypeOK, [LobNext]_lobVars
  PROVE  chainAt' \in LobRefs \cup {NoPage} /\ passed' \subseteq LobRefs
<1>1. CASE OpenChain
  <2>1. chainAt' \in FirstPages /\ passed' = passed BY <1>1 DEF OpenChain
  <2>2. FirstPages \subseteq LobRefs BY DEF FirstPages, IsPageOfLob, IsLobPage, LobRefs
  <2> QED BY <2>1, <2>2 DEF LobTypeOK
<1>2. CASE LoadNextPayload
  <2>1. passed' \subseteq LobRefs
    BY <1>2 DEF LoadNextPayload, LobTypeOK
  <2>2. chainAt' = chainAt \/ (IsPageOfLob(chainAt) /\ chainAt' = LobPage(chainAt).next)
    BY <1>2 DEF LoadNextPayload, FailRead
  <2>3. IsPageOfLob(chainAt) => LobPage(chainAt).next \in LobRefs
    BY DEF IsPageOfLob, IsLobPage, LobRefs
  <2> QED BY <2>1, <2>2, <2>3 DEF LobTypeOK
<1>3. CASE ~OpenChain /\ ~LoadNextPayload
  <2>1. chainAt' = chainAt /\ passed' = passed
    BY <1>3 DEF LobNext, lobVars, ReadLongRow, CallRead, CopyPayload, ReturnFromRead
  <2> QED BY <2>1 DEF LobTypeOK
<1> QED BY <1>1, <1>2, <1>3

\* The chain stays on pages of the world or on pages these lead to, and what is
\* left to read and the room in a call stay within their bounds.
THEOREM ChainTypeCorrect == LobSpec => []LobTypeOK
<1>1. LobInit => LobTypeOK
  <2> SUFFICES ASSUME LobInit PROVE LobTypeOK OBVIOUS
  <2>1. lobWorld \in LobWorlds BY DEF LobInit
  <2>2. LobLength \in Nat /\ ReadSize \in Nat BY <2>1, StoredIs, LobAssumption
  <2>3. 0 \in 0 .. LobLength /\ -1 \in -1 .. ReadSize BY <2>2
  <2> QED BY <2>3 DEF LobInit, LobTypeOK
<1>2. LobInv /\ LobTypeOK /\ LobInv' /\ [LobNext]_lobVars => LobTypeOK'
  <2> SUFFICES ASSUME LobInv, LobTypeOK, LobInv', [LobNext]_lobVars PROVE LobTypeOK' OBVIOUS
  <2>1. lobWorld' = lobWorld
    BY DEF LobNext, lobVars, OpenChain, ReadLongRow, CallRead, LoadNextPayload, CopyPayload,
           ReturnFromRead
  <2>2. /\ LobRefs' = LobRefs /\ LobLength' = LobLength
        /\ lobPhase' \in {"start", "open", "done", "error"}
    BY <2>1 DEF LobRefs, LobPage, LobLength, LobInv
  <2>3. CASE lobPhase' = "open"
    <3>1. /\ unread' = LobLength' - Len(delivered') /\ Len(chunk') <= unread'
          /\ room' \in -1 .. ReadSize /\ owed' \in BOOLEAN
          /\ delivered' \in Seq(PayloadBytes) /\ chunk' \in Seq(PayloadBytes)
      BY <2>3 DEF LobInv, ReadingInv
    <3>2. Len(delivered') \in Nat /\ Len(chunk') \in Nat /\ LobLength \in Nat
      BY <3>1, StoredIs DEF LobInv
    <3>3. unread' \in 0 .. LobLength BY <2>2, <3>1, <3>2
    <3> QED BY <2>2, <3>1, <3>3, ChainStays DEF LobTypeOK
  <2>4. CASE lobPhase' # "open"
    <3>1. unread' = unread /\ room' \in {room, -1} /\ owed' = owed
      BY <2>4 DEF LobNext, lobVars, OpenChain, ReadLongRow, CallRead, LoadNextPayload, FailRead,
                  CopyPayload, ReturnFromRead, InCall
    <3>2. room' \in -1 .. ReadSize BY <3>1, LobAssumption DEF LobTypeOK
    <3> QED BY <2>2, <3>1, <3>2, ChainStays DEF LobTypeOK
  <2> QED BY <2>3, <2>4
<1>3. LobInit => LobInv BY LobStarts
<1>4. LobInv /\ [LobNext]_lobVars => LobInv' BY LobStays
<1> QED BY <1>1, <1>2, <1>3, <1>4, PTL DEF LobSpec

-----------------------------------------------------------------------------

(* The export of a HUGE table (HugeTable) *)

\* Numbers in order
LEMMA InOrderIs ==
  ASSUME NEW S \in SUBSET Nat, IsFiniteSet(S)
  PROVE  LET s == InOrder(S) IN
         /\ s \in Seq(S) /\ DOMAIN s = 1 .. Cardinality(S) /\ Cardinality(S) \in Nat
         /\ Len(s) = Cardinality(S)
         /\ \A x \in S : \E k \in DOMAIN s : s[k] = x
         /\ \A j, k \in DOMAIN s : j < k => s[j] < s[k]
<1> DEFINE R == {ss \in S \X S : ss[1] < ss[2]}
           s == Sorted(S, R)
<1> HIDE DEF s
<1>1. \A x \in S : <<x, x>> \notin R OBVIOUS
<1>2. \A x, y, z \in S : <<x, y>> \in R /\ <<y, z>> \in R => <<x, z>> \in R OBVIOUS
<1>3. \A x, y \in S : x # y => <<x, y>> \in R \/ <<y, x>> \in R OBVIOUS
<1>5. \A x, y : <<x, y>> \in R => x < y OBVIOUS
<1> HIDE DEF R
<1>6. LET t == Sorted(S, R) IN
      /\ t \in Seq(S) /\ DOMAIN t = 1 .. Cardinality(S)
      /\ \A x \in S : \E k \in DOMAIN t : t[k] = x
      /\ \A j, k \in DOMAIN t : j < k => <<t[j], t[k]>> \in R
  BY ONLY IsFiniteSet(S), <1>1, <1>2, <1>3, SortedIs
<1>7. Cardinality(S) \in Nat BY FS_CardinalityType
<1>8. InOrder(S) = s BY DEF InOrder, R, s
<1>11. /\ s \in Seq(S) /\ DOMAIN s = 1 .. Cardinality(S)
       /\ \A x \in S : \E k \in DOMAIN s : s[k] = x
       /\ \A j, k \in DOMAIN s : j < k => <<s[j], s[k]>> \in R
  BY ONLY <1>6 DEF s
<1>9. Len(s) = Cardinality(S) BY <1>7, <1>11
<1> QED BY <1>5, <1>11, <1>7, <1>8, <1>9

\* What VariableStored and FixedStored say is read back.
LEMMA FixedIsRead ==
  ASSUME NEW s, NEW a, NEW v, a.count \in Nat, FixedStored(s, a, v), a.count > 0,
         NEW n \in 1 .. a.count
  PROVE  FixedCell(s, n) = Cell(v[n])
BY DEF FixedStored, FixedCell, Cell

LEMMA VariableIsRead ==
  ASSUME NEW s, NEW a, NEW v, a.count \in Nat, VariableStored(s, a, v),
         NEW n \in 1 .. a.count
  PROVE  VariableCell(s, n) = Cell(v[n])
<1> DEFINE places == {m \in 1 .. a.count + 1 : s.offsets[m] # NullOffset}
           later == {m \in n + 1 .. Len(s.offsets) : s.offsets[m] # NullOffset}
<1>1. /\ Len(s.bytes) \in Nat /\ Len(s.offsets) = a.count + 1 /\ a.count + 1 \in places
      /\ \A k \in places : s.offsets[k] \in 0 .. Len(s.bytes)
      /\ \A k \in 1 .. a.count : k \in places <=> v[k] # NullOffset
      /\ \A k, l \in places : k < l =>
           /\ s.offsets[k] <= s.offsets[l]
           /\ (\A j \in k + 1 .. l - 1 : j \notin places) =>
                v[k] = SubSeq(s.bytes, s.offsets[k] + 1, s.offsets[l])
  BY DEF VariableStored
<1>2. CASE s.offsets[n] = NullOffset
  <2>1. v[n] = NullOffset BY <1>1, <1>2
  <2> QED BY <1>2, <2>1 DEF VariableCell
<1>3. CASE s.offsets[n] # NullOffset
  <2>1. n \in places BY <1>3
  <2>2. later \in SUBSET Nat /\ a.count + 1 \in later BY <1>1
  <2> DEFINE e == Min(later)
  <2>3. e \in later /\ \A m \in later : e <= m BY <2>2, LeastOf
  <2>4. e \in places /\ n < e /\ e \in Nat BY <1>1, <2>3
  <2>5. \A j \in n + 1 .. e - 1 : j \notin places
    <3>1. ASSUME NEW j \in n + 1 .. e - 1, j \in places PROVE FALSE
      <4>1. j \in later BY <1>1, <2>4, <3>1
      <4>2. e <= j BY <2>3, <4>1
      <4> QED BY <2>4, <4>2
    <3> QED BY <3>1
  <2> HIDE DEF e, places
  <2>6. v[n] = SubSeq(s.bytes, s.offsets[n] + 1, s.offsets[e]) /\ s.offsets[n] <= s.offsets[e]
    BY <1>1, <2>1, <2>4, <2>5
  <2>7. s.offsets[n] \in Int /\ s.offsets[e] \in Int /\ s.offsets[e] <= Len(s.bytes)
    BY <1>1, <2>1, <2>4
  <2>8. \A m \in {k \in 1 .. n - 1 : s.offsets[k] # NullOffset} : ~(s.offsets[m] > s.offsets[n])
    <3>1. ASSUME NEW m \in 1 .. n - 1, s.offsets[m] # NullOffset PROVE ~(s.offsets[m] > s.offsets[n])
      <4>1. m \in places /\ m < n BY <3>1 DEF places
      <4>2. s.offsets[m] <= s.offsets[n] /\ s.offsets[m] \in Int BY <1>1, <2>1, <4>1
      <4> QED BY <2>7, <4>2
    <3> QED BY <3>1
  <2>9. later # {} BY <2>2
  <2>10. ~(s.offsets[e] < s.offsets[n]) /\ ~(s.offsets[e] > Len(s.bytes))
    BY <1>1, <2>6, <2>7
  <2> QED BY <1>3, <2>6, <2>8, <2>9, <2>10 DEF VariableCell, e
<1> QED BY <1>2, <1>3

\* A number is in a range of the merged ones exactly when it is in one of those
\* given, and the search for the first that ends after it finds that out.
LEMMA CoveredIs ==
  ASSUME NEW rows, IsFiniteSet(DOMAIN rows),
         \A n \in DOMAIN rows : rows[n].start \in Int /\ rows[n].count \in Int,
         NEW rs, rs = {<<rows[n].start, rows[n].start + rows[n].count>> :
                         n \in {m \in DOMAIN rows : rows[m].start > 0 /\ rows[m].count > 0}}
  PROVE  /\ \A i : i \in Covered(rs) <=>
              \E n \in DOMAIN rows :
                rows[n].start > 0 /\ i \in rows[n].start .. rows[n].start + rows[n].count - 1
         /\ Covered(rs) \subseteq Nat \ {0}
         /\ \E b \in Nat : \A i \in Covered(rs) : i <= b
<1> DEFINE P(n, i) == rows[n].start > 0 /\ i \in rows[n].start .. rows[n].start + rows[n].count - 1
<1>1. ASSUME NEW i, i \in Covered(rs) PROVE \E n \in DOMAIN rows : P(n, i)
  <2>1. PICK r \in rs : i \in r[1] .. (r[2] - 1) BY <1>1 DEF Covered
  <2>2. PICK n \in DOMAIN rows :
          rows[n].start > 0 /\ r = <<rows[n].start, rows[n].start + rows[n].count>>
    OBVIOUS
  <2>3. r[1] = rows[n].start /\ r[2] = rows[n].start + rows[n].count BY <2>2
  <2> QED BY <2>1, <2>2, <2>3
<1>2. ASSUME NEW i, NEW n \in DOMAIN rows, P(n, i) PROVE i \in Covered(rs)
  <2> DEFINE r == <<rows[n].start, rows[n].start + rows[n].count>>
  <2>1. rows[n].count > 0 BY <1>2
  <2>2. r \in rs BY <1>2, <2>1
  <2>3. i \in r[1] .. (r[2] - 1) BY <1>2
  <2> QED BY <2>2, <2>3 DEF Covered
<1>3. ASSUME NEW i \in Covered(rs) PROVE i \in Nat \ {0} BY <1>1
<1>4. \E b \in Nat : \A i \in Covered(rs) : i <= b
  <2>1. CASE DOMAIN rows = {} BY <1>1, <2>1
  <2>2. CASE DOMAIN rows # {}
    <3> DEFINE D == DOMAIN rows
               e == [n \in D |-> rows[n].start + rows[n].count]
               R == {uv \in D \X D : e[uv[1]] > e[uv[2]]}
    <3>1. \A n \in D : e[n] \in Int OBVIOUS
    <3> HIDE DEF e
    <3>2. \A u, v, w \in D : <<u, v>> \in R /\ <<v, w>> \in R => <<u, w>> \in R BY <3>1
    <3>3. \A v \in D : <<v, v>> \notin R BY <3>1
    <3>4. \A u, v \in D : <<u, v>> \notin R => ~(e[u] > e[v]) OBVIOUS
    <3> HIDE DEF R
    <3>5. PICK n \in D : \A u \in D : <<u, n>> \notin R
      BY ONLY IsFiniteSet(D), <2>2, <3>2, <3>3, FirstExists
    <3> DEFINE b == IF e[n] > 0 THEN e[n] ELSE 0
    <3>6. b \in Nat /\ e[n] <= b BY <3>1
    <3>7. ASSUME NEW i \in Covered(rs) PROVE i <= b
      <4>1. PICK m \in D : P(m, i) BY <1>1
      <4>2. e[m] = rows[m].start + rows[m].count BY DEF e
      <4>3. e[m] <= e[n]
        <5>1. <<m, n>> \notin R BY <3>5
        <5>2. ~(e[m] > e[n]) /\ e[m] \in Int /\ e[n] \in Int BY <3>1, <3>4, <5>1
        <5> QED BY ONLY <5>2
      <4>4. i <= e[m] BY <4>1, <4>2
      <4>5. i \in Int /\ e[m] \in Int /\ e[n] \in Int BY <1>3, <3>1
      <4> HIDE DEF b
      <4> QED BY ONLY <4>3, <4>4, <4>5, <3>6
    <3> QED BY <3>6, <3>7
  <2> QED BY <2>1, <2>2
<1> QED BY <1>1, <1>2, <1>3, <1>4

LEMMA RangesSay ==
  ASSUME NEW rows, IsFiniteSet(DOMAIN rows),
         \A n \in DOMAIN rows : rows[n].start \in Int /\ rows[n].count \in Int,
         NEW ranges, ranges = MergedRanges(rows), NEW id \in Nat \ {0}
  PROVE  LET after == {n \in DOMAIN ranges : ranges[n][2] > id}
         IN (after # {} /\ ranges[Min(after)][1] <= id) <=>
              \E n \in DOMAIN rows :
                rows[n].start > 0 /\ id \in rows[n].start .. rows[n].start + rows[n].count - 1
<1> DEFINE rs == {<<rows[n].start, rows[n].start + rows[n].count>> :
                    n \in {m \in DOMAIN rows : rows[m].start > 0 /\ rows[m].count > 0}}
           ids == Covered(rs)
           starts == {i \in ids : i - 1 \notin ids}
           Above(i) == {j \in {k + 1 : k \in ids} : j > i /\ j \notin ids}
           EndOf(i) == Min(Above(i))
           ord == InOrder(starts)
           after == {n \in DOMAIN ranges : ranges[n][2] > id}
<1>1. /\ ids \subseteq Nat \ {0} /\ \E b \in Nat : \A i \in ids : i <= b
      /\ id \in ids <=> \E n \in DOMAIN rows :
           rows[n].start > 0 /\ id \in rows[n].start .. rows[n].start + rows[n].count - 1
  <2>1. PICK f : f = rs OBVIOUS
  <2>2. /\ \A i : i \in Covered(f) <=> \E n \in DOMAIN rows :
             rows[n].start > 0 /\ i \in rows[n].start .. rows[n].start + rows[n].count - 1
        /\ Covered(f) \subseteq Nat \ {0}
        /\ \E b \in Nat : \A i \in Covered(f) : i <= b
    BY ONLY IsFiniteSet(DOMAIN rows), <2>1, CoveredIs,
            \A n \in DOMAIN rows : rows[n].start \in Int /\ rows[n].count \in Int
  <2> HIDE DEF rs
  <2> QED BY <2>1, <2>2
<1>2. ranges = [n \in 1 .. Cardinality(starts) |-> LET i == ord[n] IN <<i, EndOf(i)>>]
  BY DEF MergedRanges
<1> HIDE DEF rs, ids
<1>3. PICK b \in Nat : \A i \in ids : i <= b BY <1>1
<1>4. starts \in SUBSET Nat /\ IsFiniteSet(starts)
  <2>1. starts \in SUBSET Nat /\ \A i \in starts : i <= b BY <1>1, <1>3
  <2> HIDE DEF starts
  <2> QED BY <2>1, FS_BoundedSetOfNaturals
\* A run ends right after its last number.
<1>5. ASSUME NEW i \in ids
      PROVE  /\ EndOf(i) \in Nat /\ EndOf(i) > i /\ EndOf(i) \notin ids
             /\ \A j \in i .. EndOf(i) - 1 : j \in ids
  <2>1. i \in Nat BY <1>1
  <2>2. Above(i) \in SUBSET Nat BY <1>1
  <2>3. Above(i) # {}
    <3>1. PICK t \in ids : \A m \in ids : m <= t
      <4>1. ids \in SUBSET Nat /\ ids # {} BY <1>1
      <4> QED BY <1>3, <4>1, GreatestNat
    <3>2. t \in Nat /\ i <= t BY <1>1, <3>1
    <3>3. t + 1 \notin ids /\ t + 1 > i
      <4>1. ASSUME t + 1 \in ids PROVE FALSE
        <5>1. t + 1 <= t BY <3>1, <4>1
        <5> QED BY <3>2, <5>1
      <4> QED BY <2>1, <3>2, <4>1
    <3>4. t + 1 \in Above(i) BY <3>1, <3>3
    <3> QED BY <3>4
  <2> DEFINE e == EndOf(i)
  <2>4. e \in Above(i) /\ \A m \in Above(i) : e <= m
    <3> HIDE DEF Above
    <3> QED BY <2>2, <2>3, LeastOf
  <2>5. e \in Nat /\ e > i /\ e \notin ids BY <2>2, <2>4
  <2>6. ASSUME NEW j \in i .. e - 1, j \notin ids PROVE FALSE
    <3> DEFINE gaps == {m \in i .. e - 1 : m \notin ids}
    <3> HIDE DEF e
    <3>1. gaps \in SUBSET Nat /\ gaps # {} BY <2>1, <2>5, <2>6
    <3>2. PICK g \in gaps : \A m \in gaps : g <= m
      <4> HIDE DEF gaps
      <4> QED BY <3>1, LeastNat
    <3>3. g \in Nat /\ g \in i .. e - 1 /\ g \notin ids BY <2>1, <2>5
    <3>4. g # i /\ g > i BY <2>1, <3>3
    <3>5. g - 1 \in i .. e - 1 /\ ~(g <= g - 1) BY <2>1, <2>5, <3>3, <3>4
    <3>6. g - 1 \in ids BY <3>2, <3>5
    <3>7. g = (g - 1) + 1 BY <3>3
    <3>8. g \in Above(i) BY <3>3, <3>4, <3>6, <3>7
    <3>9. e <= g BY <2>4, <3>8
    <3> QED BY <2>1, <2>5, <3>3, <3>9
  <2> QED BY <2>5, <2>6
<1> HIDE DEF EndOf, starts
<1>6. /\ ord \in Seq(starts) /\ DOMAIN ord = 1 .. Cardinality(starts) /\ Cardinality(starts) \in Nat
      /\ \A x \in starts : \E k \in DOMAIN ord : ord[k] = x
      /\ \A j, k \in DOMAIN ord : j < k => ord[j] < ord[k]
  <2>1. LET s == InOrder(starts) IN
        /\ s \in Seq(starts) /\ DOMAIN s = 1 .. Cardinality(starts) /\ Cardinality(starts) \in Nat
        /\ Len(s) = Cardinality(starts)
        /\ \A x \in starts : \E k \in DOMAIN s : s[k] = x
        /\ \A j, k \in DOMAIN s : j < k => s[j] < s[k]
    BY ONLY <1>4, InOrderIs
  <2> QED BY <2>1
<1> HIDE DEF ord
<1>7. /\ DOMAIN ranges = DOMAIN ord /\ DOMAIN ranges \in SUBSET Nat
      /\ \A n \in DOMAIN ranges : ord[n] \in starts /\ ranges[n][1] = ord[n] /\ ranges[n][2] = EndOf(ord[n])
  BY <1>2, <1>6
<1>8. \A i \in starts : i \in ids /\ i - 1 \notin ids /\ i \in Nat /\ i > 0 BY <1>1 DEF starts
<1>9. ASSUME after # {}, ranges[Min(after)][1] <= id PROVE id \in ids
  <2>1. after \in SUBSET Nat BY <1>7
  <2> DEFINE n == Min(after)
  <2>2. n \in after BY <1>9, <2>1, LeastOf
  <2> HIDE DEF n
  <2>3. n \in DOMAIN ranges /\ ranges[n][2] > id BY <2>2
  <2>4. ord[n] \in ids /\ ord[n] <= id /\ EndOf(ord[n]) > id /\ ord[n] \in Nat
    BY <1>7, <1>8, <1>9, <2>3 DEF n
  <2>5. EndOf(ord[n]) \in Nat BY <1>5, <2>4
  <2>6. id \in ord[n] .. EndOf(ord[n]) - 1 BY <2>4, <2>5
  <2> QED BY <1>5, <2>4, <2>6
<1>10. ASSUME id \in ids PROVE after # {} /\ ranges[Min(after)][1] <= id
  <2> DEFINE run == {j \in 1 .. id : \A m \in j .. id : m \in ids}
  <2>1. run \in SUBSET Nat /\ id \in run BY <1>10
  <2>2. PICK s \in run : \A m \in run : s <= m
    <3> HIDE DEF run
    <3> QED BY <2>1, LeastNat
  <2>3. s \in 1 .. id /\ \A m \in s .. id : m \in ids OBVIOUS
  <2>4. s \in ids BY <2>3
  <2>5. s - 1 \notin ids
    <3>1. ASSUME s - 1 \in ids PROVE FALSE
      <4>1. s - 1 \in 1 .. id BY <1>1, <2>3, <3>1
      <4>2. ASSUME NEW m \in s - 1 .. id PROVE m \in ids
        <5>1. m = s - 1 \/ m \in s .. id BY <2>3
        <5> QED BY <2>3, <3>1, <5>1
      <4>3. s - 1 \in run BY <4>1, <4>2
      <4>4. s <= s - 1 BY <2>2, <4>3
      <4> QED BY <2>3, <4>4
    <3> QED BY <3>1
  <2>6. s \in starts BY <2>4, <2>5 DEF starts
  <2>7. PICK n \in DOMAIN ord : ord[n] = s BY <1>6, <2>6
  <2>8. EndOf(s) \in Nat /\ EndOf(s) > s /\ EndOf(s) \notin ids BY <1>5, <2>4
  <2>9. EndOf(s) > id
    <3>1. ASSUME ~(EndOf(s) > id) PROVE FALSE
      <4>1. EndOf(s) \in s .. id BY <2>3, <2>8, <3>1
      <4> QED BY <2>3, <2>8, <4>1
    <3> QED BY <3>1
  <2>10. n \in after BY <1>7, <2>7, <2>9
  <2>11. after \in SUBSET Nat BY <1>7
  <2> DEFINE f == Min(after)
  <2>12. f \in after /\ f <= n BY <2>10, <2>11, LeastOf
  <2> HIDE DEF f
  <2>13. f \in DOMAIN ord /\ f \in Nat /\ EndOf(ord[f]) > id /\ ord[f] \in starts
    BY <1>7, <2>12
  <2>14. ~(f < n)
    <3>1. ASSUME f < n PROVE FALSE
      <4>1. ord[f] < s BY <1>6, <2>7, <2>13, <3>1
      <4>2. ord[f] \in ids /\ ord[f] \in Nat BY <1>8, <2>13
      <4>3. EndOf(ord[f]) \in Nat /\ \A j \in ord[f] .. EndOf(ord[f]) - 1 : j \in ids
        BY <1>5, <4>2
      <4>4. s - 1 \in ord[f] .. EndOf(ord[f]) - 1 BY <2>3, <2>13, <4>1, <4>2, <4>3
      <4> QED BY <2>5, <4>3, <4>4
    <3> QED BY <3>1
  <2>15. n \in Nat BY <1>6, <2>7
  <2>16. f = n BY <2>12, <2>13, <2>14, <2>15
  <2>17. ranges[f][1] = s BY <1>7, <2>7, <2>13, <2>16
  <2>18. ranges[f][1] <= id BY <2>3, <2>17
  <2> QED BY <2>10, <2>18 DEF f
<1> QED BY <1>1, <1>9, <1>10

\* What the server wrote is read, whatever was written.
LEMMA SectionIsRead ==
  ASSUME NEW s, NEW a, NEW type, NEW v, a.count \in Nat \ {0}, SectionStored(s, a, type, v)
  PROVE  SectionOpens(s, a, type) /\ \A n \in 1 .. a.count : ReadCell(s, type, n) = Cell(v[n])
<1>1. s.magic /\ s.fits /\ s.type \in {"any", type} /\ a.length \in {0, s.length} /\ Packed(s, a)
  BY DEF SectionStored
<1>2. CASE type = "fixed"
  <2>1. FixedStored(s, a, v) BY <1>2 DEF SectionStored
  <2>2. \A n \in 1 .. a.count : ReadCell(s, type, n) = Cell(v[n])
    BY <1>2, <2>1, FixedIsRead DEF ReadCell
  <2>3. s.present # <<>> => NullCells(s) = a.nulls
    <3>1. ASSUME s.present # <<>> PROVE NullCells(s) = a.nulls
      <4>1. {n \in DOMAIN s.present : ~s.present[n]} = {n \in 1 .. a.count : v[n] = NullOffset}
        BY <2>1, <3>1 DEF FixedStored
      <4> QED BY <2>1, <3>1, <4>1 DEF FixedStored, NullCells
    <3> QED BY <3>1
  <2>4. Len(s.cells) >= a.count /\ (s.present # <<>> \/ a.nulls = 0)
    BY <2>1 DEF FixedStored
  <2> QED BY <1>1, <1>2, <2>2, <2>3, <2>4 DEF SectionOpens
<1>3. CASE type # "fixed"
  <2>1. VariableStored(s, a, v) BY <1>3 DEF SectionStored
  <2>2. \A n \in 1 .. a.count : ReadCell(s, type, n) = Cell(v[n])
    BY <1>3, <2>1, VariableIsRead DEF ReadCell
  <2> DEFINE places == {n \in 1 .. a.count + 1 : s.offsets[n] # NullOffset}
             values == {n \in 1 .. a.count : s.offsets[n] # NullOffset}
             top == s.offsets[a.count + 1]
             first == IF values = {} THEN top ELSE s.offsets[Min(values)]
  <2>3. /\ Len(s.bytes) \in Nat /\ Len(s.offsets) = a.count + 1 /\ a.count + 1 \in places
        /\ \A k \in places : s.offsets[k] \in 0 .. Len(s.bytes)
        /\ \A k, l \in places : k < l => s.offsets[k] <= s.offsets[l]
    BY <2>1 DEF VariableStored
  <2>4. top \in Nat /\ top <= Len(s.bytes) BY <2>3
  <2>5. first <= top
    <3>1. CASE values = {} BY <2>4, <3>1
    <3>2. CASE values # {}
      <4>1. values \in SUBSET Nat OBVIOUS
      <4> DEFINE n == Min(values)
      <4>2. n \in values
        <5> HIDE DEF values
        <5> QED BY <3>2, <4>1, LeastOf
      <4>3. first = s.offsets[n] BY <3>2
      <4> HIDE DEF n
      <4>4. n \in places /\ n < a.count + 1 BY <4>2
      <4> HIDE DEF places, first
      <4> QED BY <2>3, <4>3, <4>4
    <3> QED BY <3>1, <3>2
  <2>6. Len(s.offsets) = a.count + 1 BY <2>3
  <2> QED BY <1>1, <1>3, <2>2, <2>4, <2>5, <2>6 DEF SectionOpens
<1> QED BY <1>2, <1>3

\* The last change of a value counts.
LEMMA LastUpdate ==
  ASSUME NEW rows, NEW l \in Nat, DOMAIN rows = 1 .. l, NEW u, u = UpdatesOf(rows)
  PROVE  /\ \A n \in DOMAIN rows : <<rows[n].id, rows[n].col>> \in DOMAIN u
         /\ \A k \in DOMAIN u : \E n \in DOMAIN rows :
              /\ k = <<rows[n].id, rows[n].col>> /\ u[k] = rows[n].value
              /\ \A m \in DOMAIN rows : m > n => <<rows[m].id, rows[m].col>> # k
<1> DEFINE KeyOf(n) == <<rows[n].id, rows[n].col>>
           Of(k) == {n \in DOMAIN rows : KeyOf(n) = k}
<1>1. DOMAIN u = {KeyOf(n) : n \in DOMAIN rows} BY DEF UpdatesOf
<1>2. ASSUME NEW k \in DOMAIN u PROVE u[k] = rows[Max(Of(k))].value BY <1>2 DEF UpdatesOf
<1> HIDE DEF KeyOf
<1>3. ASSUME NEW k \in DOMAIN u
      PROVE  \E n \in DOMAIN rows : /\ k = KeyOf(n) /\ u[k] = rows[n].value
                                    /\ \A m \in DOMAIN rows : m > n => KeyOf(m) # k
  <2> DEFINE T == Of(k)
             n == Max(T)
  <2>1. T \in SUBSET Nat /\ T # {} BY <1>1
  <2>2. \A m \in T : m <= l BY <1>1
  <2>3. IsFiniteSet(T)
    <3> HIDE DEF T
    <3> QED BY <2>1, <2>2, FS_BoundedSetOfNaturals
  <2>4. n \in T /\ \A m \in T : m <= n
    <3> HIDE DEF T
    <3> QED BY <2>1, <2>3, GreatestOf
  <2>5. u[k] = rows[n].value BY <1>2
  <2> HIDE DEF n
  <2>6. n \in DOMAIN rows /\ k = KeyOf(n) BY <2>4
  <2>7. ASSUME NEW m \in DOMAIN rows, m > n PROVE KeyOf(m) # k
    <3>1. m \in Nat /\ n \in Nat BY <2>6
    <3>2. m \notin T BY <2>4, <2>7, <3>1
    <3> QED BY <3>2
  <2> QED BY <2>5, <2>6, <2>7
<1> QED BY <1>1, <1>3 DEF KeyOf

\* The rows of an auxiliary table are a sequence.
LEMMA StoredIsSeq ==
  ASSUME NEW w, IsHugeTable(w), NEW t \in {"AUX", "RAUX", "DAUX", "UAUX"}
  PROVE  LET rows == StoredRows(w, t)
         IN /\ rows \in Seq(Range(rows)) /\ Len(rows) \in Nat
            /\ DOMAIN rows = 1 .. Len(rows) /\ IsFiniteSet(DOMAIN rows)
<1> DEFINE rows == StoredRows(w, t)
<1>1. rows \in Seq(Range(rows))
  <2>1. CASE t \in w.tables \cup {"AUX"} BY <2>1 DEF IsHugeTable
  <2>2. CASE t \notin w.tables \cup {"AUX"}
    <3>1. rows = <<>> BY <2>2 DEF StoredRows
    <3> QED BY <3>1
  <2> QED BY <2>1, <2>2
<1> HIDE DEF rows
<1>2. Len(rows) \in Nat /\ DOMAIN rows = 1 .. Len(rows) BY <1>1
<1>3. IsFiniteSet(DOMAIN rows) BY <1>2, FS_Interval
<1> QED BY <1>1, <1>2, <1>3 DEF rows

\* The storage found is the one of the table.
LEMMA AuxIsStored ==
  ASSUME IsHugeTable(huge), NEW t \in huge.tables, "AUX" \in huge.tables
  PROVE  AuxContent(t) = StoredRows(huge, t) /\ (AuxReadable(t) <=> WholeIn(huge, t))
<1> DEFINE own == huge.own
<1>1. /\ own["AUX"] \in Nat \ {0} /\ own[t] \in Nat \ {0}
      /\ huge.assists["AUX"] # <<>> => Last(huge.assists["AUX"]) = own["AUX"]
      /\ huge.assists["AUX"] = <<>> => huge.assistId["AUX"] = own["AUX"]
      /\ huge.assists[t] # <<>> => Last(huge.assists[t]) = own[t]
      /\ huge.assists[t] = <<>> /\ huge.assistId[t] # 0 => huge.assistId[t] = own[t]
      /\ huge.assists[t] = <<>> /\ huge.assistId[t] = 0 =>
           \E k \in DOMAIN AuxTables : AuxTables[k] = t /\ own[t] = own["AUX"] + k - 1
  BY DEF IsHugeTable
<1>2. OwnStorage("AUX") = own["AUX"] BY <1>1 DEF OwnStorage
<1>3. OwnStorage(t) # 0 => OwnStorage(t) = own[t] BY <1>1 DEF OwnStorage
<1>4. ASSUME OwnStorage(t) = 0
      PROVE  own[t] = own["AUX"] + (CHOOSE n \in DOMAIN AuxTables : AuxTables[n] = t) - 1
  <2>1. huge.assists[t] = <<>> /\ huge.assistId[t] = 0 BY <1>1, <1>4 DEF OwnStorage
  <2>2. PICK k \in DOMAIN AuxTables : AuxTables[k] = t /\ own[t] = own["AUX"] + k - 1
    BY <1>1, <2>1
  <2> DEFINE n == CHOOSE n \in DOMAIN AuxTables : AuxTables[n] = t
  <2>3. n \in DOMAIN AuxTables /\ AuxTables[n] = t BY <2>2
  <2> HIDE DEF n
  <2>4. k = n BY <2>2, <2>3 DEF AuxTables
  <2> QED BY <2>2, <2>4 DEF n
<1>5. AuxStorage(t) = own[t] BY <1>1, <1>2, <1>3, <1>4 DEF AuxStorage
<1> QED BY <1>5 DEF AuxContent, AuxReadable, AuxFound, StoredRows, WholeIn

\* Rows of $AUX in range number sections from 0.
LEMMA AuxTyped ==
  ASSUME NEW w, IsHugeTable(w), NEW aux, aux = StoredRows(w, "AUX"), AllInRange(aux)
  PROVE  /\ \A n \in DOMAIN aux : aux[n].section \in Nat /\ aux[n].count \in Int
         /\ SectionIds(aux) \in SUBSET Nat
<1>1. \A n \in DOMAIN aux : aux[n] \in AuxRow BY DEF IsHugeTable
<1>2. ASSUME NEW n \in DOMAIN aux PROVE aux[n].section \in Nat /\ aux[n].count \in Int
  <2>1. PICK a : a = aux[n] OBVIOUS
  <2>2. a \in AuxRow BY <1>1, <2>1, Zenon
  <2>3. a.section \in Int /\ a.count \in Int BY <2>2 DEF AuxRow
  <2>4. AuxInRange(a) BY <2>1, Zenon DEF AllInRange
  <2>5. a.section >= 0 BY ONLY <2>4 DEF AuxInRange
  <2> QED BY <2>1, <2>3, <2>5
<1>3. SectionIds(aux) \in SUBSET Nat BY <1>2 DEF SectionIds, Listed
<1> QED BY <1>2, <1>3

\* A section that passed the check, with the columns of a table
LEMMA SectionFacts ==
  ASSUME NEW w, IsHugeTable(w), NEW aux, aux = StoredRows(w, "AUX"),
         NEW cols, cols = DOMAIN w.type, AllInRange(aux), SectionsAgree(aux, cols),
         NEW sec \in SectionIds(aux)
  PROVE  /\ sec \in Nat /\ CountOf(aux, sec, cols) \in 1 .. SectionRows
         /\ \A c \in cols : LET a == SectionOf(aux, sec, c)[1] IN
              /\ a.count = CountOf(aux, sec, cols) /\ a.section = sec
              /\ <<c, a.file>> \in FilesWanted(aux)
<1>1. DOMAIN aux \in SUBSET Nat /\ IsFiniteSet(DOMAIN aux) BY StoredIsSeq
<1>2. \A n \in DOMAIN aux : aux[n].section \in Nat /\ aux[n].count \in Int BY AuxTyped
<1>3. cols # {} /\ cols \in SUBSET Nat /\ IsFiniteSet(cols) BY DEF IsHugeTable
<1> DEFINE n == CountOf(aux, sec, cols)
           of(c) == SectionOf(aux, sec, c)[1]
<1>4. ASSUME NEW c \in cols
      PROVE  /\ of(c).section = sec /\ of(c).count \in Nat \ {0}
             /\ <<c, of(c).file>> \in FilesWanted(aux)
  <2> DEFINE ns == {m \in Listed(aux) : aux[m].section = sec /\ aux[m].col = c}
             top == Max(ns)
  <2>1. ns # {} BY DEF SectionsAgree, SectionOf
  <2>2. ns \in SUBSET DOMAIN aux BY DEF Listed
  <2>3. top \in ns
    <3> HIDE DEF ns
    <3>1. ns \in SUBSET Nat BY <1>1, <2>2
    <3>2. IsFiniteSet(ns) BY <1>1, <2>2, FS_Subset
    <3> QED BY <2>1, <3>1, <3>2, GreatestOf
  <2>4. of(c) = aux[top] BY <2>1 DEF SectionOf
  <2> HIDE DEF top
  <2>5. top \in Listed(aux) /\ aux[top].section = sec /\ aux[top].col = c BY <2>3
  <2>6. aux[top].count \in Nat \ {0} BY <1>2, <2>5 DEF Listed
  <2>7. <<c, aux[top].file>> \in FilesWanted(aux) BY <2>5 DEF FilesWanted
  <2> QED BY <2>4, <2>5, <2>6, <2>7
<1>5. Min(cols) \in cols BY <1>3, LeastOf
<1>6. n = of(Min(cols)).count BY DEF CountOf
<1>7. ASSUME NEW c \in cols PROVE of(c).count = n
  <2> DEFINE T == {of(d).count : d \in cols}
  <2>1. Cardinality(T) = 1 BY DEF SectionsAgree
  <2>2. IsFiniteSet(T)
    <3> DEFINE f == [d \in cols |-> of(d).count]
    <3>1. f \in Surjection(cols, T)
      <4>1. f \in [cols -> T] /\ \A t \in T : \E d \in cols : f[d] = t OBVIOUS
      <4> HIDE DEF T, f
      <4> QED BY <4>1 DEF Surjection
    <3> QED BY <1>3, <3>1, FS_Surjection
  <2>3. PICK x : T = {x}
    <3> HIDE DEF T
    <3> QED BY <2>1, <2>2, FS_Singleton
  <2>4. of(c).count \in T /\ of(Min(cols)).count \in T BY <1>5
  <2> HIDE DEF T, of
  <2> QED BY <1>6, <2>3, <2>4
<1>8. sec \in Nat BY <1>2 DEF SectionIds, Listed
<1>9. n <= SectionRows BY DEF IsHugeTable
<1>10. n \in Nat \ {0} BY <1>4, <1>5, <1>6
<1>11. n \in 1 .. SectionRows BY <1>9, <1>10, HugeAssumption
<1> QED BY <1>4, <1>7, <1>8, <1>11

\* The ids in sections are counted off section by section, and the last of them
\* is where those of $RAUX go on.
LEMMA SectionsCount ==
  ASSUME NEW w, IsHugeTable(w), NEW aux, aux = StoredRows(w, "AUX"),
         NEW cols, cols = DOMAIN w.type, AllInRange(aux), SectionsAgree(aux, cols)
  PROVE  LET full == LastInSections(w)
             ids == DOMAIN w.written
         IN
         /\ ids \in SUBSET (Nat \ {0}) /\ full \in Nat
         /\ SectionIds(aux) \in SUBSET Nat
         /\ \A sec \in SectionIds(aux) : \A n \in 1 .. CountOf(aux, sec, cols) :
              sec * SectionRows + n \in ids /\ sec * SectionRows + n <= full
         /\ full # 0 => \E sec \in SectionIds(aux) : full = sec * SectionRows + CountOf(aux, sec, cols)
         /\ \A i \in ids : i <= full => \E sec \in SectionIds(aux) :
              \E n \in 1 .. CountOf(aux, sec, cols) : i = sec * SectionRows + n
<1> DEFINE full == LastInSections(w)
           ids == DOMAIN w.written
           S == InSections(w)
           K(sec) == CountOf(aux, sec, cols)
<1>1. ids \in SUBSET (Nat \ {0}) /\ IsFiniteSet(ids) BY DEF IsHugeTable
<1>2. {i \in ids : i <= full} = S BY DEF IsHugeTable
<1>3. S \in SUBSET ids BY <1>2
<1>4. \A i \in S : \E sec \in SectionIds(aux) : \E n \in 1 .. K(sec) : i = sec * SectionRows + n
  BY DEF InSections
<1>5. \A sec \in SectionIds(aux) : \A n \in 1 .. K(sec) : sec * SectionRows + n \in S
  BY DEF InSections
<1>6. \A sec \in SectionIds(aux) : sec \in Nat /\ K(sec) \in 1 .. SectionRows BY SectionFacts
<1> HIDE DEF S, K
<1>7. S = {} => full = 0 BY DEF LastInSections, S
<1>8. S # {} => full \in S /\ \A i \in S : i <= full
  <2>1. S # {} => full = Max(S) BY DEF LastInSections, S
  <2>2. S \in SUBSET Nat /\ IsFiniteSet(S)
    <3>1. IsFiniteSet(S) BY <1>1, <1>3, FS_Subset
    <3> QED BY <1>1, <1>3, <3>1
  <2> QED BY <2>1, <2>2, GreatestOf
<1> HIDE DEF full
<1>9. full \in Nat BY <1>1, <1>3, <1>7, <1>8
<1>10. ASSUME full # 0 PROVE \E sec \in SectionIds(aux) : full = sec * SectionRows + K(sec)
  <2>1. full \in S BY <1>7, <1>8, <1>10
  <2>2. PICK sec \in SectionIds(aux) : \E n \in 1 .. K(sec) : full = sec * SectionRows + n
    BY <1>4, <2>1
  <2>3. PICK n \in 1 .. K(sec) : full = sec * SectionRows + n BY <2>2
  <2>4. sec \in Nat /\ K(sec) \in 1 .. SectionRows BY <1>6
  <2>5. sec * SectionRows + K(sec) \in S BY <1>5, <2>4
  <2>6. sec * SectionRows + K(sec) <= full BY <1>8, <2>5
  <2> DEFINE b == sec * SectionRows
  <2>7. b \in Nat BY <2>4, HugeAssumption
  <2> HIDE DEF b
  <2>8. full = b + K(sec) BY <2>3, <2>4, <2>6, <2>7 DEF b
  <2> QED BY <2>8 DEF b
<1>11. \A sec \in SectionIds(aux) : \A n \in 1 .. K(sec) :
         sec * SectionRows + n \in ids /\ sec * SectionRows + n <= full
  BY <1>3, <1>5, <1>8
<1>12. \A i \in ids : i <= full => i \in S BY <1>2
<1> QED BY <1>1, <1>4, <1>6, <1>9, <1>10, <1>11, <1>12 DEF full, K

\* An earlier section ends before a later one starts.
LEMMA SectionsApart ==
  ASSUME NEW a \in Nat, NEW b \in Nat, a < b
  PROVE  a * SectionRows + SectionRows <= b * SectionRows
         /\ a * SectionRows \in Nat /\ b * SectionRows \in Nat
<1>1. SectionRows \in Nat BY HugeAssumption
<1>2. PICK d \in Nat : b = a + 1 + d
  <2>1. b - a - 1 \in Nat /\ b = a + 1 + (b - a - 1) OBVIOUS
  <2> QED BY <2>1
<1>3. b * SectionRows = a * SectionRows + SectionRows + d * SectionRows BY <1>1, <1>2
<1>4. d * SectionRows \in Nat /\ a * SectionRows \in Nat /\ b * SectionRows \in Nat BY <1>1
<1> QED BY <1>1, <1>3, <1>4

\* The ids left, in order
LeftOf(w) == InOrder({i \in DOMAIN w.written : i \notin w.gone})

\* The rows are those with an id up to k.
RowsUpTo(w, rows, k) ==
  /\ rows \in Seq(Range(w.live)) /\ Len(rows) <= Len(LeftOf(w))
  /\ \A n \in DOMAIN LeftOf(w) : n <= Len(rows) <=> LeftOf(w)[n] <= k
  /\ \A n \in 1 .. Len(rows) : rows[n] = w.live[n]

DeltaRight ==
  /\ \A i \in DOMAIN huge.written : Deleted(i) <=> i \in huge.gone
  /\ DOMAIN updates = DOMAIN huge.changed
  /\ \A k \in DOMAIN updates : updates[k] = huge.changed[k]

LEMMA LiveIs ==
  ASSUME NEW w, IsHugeTable(w), NEW left, left = LeftOf(w)
  PROVE  /\ Len(left) \in Nat /\ DOMAIN left = 1 .. Len(left)
         /\ \A n \in DOMAIN left : left[n] \in Nat \ {0} /\ left[n] \in DOMAIN w.written /\ left[n] \notin w.gone
         /\ \A i \in DOMAIN w.written : i \notin w.gone => \E n \in DOMAIN left : left[n] = i
         /\ \A j, k \in DOMAIN left : j < k => left[j] < left[k]
         /\ w.live \in Seq(Range(w.live)) /\ Len(w.live) = Len(left)
         /\ \A n \in DOMAIN left : /\ w.live[n] \in Range(w.live)
                                   /\ w.live[n] = [c \in DOMAIN w.type |->
                                        IF <<left[n], c>> \in DOMAIN w.changed
                                        THEN w.changed[<<left[n], c>>]
                                        ELSE w.written[left[n]][c]]
<1> DEFINE S == {i \in DOMAIN w.written : i \notin w.gone}
           live == w.live
<1>1. DOMAIN w.written \in SUBSET (Nat \ {0}) /\ IsFiniteSet(DOMAIN w.written) BY DEF IsHugeTable
<1>2. S \in SUBSET Nat /\ IsFiniteSet(S) /\ S \subseteq Nat \ {0}
  <2>1. S \in SUBSET DOMAIN w.written OBVIOUS
  <2> HIDE DEF S
  <2> QED BY <1>1, <2>1, FS_Subset
<1>3. left = InOrder(S) BY DEF LeftOf
<1>4. /\ left \in Seq(S) /\ Len(left) \in Nat /\ DOMAIN left = 1 .. Len(left)
      /\ \A x \in S : \E k \in DOMAIN left : left[k] = x
      /\ \A j, k \in DOMAIN left : j < k => left[j] < left[k]
  <2> HIDE DEF S
  <2>1. LET s == InOrder(S) IN
        /\ s \in Seq(S) /\ DOMAIN s = 1 .. Cardinality(S) /\ Cardinality(S) \in Nat
        /\ Len(s) = Cardinality(S)
        /\ \A x \in S : \E k \in DOMAIN s : s[k] = x
        /\ \A j, k \in DOMAIN s : j < k => s[j] < s[k]
    BY ONLY <1>2, InOrderIs
  <2> QED BY <1>3, <2>1
<1>5. live = [n \in DOMAIN left |-> [c \in DOMAIN w.type |->
                 IF <<left[n], c>> \in DOMAIN w.changed THEN w.changed[<<left[n], c>>]
                 ELSE w.written[left[n]][c]]]
  BY DEF IsHugeTable, LiveOf, LeftOf
<1>6. DOMAIN live = 1 .. Len(left) BY <1>4, <1>5
<1>7. \A n \in 1 .. Len(left) : live[n] \in Range(live) BY <1>6 DEF Range
<1>8. live \in [1 .. Len(left) -> Range(live)] BY <1>5, <1>6, <1>7
<1>9. live \in Seq(Range(live)) /\ Len(live) = Len(left)
  <2> HIDE DEF live
  <2> QED BY <1>4, <1>8, SeqDef
<1>10. \A n \in DOMAIN left : left[n] \in S BY <1>4
<1>11. \A n \in DOMAIN left : live[n] = [c \in DOMAIN w.type |->
                 IF <<left[n], c>> \in DOMAIN w.changed THEN w.changed[<<left[n], c>>]
                 ELSE w.written[left[n]][c]]
  BY <1>5
<1> QED BY <1>2, <1>4, <1>7, <1>9, <1>10, <1>11

LEMMA UpToNothing == ASSUME NEW w, IsHugeTable(w) PROVE RowsUpTo(w, <<>>, 0)
<1> DEFINE left == LeftOf(w)
<1>1. PICK l : l = left OBVIOUS
<1>2. /\ Len(l) \in Nat /\ DOMAIN l = 1 .. Len(l)
      /\ \A n \in DOMAIN l : l[n] \in Nat \ {0}
  BY <1>1, LiveIs
<1>3. \A n \in DOMAIN l : ~(n <= 0) /\ ~(l[n] <= 0) BY <1>2
<1>4. <<>> \in Seq(Range(w.live)) /\ Len(<<>>) = 0 OBVIOUS
<1> QED BY <1>1, <1>2, <1>3, <1>4 DEF RowsUpTo

LEMMA UpToMore ==
  ASSUME NEW w, IsHugeTable(w), NEW rows, NEW k \in Nat, NEW m \in Nat, k <= m, RowsUpTo(w, rows, k),
         \A i \in DOMAIN w.written : ~(k < i /\ i <= m)
  PROVE  RowsUpTo(w, rows, m)
<1>1. PICK l : l = LeftOf(w) OBVIOUS
<1>2. \A n \in DOMAIN l : l[n] \in Nat /\ l[n] \in DOMAIN w.written BY <1>1, LiveIs
<1>3. \A n \in DOMAIN l : l[n] <= k <=> l[n] <= m BY <1>2
<1> QED BY <1>1, <1>3 DEF RowsUpTo

LEMMA UpToAll ==
  ASSUME NEW w, IsHugeTable(w), NEW rows, NEW k \in Nat, RowsUpTo(w, rows, k),
         \A i \in DOMAIN w.written : i <= k
  PROVE  rows = w.live
<1>1. PICK l : l = LeftOf(w) OBVIOUS
<1>2. /\ Len(l) \in Nat /\ DOMAIN l = 1 .. Len(l) /\ \A n \in DOMAIN l : l[n] \in DOMAIN w.written
      /\ w.live \in Seq(Range(w.live)) /\ Len(w.live) = Len(l)
  BY <1>1, LiveIs
<1>3. /\ rows \in Seq(Range(w.live)) /\ Len(rows) <= Len(l)
      /\ \A n \in DOMAIN l : n <= Len(rows) <=> l[n] <= k
      /\ \A n \in 1 .. Len(rows) : rows[n] = w.live[n]
  BY <1>1 DEF RowsUpTo
<1>4. \A n \in DOMAIN l : n <= Len(rows) BY <1>2, <1>3
<1>5. Len(rows) = Len(l) BY <1>2, <1>3, <1>4
<1>6. DOMAIN rows = DOMAIN w.live /\ \A n \in DOMAIN rows : rows[n] = w.live[n] BY <1>2, <1>3, <1>5
<1>7. rows \in [1 .. Len(rows) -> Range(w.live)] /\ w.live \in [1 .. Len(rows) -> Range(w.live)]
  BY <1>2, <1>3, <1>5
<1>8. \A n \in 1 .. Len(rows) : rows[n] = w.live[n] BY <1>3
<1> QED BY ONLY <1>7, <1>8

LEMMA UpToPrefix ==
  ASSUME NEW w, IsHugeTable(w), NEW rows, NEW k, RowsUpTo(w, rows, k)
  PROVE  IsPrefix(rows, w.live)
<1>1. PICK l : l = LeftOf(w) OBVIOUS
<1>2. w.live \in Seq(Range(w.live)) /\ Len(w.live) = Len(l) BY <1>1, LiveIs
<1>3. /\ rows \in Seq(Range(w.live)) /\ Len(rows) <= Len(l)
      /\ \A n \in 1 .. Len(rows) : rows[n] = w.live[n]
  BY <1>1 DEF RowsUpTo
<1> DEFINE R == Range(w.live)
           s == rows
           t == w.live
<1>4. s \in Seq(R) /\ t \in Seq(R) /\ Len(s) <= Len(t) /\ \A n \in 1 .. Len(s) : s[n] = t[n]
  BY <1>2, <1>3
<1> HIDE DEF R, s, t
<1>5. SubSeq(s, 1, Len(s)) = SubSeq(t, 1, Len(s)) BY ONLY <1>4
<1>6. IsPrefix(s, t) BY <1>4, <1>5 DEF IsPrefix
<1> QED BY <1>6 DEF s, t

\* One more row, the next of the ids
LEMMA UpToNext ==
  ASSUME IsHugeTable(huge), DeltaRight, NEW id \in DOMAIN huge.written, NEW values,
         \A c \in Columns : values[c] = huge.written[id][c],
         RowsUpTo(huge, hugeRows, id - 1)
  PROVE  RowsUpTo(huge, WithRow(id, values), id)
<1>1. PICK l : l = LeftOf(huge) OBVIOUS
<1>2. PICK live : live = huge.live OBVIOUS
<1>3. PICK old : old = hugeRows OBVIOUS
<1>4. /\ Len(l) \in Nat /\ DOMAIN l = 1 .. Len(l)
      /\ \A n \in DOMAIN l : l[n] \in Nat \ {0} /\ l[n] \in DOMAIN huge.written /\ l[n] \notin huge.gone
      /\ \A i \in DOMAIN huge.written : i \notin huge.gone => \E n \in DOMAIN l : l[n] = i
      /\ \A j, k \in DOMAIN l : j < k => l[j] < l[k]
      /\ \A n \in DOMAIN l : /\ live[n] \in Range(live)
                             /\ live[n] = [c \in Columns |->
                                  IF <<l[n], c>> \in DOMAIN huge.changed THEN huge.changed[<<l[n], c>>]
                                  ELSE huge.written[l[n]][c]]
  BY <1>1, <1>2, LiveIs DEF Columns
<1>5. /\ old \in Seq(Range(live)) /\ Len(old) <= Len(l)
      /\ \A n \in DOMAIN l : n <= Len(old) <=> l[n] <= id - 1
      /\ \A n \in 1 .. Len(old) : old[n] = live[n]
  BY <1>1, <1>2, <1>3 DEF RowsUpTo
<1>6. id \in Nat \ {0} BY DEF IsHugeTable
<1>7. CASE id \in huge.gone
  <2>1. WithRow(id, values) = old BY <1>3, <1>7 DEF WithRow, DeltaRight
  <2>2. \A n \in DOMAIN l : l[n] # id BY <1>4, <1>7
  <2>3. \A n \in DOMAIN l : l[n] <= id - 1 <=> l[n] <= id BY <1>4, <1>6, <2>2
  <2>4. \A n \in DOMAIN l : n <= Len(old) <=> l[n] <= id BY <1>5, <2>3
  <2> QED BY <1>1, <1>2, <1>5, <2>1, <2>4 DEF RowsUpTo
<1>8. CASE id \notin huge.gone
  <2>1. PICK n \in DOMAIN l : l[n] = id BY <1>4, <1>8
  <2> DEFINE row == Updated(id, values)
             new == Append(old, row)
  <2>2. WithRow(id, values) = new BY <1>3, <1>8 DEF WithRow, DeltaRight
  <2>3. row = live[n]
    <3>1. ASSUME NEW c \in Columns
          PROVE  (IF <<id, c>> \in DOMAIN updates THEN updates[<<id, c>>] ELSE values[c])
                 = IF <<id, c>> \in DOMAIN huge.changed THEN huge.changed[<<id, c>>]
                   ELSE huge.written[id][c]
      BY DEF DeltaRight
    <3>2. live[n] = [c \in Columns |->
                       IF <<id, c>> \in DOMAIN huge.changed THEN huge.changed[<<id, c>>]
                       ELSE huge.written[id][c]]
      BY <1>4, <2>1
    <3> QED BY <3>1, <3>2 DEF Updated
  <2> HIDE DEF row
  <2>4. Len(old) \in Nat BY <1>5
  <2>5. n = Len(old) + 1
    <3>1. n \in Nat \ {0} /\ n <= Len(l) BY <1>4, <2>1
    <3>2. ~(n <= Len(old)) BY <1>5, <1>6, <2>1
    <3>3. ~(Len(old) + 1 < n)
      <4>1. ASSUME Len(old) + 1 < n PROVE FALSE
        <5> DEFINE m == Len(old) + 1
        <5>1. m \in DOMAIN l /\ m < n BY <1>4, <2>4, <3>1, <4>1
        <5>2. l[m] < id /\ l[m] \in Nat BY <1>4, <2>1, <5>1
        <5>3. l[m] <= id - 1 BY <1>6, <5>2
        <5>4. m <= Len(old) BY <1>5, <5>1, <5>3
        <5> QED BY <2>4, <5>4
      <4> QED BY <4>1
    <3> QED BY <2>4, <3>1, <3>2, <3>3
  <2>6. /\ new \in Seq(Range(live)) /\ Len(new) = n
        /\ \A k \in 1 .. Len(new) : new[k] = live[k]
    <3>1. row \in Range(live) BY <1>4, <2>1, <2>3
    <3>2. new \in Seq(Range(live)) /\ Len(new) = Len(old) + 1 BY <1>5, <3>1
    <3>3. ASSUME NEW k \in 1 .. n PROVE new[k] = live[k]
      <4>1. CASE k = n BY <1>5, <2>3, <2>5, <4>1
      <4>2. CASE k # n BY <1>5, <2>4, <2>5, <4>2
      <4> QED BY <4>1, <4>2
    <3> QED BY <2>5, <3>2, <3>3
  <2> HIDE DEF new
  <2>7. ASSUME NEW k \in DOMAIN l PROVE k <= n <=> l[k] <= id
    <3>1. k \in Nat /\ n \in Nat /\ l[k] \in Nat BY <1>4, <2>1
    <3>2. k < n => l[k] < id BY <1>4, <2>1
    <3>3. n < k => id < l[k] BY <1>4, <2>1
    <3> QED BY <1>6, <2>1, <3>1, <3>2, <3>3
  <2>8. Len(new) <= Len(l) BY <1>4, <2>1, <2>6
  <2> QED BY <1>1, <1>2, <2>2, <2>6, <2>7, <2>8 DEF RowsUpTo
<1> QED BY <1>7, <1>8

HugeInv ==
  /\ huge \in HugeTables
  /\ hugePhase \in {"sections", "files", "delta", "check", "rows", "raux", "done", "error"}
  /\ hugePhase \in {"sections", "files", "delta", "check"} =>
       RowsUpTo(huge, hugeRows, 0) /\ fullRows = 0 /\ rauxAt = 0
  /\ hugePhase \in {"files", "delta", "check", "rows", "raux"} =>
       "AUX" \in huge.tables /\ auxRows = StoredRows(huge, "AUX") /\ AllInRange(auxRows)
  /\ hugePhase \in {"delta", "check", "rows", "raux"} =>
       \A k \in FilesWanted(auxRows) : colFiles[k] \in Identified(huge, k[1], k[2])
  /\ hugePhase \in {"check", "rows", "raux"} => DeltaRight
  /\ hugePhase \in {"rows", "raux"} => SectionsAgree(auxRows, Columns)
  /\ hugePhase = "rows" =>
       LET sec == sectionAt[1]
       IN /\ sec \in SectionIds(auxRows)
          /\ sectionAt[2] \in 0 .. CountOf(auxRows, sec, Columns) - 1
          /\ fullRows \in 0 .. sec * SectionRows /\ rauxAt = 0
          /\ RowsUpTo(huge, hugeRows, sec * SectionRows + sectionAt[2])
  /\ hugePhase = "raux" =>
       /\ fullRows = LastInSections(huge) /\ rauxAt \in 0 .. Len(StoredRows(huge, "RAUX"))
       /\ RowsUpTo(huge, hugeRows, fullRows + rauxAt)
  /\ hugePhase \in {"done", "error"} => \E k \in Nat : RowsUpTo(huge, hugeRows, k)
  /\ hugePhase = "done" => HugeLimit(hugeRows) \/ hugeRows = huge.live
  /\ hugePhase = "error" => ~huge.sound

LEMMA IsATable == ASSUME HugeInv PROVE IsHugeTable(huge)
BY HugeAssumption DEF HugeInv

LEMMA HugeStarts == HugeInit => HugeInv
<1> SUFFICES ASSUME HugeInit PROVE HugeInv OBVIOUS
<1>1. IsHugeTable(huge) BY HugeAssumption DEF HugeInit
<1>2. RowsUpTo(huge, <<>>, 0) BY <1>1, UpToNothing
<1> QED BY <1>2 DEF HugeInit, HugeInv

\* An error met while the table is damaged
LEMMA FailStep ==
  ASSUME HugeInv, HugeFails, ~huge.sound, \E k \in Nat : RowsUpTo(huge, hugeRows, k)
  PROVE  HugeInv'
<1>1. huge' = huge /\ hugeRows' = hugeRows /\ hugePhase' = "error" BY DEF HugeFails
<1>2. RowsUpTo(huge, hugeRows, 0)' = RowsUpTo(huge, hugeRows, 0) BY <1>1 DEF RowsUpTo, LeftOf
<1>3. PICK k \in Nat : RowsUpTo(huge, hugeRows, k) OBVIOUS
<1>4. RowsUpTo(huge', hugeRows', k) BY <1>1, <1>3
<1> QED BY <1>1, <1>4 DEF HugeInv

LEMMA LoadSectionsStep == ASSUME HugeInv, LoadSections PROVE HugeInv'
<1>1. IsHugeTable(huge) BY IsATable
<1>2. /\ huge \in HugeTables /\ RowsUpTo(huge, hugeRows, 0) /\ fullRows = 0 /\ rauxAt = 0
      /\ hugePhase = "sections"
  BY DEF HugeInv, LoadSections
<1>3. CASE ~HasAux("AUX") \/ ~AuxReadable("AUX") \/ ~AllInRange(AuxContent("AUX"))
  <2>1. HugeFails BY <1>3 DEF LoadSections
  <2>2. ~huge.sound
    <3>1. huge.sound => /\ "AUX" \in huge.tables /\ WholeIn(huge, "AUX")
                        /\ AllInRange(StoredRows(huge, "AUX"))
      BY <1>1 DEF IsHugeTable
    <3>2. ASSUME "AUX" \in huge.tables
          PROVE  /\ AuxReadable("AUX") <=> WholeIn(huge, "AUX")
                 /\ AuxContent("AUX") = StoredRows(huge, "AUX")
      BY <1>1, <3>2, AuxIsStored
    <3> QED BY <1>3, <3>1, <3>2 DEF HasAux
  <2> QED BY <1>2, <2>1, <2>2, FailStep
<1>4. CASE HasAux("AUX") /\ AuxReadable("AUX") /\ AllInRange(AuxContent("AUX"))
  <2>1. /\ auxRows' = AuxContent("AUX")
        /\ hugePhase' = IF AuxContent("AUX") = <<>> THEN "done" ELSE "files"
        /\ UNCHANGED <<huge, colFiles, deletes, updates, sectionAt, fullRows, rauxAt, hugeRows>>
    BY <1>4 DEF LoadSections
  <2>2. "AUX" \in huge.tables BY <1>4 DEF HasAux
  <2>3. AuxContent("AUX") = StoredRows(huge, "AUX") /\ WholeIn(huge, "AUX")
    BY <1>1, <1>4, <2>2, AuxIsStored
  <2>4. RowsUpTo(huge', hugeRows', 0) BY <1>2, <2>1
  <2>5. CASE AuxContent("AUX") = <<>>
    <3>1. DOMAIN huge.written = {} BY <1>1, <2>3, <2>5 DEF IsHugeTable
    <3>2. hugeRows = huge.live BY <1>1, <1>2, <3>1, UpToAll
    <3> QED BY <1>2, <2>1, <2>4, <2>5, <3>2 DEF HugeInv
  <2>6. CASE AuxContent("AUX") # <<>>
    <3>1. hugePhase' = "files" /\ auxRows' = StoredRows(huge', "AUX") /\ "AUX" \in huge'.tables
          /\ AllInRange(auxRows')
      BY <1>4, <2>1, <2>2, <2>3, <2>6
    <3> QED BY <1>2, <2>1, <2>4, <3>1 DEF HugeInv
  <2> QED BY <2>5, <2>6
<1> QED BY <1>3, <1>4

LEMMA ResolveStep == ASSUME HugeInv, ResolveColumnFiles PROVE HugeInv'
<1>1. IsHugeTable(huge) BY IsATable
<1>2. /\ huge \in HugeTables /\ RowsUpTo(huge, hugeRows, 0) /\ fullRows = 0 /\ rauxAt = 0
      /\ hugePhase = "files" /\ "AUX" \in huge.tables /\ auxRows = StoredRows(huge, "AUX")
      /\ AllInRange(auxRows)
  BY DEF HugeInv, ResolveColumnFiles
<1> DEFINE Bad == (Listed(auxRows) # {} /\ huge.dirs = <<>>) \/ ~FilesResolve(huge, auxRows)
<1>3. CASE Bad
  <2>1. HugeFails BY <1>3 DEF ResolveColumnFiles
  <2>2. ~huge.sound BY <1>1, <1>2, <1>3 DEF IsHugeTable
  <2> QED BY <1>2, <2>1, <2>2, FailStep
<1>4. CASE ~Bad
  <2>1. /\ colFiles' = [k \in FilesWanted(auxRows) |-> CHOOSE d \in Identified(huge, k[1], k[2]) : TRUE]
        /\ hugePhase' = "delta"
        /\ UNCHANGED <<huge, auxRows, deletes, updates, sectionAt, fullRows, rauxAt, hugeRows>>
    BY <1>4 DEF ResolveColumnFiles
  <2>2. RowsUpTo(huge', hugeRows', 0) BY <1>2, <2>1
  <2>3. ASSUME NEW k \in FilesWanted(auxRows) PROVE colFiles'[k] \in Identified(huge, k[1], k[2])
    <3> DEFINE I == Identified(huge, k[1], k[2])
    <3>1. Cardinality(I) = 1 BY <1>4 DEF FilesResolve
    <3>2. I # {}
      <4> HIDE DEF I
      <4>1. Cardinality({}) = 0 BY FS_EmptySet
      <4> QED BY <3>1, <4>1
    <3>3. colFiles'[k] = CHOOSE d \in I : TRUE BY <2>1
    <3>4. colFiles'[k] \in I
      <4> HIDE DEF I
      <4> QED BY <3>2, <3>3
    <3> QED BY <3>4
  <2>4. \A k \in FilesWanted(auxRows') : colFiles'[k] \in Identified(huge', k[1], k[2])
    BY <2>1, <2>3
  <2>5. auxRows' = StoredRows(huge', "AUX") /\ "AUX" \in huge'.tables BY <1>2, <2>1
  <2> QED BY <1>2, <2>1, <2>2, <2>4, <2>5 DEF HugeInv
<1> QED BY <1>3, <1>4

LEMMA DeletesLoaded ==
  ASSUME IsHugeTable(huge), "AUX" \in huge.tables, HasAux("DAUX") => AuxReadable("DAUX"),
         huge' = huge,
         deletes' = IF HasAux("DAUX") THEN MergedRanges(AuxContent("DAUX")) ELSE <<>>,
         NEW i \in DOMAIN huge.written
  PROVE  Deleted(i)' <=> i \in huge.gone
<1> DEFINE rows == StoredRows(huge, "DAUX")
           Says(r) == \E n \in DOMAIN r : r[n].start > 0 /\ i \in r[n].start .. r[n].start + r[n].count - 1
<1>1. i \in Nat \ {0} BY DEF IsHugeTable
<1>2. ASSUME "DAUX" \notin huge.tables \/ WholeIn(huge, "DAUX") PROVE i \in huge.gone <=> Says(rows)
  BY <1>2 DEF IsHugeTable
<1>3. CASE HasAux("DAUX")
  <2>1. "DAUX" \in huge.tables BY <1>3 DEF HasAux
  <2>2. AuxContent("DAUX") = rows /\ WholeIn(huge, "DAUX") BY <1>3, <2>1, AuxIsStored
  <2>3. PICK r : r = rows OBVIOUS
  <2>4. PICK d : d = deletes' OBVIOUS
  <2>5. IsFiniteSet(DOMAIN r) BY <2>3, StoredIsSeq
  <2>6. \A n \in DOMAIN r : r[n].start \in Int /\ r[n].count \in Int BY <2>3 DEF IsHugeTable
  <2>7. d = MergedRanges(r) BY <1>3, <2>2, <2>3, <2>4
  <2> HIDE DEF rows
  <2>8. LET after == {n \in DOMAIN d : d[n][2] > i}
        IN (after # {} /\ d[Min(after)][1] <= i) <=>
             \E n \in DOMAIN r : r[n].start > 0 /\ i \in r[n].start .. r[n].start + r[n].count - 1
    BY ONLY <1>1, <2>5, <2>6, <2>7, RangesSay
  <2>9. Deleted(i)' <=> Says(r) BY <2>4, <2>8 DEF Deleted
  <2> QED BY <1>2, <2>2, <2>3, <2>9
<1>4. CASE ~HasAux("DAUX")
  <2>1. "DAUX" \notin huge.tables BY <1>4 DEF HasAux
  <2>2. rows = <<>> BY <2>1 DEF StoredRows
  <2>3. ~Says(<<>>) OBVIOUS
  <2>4. deletes' = <<>> BY <1>4
  <2>5. ~Deleted(i)'
    <3>1. {n \in DOMAIN deletes' : deletes'[n][2] > i} = {} BY <2>4
    <3> QED BY <3>1 DEF Deleted
  <2> QED BY <1>2, <2>1, <2>2, <2>3, <2>5
<1> QED BY <1>3, <1>4

LEMMA UpdatesLoaded ==
  ASSUME IsHugeTable(huge), "AUX" \in huge.tables,
         HasAux("UAUX") => AuxReadable("UAUX") /\ UpdatesSound(AuxContent("UAUX"), Columns),
         NEW u, u = IF HasAux("UAUX") THEN UpdatesOf(AuxContent("UAUX")) ELSE <<>>
  PROVE  DOMAIN u = DOMAIN huge.changed /\ \A k \in DOMAIN u : u[k] = huge.changed[k]
<1> DEFINE rows == StoredRows(huge, "UAUX")
<1>1. PICK r : r = rows OBVIOUS
<1>2. ASSUME "UAUX" \notin huge.tables \/ (WholeIn(huge, "UAUX") /\ UpdatesSound(rows, DOMAIN huge.type))
      PROVE  /\ DOMAIN huge.changed = {<<r[n].id, r[n].col>> : n \in DOMAIN r}
             /\ \A n \in DOMAIN r :
                  (\A m \in DOMAIN r : m > n => <<r[m].id, r[m].col>> # <<r[n].id, r[n].col>>)
                    => huge.changed[<<r[n].id, r[n].col>>] = r[n].value
  BY <1>1, <1>2 DEF IsHugeTable
<1>3. CASE HasAux("UAUX")
  <2>1. "UAUX" \in huge.tables BY <1>3 DEF HasAux
  <2>2. AuxContent("UAUX") = rows /\ WholeIn(huge, "UAUX") BY <1>3, <2>1, AuxIsStored
  <2>3. UpdatesSound(rows, DOMAIN huge.type) BY <1>3, <2>2 DEF Columns
  <2>4. /\ DOMAIN huge.changed = {<<r[n].id, r[n].col>> : n \in DOMAIN r}
        /\ \A n \in DOMAIN r :
             (\A m \in DOMAIN r : m > n => <<r[m].id, r[m].col>> # <<r[n].id, r[n].col>>)
               => huge.changed[<<r[n].id, r[n].col>>] = r[n].value
    BY <1>2, <2>2, <2>3
  <2>5. Len(r) \in Nat /\ DOMAIN r = 1 .. Len(r) BY <1>1, StoredIsSeq
  <2>6. u = UpdatesOf(r) BY <1>1, <1>3, <2>2
  <2>7. /\ \A n \in DOMAIN r : <<r[n].id, r[n].col>> \in DOMAIN u
        /\ \A k \in DOMAIN u : \E n \in DOMAIN r :
              /\ k = <<r[n].id, r[n].col>> /\ u[k] = r[n].value
              /\ \A m \in DOMAIN r : m > n => <<r[m].id, r[m].col>> # k
    BY ONLY <2>5, <2>6, LastUpdate
  <2> QED BY <2>4, <2>7
<1>4. CASE ~HasAux("UAUX")
  <2>1. "UAUX" \notin huge.tables BY <1>4 DEF HasAux
  <2>2. r = <<>> BY <1>1, <2>1 DEF StoredRows
  <2>3. DOMAIN huge.changed = {} BY <1>2, <2>1, <2>2
  <2>4. u = <<>> BY <1>4
  <2> QED BY <2>3, <2>4
<1> QED BY <1>3, <1>4

LEMMA DeltaStep == ASSUME HugeInv, LoadDelta PROVE HugeInv'
<1>1. IsHugeTable(huge) BY IsATable
<1>2. /\ huge \in HugeTables /\ RowsUpTo(huge, hugeRows, 0) /\ fullRows = 0 /\ rauxAt = 0
      /\ hugePhase = "delta" /\ "AUX" \in huge.tables /\ auxRows = StoredRows(huge, "AUX")
      /\ AllInRange(auxRows)
      /\ \A k \in FilesWanted(auxRows) : colFiles[k] \in Identified(huge, k[1], k[2])
  BY DEF HugeInv, LoadDelta
<1> DEFINE Unread == \E t \in {"DAUX", "UAUX"} : HasAux(t) /\ ~AuxReadable(t)
           Unsound == HasAux("UAUX") /\ ~UpdatesSound(AuxContent("UAUX"), Columns)
<1>3. CASE Unread
  <2>1. HugeFails BY <1>3 DEF LoadDelta
  <2>2. PICK t \in {"DAUX", "UAUX"} : HasAux(t) /\ ~AuxReadable(t) BY <1>3
  <2>3. t \in huge.tables BY <2>2 DEF HasAux
  <2>4. ~WholeIn(huge, t) BY <1>1, <1>2, <2>2, <2>3, AuxIsStored
  <2>5. ~huge.sound BY <1>1, <2>3, <2>4 DEF IsHugeTable
  <2> QED BY <1>2, <2>1, <2>5, FailStep
<1>4. CASE ~Unread /\ Unsound
  <2>1. HugeFails BY <1>4 DEF LoadDelta
  <2>2. "UAUX" \in huge.tables BY <1>4 DEF HasAux
  <2>3. AuxContent("UAUX") = StoredRows(huge, "UAUX") BY <1>1, <1>2, <2>2, AuxIsStored
  <2>4. ~UpdatesSound(StoredRows(huge, "UAUX"), DOMAIN huge.type) BY <1>4, <2>3 DEF Columns
  <2>5. ~huge.sound BY <1>1, <2>4 DEF IsHugeTable
  <2> QED BY <1>2, <2>1, <2>5, FailStep
<1>5. CASE ~Unread /\ ~Unsound
  <2>1. /\ deletes' = IF HasAux("DAUX") THEN MergedRanges(AuxContent("DAUX")) ELSE <<>>
        /\ updates' = IF HasAux("UAUX") THEN UpdatesOf(AuxContent("UAUX")) ELSE <<>>
        /\ hugePhase' = "check"
        /\ UNCHANGED <<huge, auxRows, colFiles, sectionAt, fullRows, rauxAt, hugeRows>>
    BY <1>5 DEF LoadDelta
  <2>2. \A i \in DOMAIN huge.written : Deleted(i)' <=> i \in huge.gone
    <3>1. HasAux("DAUX") => AuxReadable("DAUX") BY <1>5
    <3>2. deletes' = IF HasAux("DAUX") THEN MergedRanges(AuxContent("DAUX")) ELSE <<>> BY <2>1
    <3>3. huge' = huge BY <2>1
    <3> HIDE DEF Unread, Unsound
    <3> QED BY <1>1, <1>2, <3>1, <3>2, <3>3, DeletesLoaded
  <2>3. PICK u : u = updates' OBVIOUS
  <2>4. DOMAIN u = DOMAIN huge.changed /\ \A k \in DOMAIN u : u[k] = huge.changed[k]
    <3>1. HasAux("UAUX") => AuxReadable("UAUX") /\ UpdatesSound(AuxContent("UAUX"), Columns) BY <1>5
    <3>2. u = IF HasAux("UAUX") THEN UpdatesOf(AuxContent("UAUX")) ELSE <<>> BY <2>1, <2>3
    <3> QED BY <1>1, <1>2, <3>1, <3>2, UpdatesLoaded
  <2>5. DeltaRight' BY <2>1, <2>2, <2>3, <2>4 DEF DeltaRight
  <2>6. RowsUpTo(huge', hugeRows', 0) BY <1>2, <2>1
  <2>7. /\ \A k \in FilesWanted(auxRows') : colFiles'[k] \in Identified(huge', k[1], k[2])
        /\ auxRows' = StoredRows(huge', "AUX") /\ "AUX" \in huge'.tables
    BY <1>2, <2>1
  <2> QED BY <1>2, <2>1, <2>5, <2>6, <2>7 DEF HugeInv
<1> QED BY <1>3, <1>4, <1>5

\* No row is numbered between two sections.
LEMMA NoneBetween ==
  ASSUME NEW w, IsHugeTable(w), NEW aux, aux = StoredRows(w, "AUX"),
         NEW cols, cols = DOMAIN w.type, AllInRange(aux), SectionsAgree(aux, cols),
         NEW sec \in SectionIds(aux), NEW k \in Nat,
         \A s \in SectionIds(aux) : s < sec => s * SectionRows + CountOf(aux, s, cols) <= k
  PROVE  /\ sec * SectionRows \in Nat
         /\ \A i \in DOMAIN w.written : ~(k < i /\ i <= sec * SectionRows)
<1> DEFINE full == LastInSections(w)
           K(s) == CountOf(aux, s, cols)
<1>1. \A s \in SectionIds(aux) : s \in Nat /\ K(s) \in 1 .. SectionRows BY SectionFacts
<1>2. /\ \A i \in DOMAIN w.written : i \in Nat /\ (i <= full => \E s \in SectionIds(aux) :
             \E n \in 1 .. K(s) : i = s * SectionRows + n)
      /\ \A n \in 1 .. K(sec) : sec * SectionRows + n <= full
      /\ full \in Nat
  BY SectionsCount
<1> HIDE DEF full, K
<1>3. sec * SectionRows \in Nat BY <1>1, HugeAssumption
<1>4. ASSUME NEW i \in DOMAIN w.written, k < i, i <= sec * SectionRows PROVE FALSE
  <2>1. sec * SectionRows + 1 <= full BY <1>1, <1>2
  <2>2. i <= full BY <1>2, <1>3, <1>4, <2>1
  <2>3. PICK s \in SectionIds(aux) : \E n \in 1 .. K(s) : i = s * SectionRows + n BY <1>2, <2>2
  <2>4. PICK n \in 1 .. K(s) : i = s * SectionRows + n BY <2>3
  <2>5. s \in Nat /\ sec \in Nat /\ n \in Nat \ {0} /\ n <= K(s) /\ K(s) \in Nat BY <1>1, <2>4
  <2>6. CASE s < sec
    <3>1. s * SectionRows + K(s) <= k BY <2>6 DEF K
    <3>2. s * SectionRows \in Nat BY <2>5, <2>6, SectionsApart
    <3> DEFINE b == s * SectionRows
    <3> HIDE DEF b
    <3>3. b + K(s) <= k /\ b \in Nat /\ i = b + n BY <2>4, <3>1, <3>2 DEF b
    <3> QED BY <1>4, <2>5, <3>3
  <2>7. CASE s = sec
    <3> DEFINE b == sec * SectionRows
    <3>1. b \in Nat /\ i = b + n /\ i <= b BY <1>3, <1>4, <2>4, <2>7
    <3> HIDE DEF b
    <3> QED BY <2>5, <3>1
  <2>8. CASE sec < s
    <3>1. sec * SectionRows + SectionRows <= s * SectionRows /\ s * SectionRows \in Nat
      BY <2>5, <2>8, SectionsApart
    <3> DEFINE a == sec * SectionRows
               b == s * SectionRows
    <3>2. a \in Nat /\ b \in Nat /\ a + SectionRows <= b /\ i = b + n /\ i <= a
      BY <1>3, <1>4, <2>4, <3>1
    <3> HIDE DEF a, b
    <3> QED BY <2>5, <3>2, HugeAssumption
  <2> QED BY <2>5, <2>6, <2>7, <2>8
<1> QED BY <1>3, <1>4

LEMMA CheckStep == ASSUME HugeInv, CheckSections PROVE HugeInv'
<1>1. IsHugeTable(huge) BY IsATable
<1>2. /\ huge \in HugeTables /\ RowsUpTo(huge, hugeRows, 0) /\ fullRows = 0 /\ rauxAt = 0
      /\ hugePhase = "check" /\ "AUX" \in huge.tables /\ auxRows = StoredRows(huge, "AUX")
      /\ AllInRange(auxRows)
      /\ \A k \in FilesWanted(auxRows) : colFiles[k] \in Identified(huge, k[1], k[2])
      /\ DeltaRight
  BY DEF HugeInv, CheckSections
<1>3. CASE ~SectionsAgree(auxRows, Columns)
  <2>1. HugeFails BY <1>3 DEF CheckSections
  <2>2. ~huge.sound BY <1>1, <1>2, <1>3 DEF IsHugeTable, Columns
  <2> QED BY <1>2, <2>1, <2>2, FailStep
<1>4. CASE SectionsAgree(auxRows, Columns)
  <2> DEFINE ids == SectionIds(auxRows)
             next == Min(ids)
  <2>1. /\ hugePhase' = IF ids = {} THEN "raux" ELSE "rows"
        /\ sectionAt' = IF ids = {} THEN sectionAt ELSE <<next, 0>>
        /\ UNCHANGED <<huge, auxRows, colFiles, deletes, updates, fullRows, rauxAt, hugeRows>>
    BY <1>4 DEF CheckSections
  <2>2. /\ \A k \in FilesWanted(auxRows') : colFiles'[k] \in Identified(huge', k[1], k[2])
        /\ auxRows' = StoredRows(huge', "AUX") /\ "AUX" \in huge'.tables
        /\ SectionsAgree(auxRows', Columns')
    BY <1>2, <1>4, <2>1 DEF Columns
  <2>3. DeltaRight' BY <1>2, <2>1 DEF DeltaRight, Deleted
  <2>4. CASE ids = {}
    <3>1. LastInSections(huge) = 0
      <4>1. InSections(huge) = {} BY <1>2, <2>4 DEF InSections
      <4> QED BY <4>1 DEF LastInSections
    <3>2. Len(StoredRows(huge, "RAUX")) \in Nat BY <1>1, StoredIsSeq
    <3>3. /\ fullRows' = LastInSections(huge') /\ rauxAt' \in 0 .. Len(StoredRows(huge', "RAUX"))
          /\ RowsUpTo(huge', hugeRows', fullRows' + rauxAt')
      BY <1>2, <2>1, <3>1, <3>2
    <3> QED BY <1>2, <2>1, <2>2, <2>3, <2>4, <3>3 DEF HugeInv
  <2>5. CASE ids # {}
    <3>1. PICK cols : cols = Columns OBVIOUS
    <3>2. \A s \in ids : s \in Nat /\ CountOf(auxRows, s, cols) \in 1 .. SectionRows
      BY <1>1, <1>2, <1>4, <3>1, SectionFacts DEF Columns
    <3>3. next \in ids /\ \A s \in ids : next <= s
      <4>1. ids \in SUBSET Nat BY <3>2
      <4> HIDE DEF ids
      <4> QED BY <2>5, <4>1, LeastOf
    <3>4. PICK sec : sec = next OBVIOUS
    <3>5. \A s \in ids : s < sec => s * SectionRows + CountOf(auxRows, s, cols) <= 0
      <4>1. ASSUME NEW s \in ids PROVE ~(s < sec)
        <5>1. sec \in Nat /\ s \in Nat /\ sec <= s BY <3>2, <3>3, <3>4
        <5> QED BY ONLY <5>1
      <4> QED BY <4>1
    <3>6. /\ sec * SectionRows \in Nat
          /\ \A i \in DOMAIN huge.written : ~(0 < i /\ i <= sec * SectionRows)
      BY <1>1, <1>2, <1>4, <3>1, <3>3, <3>4, <3>5, NoneBetween DEF Columns
    <3>7. RowsUpTo(huge, hugeRows, sec * SectionRows) BY <1>1, <1>2, <3>6, UpToMore
    <3>8. sectionAt' = <<sec, 0>> /\ hugePhase' = "rows" /\ sec \in SectionIds(auxRows')
      BY <2>1, <2>5, <3>3, <3>4
    <3>9. 0 \in 0 .. CountOf(auxRows', sec, Columns') - 1
      BY <2>1, <3>1, <3>2, <3>3, <3>4 DEF Columns
    <3>10. RowsUpTo(huge', hugeRows', sec * SectionRows + 0) BY <2>1, <3>6, <3>7
    <3>11. fullRows' \in 0 .. sec * SectionRows /\ rauxAt' = 0 BY <1>2, <2>1, <3>6
    <3>12. sectionAt'[1] = sec /\ sectionAt'[2] = 0 BY <3>8
    <3> QED BY <1>2, <2>1, <2>2, <2>3, <3>8, <3>9, <3>10, <3>11, <3>12 DEF HugeInv
  <2> QED BY <2>4, <2>5
<1> QED BY <1>3, <1>4

\* What is read of a row of a section
LEMMA PartsTell ==
  ASSUME IsHugeTable(huge), auxRows = StoredRows(huge, "AUX"),
         AllInRange(auxRows), SectionsAgree(auxRows, Columns),
         \A k \in FilesWanted(auxRows) : colFiles[k] \in Identified(huge, k[1], k[2]),
         NEW sec \in SectionIds(auxRows), NEW c \in Columns,
         NEW n \in 1 .. CountOf(auxRows, sec, Columns),
         NEW a, a = SectionOf(auxRows, sec, c)[1], NEW s, s = StoredSection(c, a)
  PROVE  LET cell == ReadCell(s, huge.type[c], n)
         IN /\ SectionOpens(s, a, huge.type[c]) =>
                 cell = <<>> \/ cell = <<huge.written[sec * SectionRows + n][c]>>
            /\ huge.sound => SectionOpens(s, a, huge.type[c]) /\ cell # <<>>
<1> DEFINE v == [m \in 1 .. a.count |-> huge.written[sec * SectionRows + m][c]]
<1>1. /\ a.count = CountOf(auxRows, sec, Columns) /\ a.section = sec
      /\ <<c, a.file>> \in FilesWanted(auxRows) /\ a.count \in 1 .. SectionRows
  BY SectionFacts DEF Columns
<1> DEFINE d == colFiles[<<c, a.file>>]
<1>2. d \in Identified(huge, c, a.file) BY <1>1
<1>3. s = HfsFile(huge, d, c, a.file).sections[sec] BY <1>1 DEF StoredSection
<1> HIDE DEF d
<1>4. SectionTells(s, a, huge.type[c], v) /\ (huge.sound => SectionStored(s, a, huge.type[c], v))
  <2>1. SectionsTell(huge, auxRows) BY DEF IsHugeTable, Columns
  <2>2. \A e \in Identified(huge, c, a.file) :
          /\ SectionTells(HfsFile(huge, e, c, a.file).sections[sec], a, huge.type[c], v)
          /\ huge.sound => SectionStored(HfsFile(huge, e, c, a.file).sections[sec], a, huge.type[c], v)
    BY <2>1 DEF SectionsTell, Columns
  <2> QED BY <1>2, <1>3, <2>2
<1>5. v[n] = huge.written[sec * SectionRows + n][c] BY <1>1
<1> HIDE DEF v
<1>6. SectionOpens(s, a, huge.type[c]) => ReadCell(s, huge.type[c], n) \in {<<>>, Cell(v[n])}
  BY <1>1, <1>4 DEF SectionTells
<1>7. ASSUME huge.sound
      PROVE  SectionOpens(s, a, huge.type[c]) /\ ReadCell(s, huge.type[c], n) = Cell(v[n])
  <2>1. a.count \in Nat \ {0} BY <1>1, HugeAssumption
  <2> QED BY <1>1, <1>4, <1>7, <2>1, SectionIsRead
<1> QED BY <1>5, <1>6, <1>7 DEF Cell

LEMMA RowStep == ASSUME HugeInv, ReadHugeRow PROVE HugeInv'
<1>1. IsHugeTable(huge) BY IsATable
<1> DEFINE at1 == sectionAt[1]
           at2 == sectionAt[2]
<1>2. PICK sec : sec = sectionAt[1] OBVIOUS
<1>3. PICK n : n = sectionAt[2] + 1 OBVIOUS
<1>4. PICK cols : cols = Columns OBVIOUS
<1>5. PICK K : K = CountOf(auxRows, sec, cols) OBVIOUS
<1>6. PICK b : b = sec * SectionRows OBVIOUS
<1>7. /\ huge \in HugeTables /\ hugePhase = "rows"
      /\ "AUX" \in huge.tables /\ auxRows = StoredRows(huge, "AUX")
      /\ AllInRange(auxRows)
      /\ \A k \in FilesWanted(auxRows) : colFiles[k] \in Identified(huge, k[1], k[2])
      /\ DeltaRight /\ SectionsAgree(auxRows, cols) /\ sec \in SectionIds(auxRows)
      /\ sectionAt[2] \in 0 .. K - 1 /\ fullRows \in 0 .. b /\ rauxAt = 0
      /\ RowsUpTo(huge, hugeRows, b + sectionAt[2])
  BY <1>2, <1>4, <1>5, <1>6 DEF HugeInv, ReadHugeRow
<1>8. \A s \in SectionIds(auxRows) : s \in Nat /\ CountOf(auxRows, s, cols) \in 1 .. SectionRows
  BY <1>1, <1>4, <1>7, SectionFacts DEF Columns
<1>9. sec \in Nat /\ K \in 1 .. SectionRows /\ b \in Nat /\ SectionRows \in Nat \ {0}
  BY <1>5, <1>6, <1>7, <1>8, HugeAssumption
<1>10. n \in 1 .. K /\ b + sectionAt[2] = b + n - 1 /\ n \in Nat \ {0}
  BY <1>3, <1>7, <1>9
<1>11. PICK id : id = b + n OBVIOUS
<1>12. /\ id \in DOMAIN huge.written /\ id <= LastInSections(huge) /\ LastInSections(huge) \in Nat
       /\ LastInSections(huge) # 0 => \E s \in SectionIds(auxRows) :
            LastInSections(huge) = s * SectionRows + CountOf(auxRows, s, cols)
  BY <1>1, <1>4, <1>5, <1>6, <1>7, <1>10, <1>11, SectionsCount DEF Columns
<1> DEFINE aux(c) == SectionOf(auxRows, sec, c)[1]
           part(c) == StoredSection(c, aux(c))
           cells == [c \in Columns |-> ReadCell(part(c), huge.type[c], n)]
           values == [c \in Columns |-> cells[c][1]]
           rows == WithRow(id, values)
           later == {s \in SectionIds(auxRows) : s > sec}
           ends == n = K
           Shut == \E c \in Columns : ~SectionOpens(part(c), aux(c), huge.type[c])
           Unread == \E c \in Columns : cells[c] = <<>>
<1>13. IF Shut \/ Unread THEN HugeFails
       ELSE /\ hugeRows' = rows
            /\ sectionAt' = IF ~ends THEN <<sec, n>>
                            ELSE IF later = {} THEN sectionAt ELSE <<Min(later), 0>>
            /\ fullRows' = Max({fullRows, IF ends THEN id ELSE 0})
            /\ hugePhase' = IF HugeLimit(rows) THEN "done"
                            ELSE IF ~ends \/ later # {} THEN "rows" ELSE "raux"
            /\ UNCHANGED <<huge, auxRows, colFiles, deletes, updates, rauxAt>>
  BY <1>2, <1>3, <1>4, <1>5, <1>6, <1>11 DEF ReadHugeRow
<1>14. \A c \in Columns :
         /\ SectionOpens(part(c), aux(c), huge.type[c]) =>
              cells[c] = <<>> \/ cells[c] = <<huge.written[id][c]>>
         /\ huge.sound => SectionOpens(part(c), aux(c), huge.type[c]) /\ cells[c] # <<>>
  <2>1. ASSUME NEW c \in Columns
        PROVE  /\ SectionOpens(part(c), aux(c), huge.type[c]) =>
                    cells[c] = <<>> \/ cells[c] = <<huge.written[id][c]>>
               /\ huge.sound => SectionOpens(part(c), aux(c), huge.type[c]) /\ cells[c] # <<>>
    <3>1. PICK a : a = aux(c) OBVIOUS
    <3>2. PICK s : s = StoredSection(c, a) OBVIOUS
    <3>3. n \in 1 .. CountOf(auxRows, sec, Columns) BY <1>4, <1>5, <1>10
    <3>4. SectionsAgree(auxRows, Columns) BY <1>4, <1>7
    <3>5. LET cell == ReadCell(s, huge.type[c], n)
          IN /\ SectionOpens(s, a, huge.type[c]) =>
                  cell = <<>> \/ cell = <<huge.written[sec * SectionRows + n][c]>>
             /\ huge.sound => SectionOpens(s, a, huge.type[c]) /\ cell # <<>>
      BY <1>1, <1>7, <3>1, <3>2, <3>3, <3>4, PartsTell
    <3>6. cells[c] = ReadCell(s, huge.type[c], n) BY <3>1, <3>2
    <3>7. id = sec * SectionRows + n BY <1>6, <1>11
    <3> HIDE DEF cells
    <3> QED BY <3>1, <3>2, <3>5, <3>6, <3>7
  <2> QED BY <2>1
<1>15. b + sectionAt[2] \in Nat /\ b + sectionAt[2] = id - 1 /\ id \in Nat
  BY <1>7, <1>9, <1>10, <1>11
<1>16. CASE Shut \/ Unread
  <2>1. ~huge.sound BY <1>14, <1>16
  <2> HIDE DEF Shut, Unread
  <2> QED BY <1>7, <1>13, <1>15, <1>16, <2>1, FailStep
<1>17. CASE ~(Shut \/ Unread)
  <2>1. \A c \in Columns : values[c] = huge.written[id][c]
    <3>1. ASSUME NEW c \in Columns PROVE cells[c][1] = huge.written[id][c]
      <4>1. cells[c] = <<huge.written[id][c]>> BY <1>14, <1>17
      <4> QED BY <4>1
    <3> HIDE DEF cells
    <3> QED BY <3>1
  <2> HIDE DEF Shut, Unread, values
  <2>2. RowsUpTo(huge, rows, id)
    <3>1. RowsUpTo(huge, hugeRows, id - 1) BY <1>7, <1>15
    <3> QED BY <1>1, <1>7, <1>12, <2>1, <3>1, UpToNext
  <2>3. PICK new : new = rows OBVIOUS
  <2> HIDE DEF rows
  <2>4. /\ hugeRows' = new
        /\ sectionAt' = IF ~ends THEN <<sec, n>>
                        ELSE IF later = {} THEN sectionAt ELSE <<Min(later), 0>>
        /\ fullRows' = Max({fullRows, IF ends THEN id ELSE 0})
        /\ hugePhase' = IF HugeLimit(new) THEN "done"
                        ELSE IF ~ends \/ later # {} THEN "rows" ELSE "raux"
        /\ UNCHANGED <<huge, auxRows, colFiles, deletes, updates, rauxAt>>
    BY <1>13, <1>17, <2>3
  <2>5. /\ \A k \in FilesWanted(auxRows') : colFiles'[k] \in Identified(huge', k[1], k[2])
        /\ auxRows' = StoredRows(huge', "AUX") /\ "AUX" \in huge'.tables
        /\ AllInRange(auxRows') /\ SectionsAgree(auxRows', Columns')
        /\ huge' \in HugeTables /\ rauxAt' = 0 /\ Columns' = cols
    BY <1>4, <1>7, <2>4 DEF Columns
  <2>6. DeltaRight' BY <1>7, <2>4 DEF DeltaRight, Deleted
  <2>7. RowsUpTo(huge, new, id) BY <2>2, <2>3
  <2>8. fullRows \in Nat /\ fullRows < id /\ fullRows' = IF ends THEN id ELSE fullRows
    <3>1. fullRows \in Nat /\ fullRows < id BY <1>7, <1>9, <1>10, <1>11
    <3>2. fullRows \in Int /\ id \in Int /\ 0 \in Int BY <1>15, <3>1
    <3>3. Max({fullRows, id}) = (IF fullRows >= id THEN fullRows ELSE id)
          /\ Max({fullRows, 0}) = (IF fullRows >= 0 THEN fullRows ELSE 0)
      BY <3>2, GreaterOf
    <3> QED BY <2>4, <3>1, <3>2, <3>3
  <2>9. CASE HugeLimit(new)
    <3>1. hugePhase' = "done" /\ HugeLimit(hugeRows)' BY <2>4, <2>9 DEF HugeLimit
    <3>2. \E k \in Nat : RowsUpTo(huge', hugeRows', k) BY <1>15, <2>4, <2>7
    <3> QED BY <2>5, <3>1, <3>2 DEF HugeInv
  <2>10. CASE ~HugeLimit(new) /\ ~ends
    <3>1. hugePhase' = "rows" /\ sectionAt' = <<sec, n>> BY <2>4, <2>10
    <3>2. sectionAt'[1] = sec /\ sectionAt'[2] = n BY <3>1
    <3>3. n \in 0 .. CountOf(auxRows', sec, Columns') - 1 /\ sec \in SectionIds(auxRows')
      BY <1>5, <1>7, <1>9, <1>10, <2>4, <2>5, <2>10
    <3>4. fullRows' \in 0 .. sec * SectionRows BY <1>6, <1>7, <2>8, <2>10
    <3>5. RowsUpTo(huge', hugeRows', sec * SectionRows + n) BY <1>6, <1>11, <2>4, <2>7
    <3> QED BY <2>5, <2>6, <3>1, <3>2, <3>3, <3>4, <3>5 DEF HugeInv
  <2>11. CASE ~HugeLimit(new) /\ ends /\ later # {}
    <3>1. later \in SUBSET Nat BY <1>8
    <3> DEFINE next == Min(later)
    <3>2. next \in later /\ \A s \in later : next <= s
      <4> HIDE DEF later
      <4> QED BY <2>11, <3>1, LeastOf
    <3>3. PICK nx : nx = next OBVIOUS
    <3>4. nx \in SectionIds(auxRows) /\ nx > sec /\ nx \in Nat BY <1>8, <3>2, <3>3
    <3>5. hugePhase' = "rows" /\ sectionAt' = <<nx, 0>> BY <2>4, <2>11, <3>3
    <3>6. id = b + K BY <1>11, <2>11
    <3>7. ASSUME NEW s \in SectionIds(auxRows), s < nx
          PROVE  s * SectionRows + CountOf(auxRows, s, cols) <= id
      <4>1. s \in Nat /\ CountOf(auxRows, s, cols) \in 1 .. SectionRows BY <1>8
      <4>2. ~(s > sec)
        <5>1. ASSUME s > sec PROVE FALSE
          <6>1. s \in later BY <5>1
          <6>2. nx <= s BY <3>2, <3>3, <6>1
          <6> QED BY <3>4, <3>7, <4>1, <6>2
        <5> QED BY <5>1
      <4>3. CASE s = sec BY <1>5, <1>6, <1>15, <3>6, <4>3
      <4>4. CASE s < sec
        <5>1. s * SectionRows + SectionRows <= sec * SectionRows /\ s * SectionRows \in Nat
          BY <1>9, <4>1, <4>4, SectionsApart
        <5> DEFINE x == s * SectionRows
                   y == CountOf(auxRows, s, cols)
        <5>2. x \in Nat /\ y \in Nat /\ y <= SectionRows /\ x + SectionRows <= b
          BY <1>6, <4>1, <5>1
        <5> HIDE DEF x, y
        <5>3. x + y <= id BY <1>9, <3>6, <5>2
        <5> QED BY <5>3 DEF x, y
      <4> QED BY <1>9, <4>1, <4>2, <4>3, <4>4
    <3>8. /\ nx * SectionRows \in Nat
          /\ \A i \in DOMAIN huge.written : ~(id < i /\ i <= nx * SectionRows)
      BY <1>1, <1>4, <1>7, <1>15, <3>4, <3>7, NoneBetween DEF Columns
    <3>9. id <= nx * SectionRows
      <4>1. sec * SectionRows + SectionRows <= nx * SectionRows BY <1>9, <3>4, SectionsApart
      <4> DEFINE x == nx * SectionRows
      <4>2. b + SectionRows <= x /\ x \in Nat BY <1>6, <3>8, <4>1
      <4> HIDE DEF x
      <4>3. id <= x BY <1>9, <3>6, <4>2
      <4> QED BY <4>3 DEF x
    <3>10. RowsUpTo(huge, new, nx * SectionRows) BY <1>1, <1>15, <2>7, <3>8, <3>9, UpToMore
    <3>11. RowsUpTo(huge', hugeRows', nx * SectionRows + 0) BY <2>4, <3>8, <3>10
    <3>12. sectionAt'[1] = nx /\ sectionAt'[2] = 0 BY <3>5
    <3>13. 0 \in 0 .. CountOf(auxRows', nx, Columns') - 1 /\ nx \in SectionIds(auxRows')
      BY <1>8, <2>4, <2>5, <3>4
    <3>14. fullRows' \in 0 .. nx * SectionRows BY <1>15, <2>8, <2>11, <3>8, <3>9
    <3> QED BY <2>5, <2>6, <3>5, <3>11, <3>12, <3>13, <3>14 DEF HugeInv
  <2>12. CASE ~HugeLimit(new) /\ ends /\ later = {}
    <3>1. hugePhase' = "raux" BY <2>4, <2>12
    <3>2. id = b + K /\ fullRows' = id BY <1>11, <2>8, <2>12
    <3>3. LastInSections(huge) = id
      <4>1. PICK s \in SectionIds(auxRows) :
              LastInSections(huge) = s * SectionRows + CountOf(auxRows, s, cols)
        BY <1>9, <1>10, <1>11, <1>12
      <4>2. s \in Nat /\ CountOf(auxRows, s, cols) \in 1 .. SectionRows /\ ~(s > sec)
        BY <1>8, <2>12
      <4>3. CASE s = sec BY <1>5, <1>6, <3>2, <4>1, <4>3
      <4>4. CASE s < sec
        <5>1. s * SectionRows + SectionRows <= sec * SectionRows /\ s * SectionRows \in Nat
          BY <1>9, <4>2, <4>4, SectionsApart
        <5> DEFINE x == s * SectionRows
                   y == CountOf(auxRows, s, cols)
        <5>2. x \in Nat /\ y \in Nat /\ y <= SectionRows /\ x + SectionRows <= b
              /\ LastInSections(huge) = x + y
          BY <1>6, <4>1, <4>2, <5>1
        <5> HIDE DEF x, y
        <5> QED BY <1>9, <1>12, <3>2, <5>2
      <4> QED BY <1>9, <4>2, <4>3, <4>4
    <3>4. Len(StoredRows(huge, "RAUX")) \in Nat BY <1>1, StoredIsSeq
    <3>5. /\ fullRows' = LastInSections(huge') /\ rauxAt' \in 0 .. Len(StoredRows(huge', "RAUX"))
          /\ RowsUpTo(huge', hugeRows', fullRows' + rauxAt')
      BY <1>7, <1>15, <2>4, <2>7, <3>2, <3>3, <3>4
    <3> QED BY <2>5, <2>6, <3>1, <3>5 DEF HugeInv
  <2> QED BY <2>9, <2>10, <2>11, <2>12
<1> QED BY <1>16, <1>17

LEMMA RauxStep == ASSUME HugeInv, ReadRaux PROVE HugeInv'
<1>1. IsHugeTable(huge) BY IsATable
<1>2. PICK full : full = fullRows OBVIOUS
<1>3. PICK r : r = StoredRows(huge, "RAUX") OBVIOUS
<1>4. PICK n : n = rauxAt + 1 OBVIOUS
<1>5. /\ huge \in HugeTables /\ hugePhase = "raux"
      /\ "AUX" \in huge.tables /\ auxRows = StoredRows(huge, "AUX")
      /\ AllInRange(auxRows)
      /\ \A k \in FilesWanted(auxRows) : colFiles[k] \in Identified(huge, k[1], k[2])
      /\ DeltaRight /\ SectionsAgree(auxRows, Columns)
      /\ full = LastInSections(huge) /\ rauxAt \in 0 .. Len(r)
      /\ RowsUpTo(huge, hugeRows, full + rauxAt)
  BY <1>2, <1>3 DEF HugeInv, ReadRaux
<1>6. full \in Nat BY <1>1, <1>5, SectionsCount DEF Columns
<1>7. Len(r) \in Nat /\ DOMAIN r = 1 .. Len(r) BY <1>1, <1>3, StoredIsSeq
<1>8. /\ \A m \in 1 .. Len(r) : full + m \in DOMAIN huge.written
      /\ \A m \in DOMAIN r : /\ r[m].values = huge.written[full + m]
                             /\ r[m].id = full + m \/ ((m <= full \/ full = 0) /\ r[m].id \in {0, m})
      /\ "RAUX" \notin huge.tables \/ WholeIn(huge, "RAUX") =>
           \A i \in DOMAIN huge.written : i <= full + Len(r)
  <2>1. /\ full + 1 .. full + Len(r) \subseteq DOMAIN huge.written
        /\ "RAUX" \notin huge.tables \/ WholeIn(huge, "RAUX") =>
             {i \in DOMAIN huge.written : i > full} = full + 1 .. full + Len(r)
        /\ \A m \in DOMAIN r :
             /\ r[m].values = huge.written[full + m]
             /\ r[m].id \in {full + m} \cup IF m <= full \/ full = 0 THEN {0, m} ELSE {}
    BY <1>1, <1>3, <1>5 DEF IsHugeTable, Columns
  <2>2. \A m \in 1 .. Len(r) : full + m \in DOMAIN huge.written BY <1>6, <1>7, <2>1
  <2>3. ASSUME "RAUX" \notin huge.tables \/ WholeIn(huge, "RAUX"), NEW i \in DOMAIN huge.written
        PROVE  i <= full + Len(r)
    <3>1. i \in Nat BY <1>1 DEF IsHugeTable
    <3>2. i > full => i \in full + 1 .. full + Len(r) BY <2>1, <2>3
    <3> QED BY <1>6, <1>7, <3>1, <3>2
  <2> QED BY <2>1, <2>2, <2>3
<1>9. "RAUX" \in huge.tables => AuxContent("RAUX") = r /\ (AuxReadable("RAUX") <=> WholeIn(huge, "RAUX"))
  BY <1>1, <1>3, <1>5, AuxIsStored
<1> DEFINE content == AuxContent("RAUX")
           row == content[n]
           rows == WithRow(RauxId(row, n), row.values)
           Over == ~HasAux("RAUX") \/ (AuxReadable("RAUX") /\ n > Len(content))
           Broken == n > Len(content)
<1>10. CASE Over
  <2>1. hugePhase' = "done" /\ UNCHANGED <<huge, auxRows, colFiles, deletes, updates, sectionAt,
          fullRows, rauxAt, hugeRows>>
    BY <1>4, <1>10 DEF ReadRaux
  <2>2. full + rauxAt \in Nat /\ rauxAt \in Nat BY <1>5, <1>6, <1>7
  <2>3. \A i \in DOMAIN huge.written : i <= full + rauxAt
    <3>1. CASE ~HasAux("RAUX")
      <4>1. "RAUX" \notin huge.tables BY <3>1 DEF HasAux
      <4>2. r = <<>> BY <1>3, <4>1 DEF StoredRows
      <4>3. rauxAt = Len(r) BY <1>5, <4>2
      <4> QED BY <1>8, <4>1, <4>3
    <3>2. CASE HasAux("RAUX")
      <4>1. "RAUX" \in huge.tables BY <3>2 DEF HasAux
      <4>2. WholeIn(huge, "RAUX") /\ n > Len(r) BY <1>9, <1>10, <3>2, <4>1
      <4>3. rauxAt = Len(r)
        <5>1. rauxAt <= Len(r) /\ rauxAt + 1 > Len(r) /\ Len(r) \in Nat BY <1>4, <1>5, <1>7, <4>2
        <5> QED BY ONLY <2>2, <5>1
      <4> QED BY <1>8, <4>2, <4>3
    <3> QED BY <3>1, <3>2
  <2>4. hugeRows = huge.live BY <1>1, <1>5, <2>2, <2>3, UpToAll
  <2>5. hugeRows' = huge'.live /\ \E k \in Nat : RowsUpTo(huge', hugeRows', k)
    BY <1>5, <2>1, <2>2, <2>4
  <2> QED BY <1>5, <2>1, <2>5 DEF HugeInv
<1>11. CASE ~Over /\ Broken
  <2>1. HugeFails BY <1>4, <1>11 DEF ReadRaux
  <2>2. "RAUX" \in huge.tables /\ ~WholeIn(huge, "RAUX") BY <1>9, <1>11 DEF HasAux
  <2>3. ~huge.sound BY <1>1, <2>2 DEF IsHugeTable
  <2>4. full + rauxAt \in Nat BY <1>5, <1>6, <1>7
  <2> QED BY <1>5, <2>1, <2>3, <2>4, FailStep
<1>12. CASE ~Over /\ ~Broken
  <2>1. /\ rauxAt' = n /\ hugeRows' = rows
        /\ hugePhase' = IF HugeLimit(rows) THEN "done" ELSE "raux"
        /\ UNCHANGED <<huge, auxRows, colFiles, deletes, updates, sectionAt, fullRows>>
    BY <1>4, <1>12 DEF ReadRaux
  <2>2. content = r BY <1>9, <1>12 DEF HasAux
  <2>3. n \in 1 .. Len(r) /\ n \in Nat \ {0} BY <1>4, <1>5, <1>7, <1>12, <2>2
  <2>4. /\ full + n \in DOMAIN huge.written /\ row.values = huge.written[full + n]
        /\ row.id = full + n \/ ((n <= full \/ full = 0) /\ row.id \in {0, n})
    BY <1>7, <1>8, <2>2, <2>3
  <2>5. RauxId(row, n) = full + n
    <3> DEFINE own == IF row.id = 0 THEN n ELSE row.id
    <3>1. RauxId(row, n) = IF own <= full THEN full + own ELSE own BY <1>2 DEF RauxId
    <3> HIDE DEF row
    <3> QED BY <1>6, <2>3, <2>4, <3>1
  <2>6. PICK id : id = full + n OBVIOUS
  <2>7. RowsUpTo(huge, rows, id)
    <3>1. PICK values : values = row.values OBVIOUS
    <3>2. full + rauxAt = id - 1 BY <1>4, <1>5, <1>6, <1>7, <2>6
    <3>3. RowsUpTo(huge, hugeRows, id - 1) BY <1>5, <3>2
    <3>4. \A c \in Columns : values[c] = huge.written[id][c] BY <2>4, <2>6, <3>1
    <3>5. id \in DOMAIN huge.written BY <2>4, <2>6
    <3>6. RowsUpTo(huge, WithRow(id, values), id) BY <1>1, <1>5, <3>3, <3>4, <3>5, UpToNext
    <3> QED BY <2>5, <2>6, <3>1, <3>6
  <2>8. PICK new : new = rows OBVIOUS
  <2> HIDE DEF rows
  <2>9. id \in Nat /\ id = fullRows' + rauxAt' BY <1>2, <1>6, <2>1, <2>3, <2>6
  <2>10. RowsUpTo(huge', hugeRows', id) BY <2>1, <2>7
  <2>11. /\ \A k \in FilesWanted(auxRows') : colFiles'[k] \in Identified(huge', k[1], k[2])
         /\ auxRows' = StoredRows(huge', "AUX") /\ "AUX" \in huge'.tables
         /\ AllInRange(auxRows') /\ SectionsAgree(auxRows', Columns') /\ huge' \in HugeTables
         /\ fullRows' = LastInSections(huge')
    BY <1>2, <1>5, <2>1 DEF Columns
  <2>15. rauxAt' \in 0 .. Len(StoredRows(huge', "RAUX"))
    <3>1. n \in 0 .. Len(r) BY <1>7, <2>3
    <3> QED BY <1>3, <2>1, <3>1
  <2>12. DeltaRight' BY <1>5, <2>1 DEF DeltaRight, Deleted
  <2>13. CASE HugeLimit(new)
    <3>1. hugePhase' = "done" /\ HugeLimit(hugeRows)' BY <2>1, <2>8, <2>13 DEF HugeLimit
    <3> QED BY <2>9, <2>10, <2>11, <3>1 DEF HugeInv
  <2>14. CASE ~HugeLimit(new)
    <3>1. hugePhase' = "raux" BY <2>1, <2>8, <2>14
    <3> QED BY <2>9, <2>10, <2>11, <2>12, <2>15, <3>1 DEF HugeInv
  <2> QED BY <2>13, <2>14
<1> QED BY <1>10, <1>11, <1>12

LEMMA HugeStays == HugeInv /\ [HugeNext]_hugeVars => HugeInv'
<1> SUFFICES ASSUME HugeInv, [HugeNext]_hugeVars PROVE HugeInv' OBVIOUS
<1>1. CASE UNCHANGED hugeVars
  BY <1>1 DEF HugeInv, hugeVars, DeltaRight, Deleted, Columns, HugeLimit
<1>2. CASE HugeNext
  BY <1>2, LoadSectionsStep, ResolveStep, DeltaStep, CheckStep, RowStep, RauxStep DEF HugeNext
<1> QED BY <1>1, <1>2

LEMMA HugeRowsAre == HugeInv => HugeRowsExact
<1> SUFFICES ASSUME HugeInv PROVE HugeRowsExact OBVIOUS
<1>1. IsHugeTable(huge) BY IsATable
<1>2. \E k : RowsUpTo(huge, hugeRows, k) BY DEF HugeInv
<1>3. IsPrefix(hugeRows, huge.live) BY <1>1, <1>2, UpToPrefix
<1> QED BY <1>3 DEF HugeInv, HugeRowsExact

THEOREM HugeRowsAreExact == HugeSpec => []HugeRowsExact
<1>1. HugeSpec => []HugeInv BY HugeStarts, HugeStays, PTL DEF HugeSpec
<1> QED BY <1>1, HugeRowsAre, PTL

\* What the invariant above leaves open: how far the export is stays a number
\* in every phase, and the files of the columns are those of the sections.
HugePlaces ==
  /\ sectionAt \in Nat \X Nat /\ fullRows \in Nat /\ rauxAt \in Nat
  /\ DOMAIN colFiles \subseteq FilesWanted(auxRows)
  /\ hugePhase = "sections" => DOMAIN colFiles = {}

\* A row of a section that is read, or the last of it
LEMMA RowPlaces == ASSUME HugeInv, HugePlaces, ReadHugeRow PROVE HugePlaces'
<1>1. CASE HugeFails BY <1>1 DEF HugeFails, HugePlaces
<1>2. CASE ~HugeFails
  <2>1. PICK sec, n, K : sec = sectionAt[1] /\ n = sectionAt[2] + 1
                         /\ K = CountOf(auxRows, sec, Columns)
    OBVIOUS
  <2> DEFINE later == {s \in SectionIds(auxRows) : s > sec}
             id == sec * SectionRows + n
  <2>2. /\ UNCHANGED <<huge, auxRows, colFiles, rauxAt>> /\ hugePhase = "rows"
        /\ sectionAt' = IF n # K THEN <<sec, n>>
                        ELSE IF later = {} THEN sectionAt ELSE <<Min(later), 0>>
        /\ fullRows' = Max({fullRows, IF n = K THEN id ELSE 0})
        /\ hugePhase' # "sections"
    BY <1>2, <2>1 DEF ReadHugeRow
  <2>3. sec \in Nat /\ n \in Nat /\ fullRows \in Nat /\ sectionAt \in Nat \X Nat
    BY <2>1 DEF HugePlaces
  <2>4. SectionIds(auxRows) \in SUBSET Nat
    <3>1. IsHugeTable(huge) /\ auxRows = StoredRows(huge, "AUX") /\ AllInRange(auxRows)
      BY <2>2, IsATable DEF HugeInv
    <3> QED BY <3>1, AuxTyped
  <2>5. later # {} => Min(later) \in Nat
    <3>1. later \in SUBSET Nat BY <2>4
    <3> HIDE DEF later
    <3> QED BY <3>1, LeastOf
  <2>6. id \in Nat
    <3>1. SectionRows \in Nat BY HugeAssumption
    <3> QED BY <2>3, <3>1
  <2> HIDE DEF id
  <2>7. fullRows' \in Nat
    <3>1. PICK m \in Nat : m = IF n = K THEN id ELSE 0 BY <2>6
    <3>2. Max({fullRows, m}) = IF fullRows >= m THEN fullRows ELSE m BY <2>3, <3>1, GreaterOf
    <3> QED BY <2>2, <2>3, <3>1, <3>2
  <2>8. sectionAt' \in Nat \X Nat BY <2>2, <2>3, <2>5
  <2> QED BY <2>2, <2>7, <2>8 DEF HugePlaces
<1> QED BY <1>1, <1>2

LEMMA PlacesStay == HugeInv /\ HugePlaces /\ [HugeNext]_hugeVars => HugePlaces'
<1> SUFFICES ASSUME HugeInv, HugePlaces, [HugeNext]_hugeVars PROVE HugePlaces' OBVIOUS
<1>1. CASE LoadSections
  <2>1. hugePhase = "sections" /\ colFiles' = colFiles /\ DOMAIN colFiles' = {}
    BY <1>1 DEF LoadSections, HugeFails, HugePlaces
  <2> QED BY <1>1, <2>1 DEF LoadSections, HugeFails, HugePlaces
<1>2. CASE ResolveColumnFiles BY <1>2 DEF ResolveColumnFiles, HugeFails, HugePlaces
<1>3. CASE LoadDelta BY <1>3 DEF LoadDelta, HugeFails, HugePlaces
<1>4. CASE CheckSections
  <2>1. CASE HugeFails BY <2>1 DEF HugeFails, HugePlaces
  <2>2. CASE ~HugeFails
    <3> DEFINE ids == SectionIds(auxRows)
    <3>1. /\ UNCHANGED <<huge, auxRows, colFiles, fullRows, rauxAt>> /\ hugePhase = "check"
          /\ sectionAt' = IF ids = {} THEN sectionAt ELSE <<Min(ids), 0>>
          /\ hugePhase' # "sections"
      BY <1>4, <2>2 DEF CheckSections
    <3>2. ids \in SUBSET Nat
      <4>1. IsHugeTable(huge) /\ auxRows = StoredRows(huge, "AUX") /\ AllInRange(auxRows)
        BY <3>1, IsATable DEF HugeInv
      <4> QED BY <4>1, AuxTyped
    <3> HIDE DEF ids
    <3>3. ids # {} => Min(ids) \in Nat BY <3>2, LeastOf
    <3> QED BY <3>1, <3>3 DEF HugePlaces
  <2> QED BY <2>1, <2>2
<1>5. CASE ReadHugeRow BY <1>5, RowPlaces
<1>6. CASE ReadRaux
  <2>1. /\ sectionAt' = sectionAt /\ fullRows' = fullRows /\ rauxAt' \in {rauxAt, rauxAt + 1}
        /\ colFiles' = colFiles /\ auxRows' = auxRows /\ hugePhase' # "sections"
    BY <1>6 DEF ReadRaux, HugeFails
  <2> QED BY <2>1 DEF HugePlaces
<1>7. CASE UNCHANGED hugeVars BY <1>7 DEF hugeVars, HugePlaces
<1> QED BY <1>1, <1>2, <1>3, <1>4, <1>5, <1>6, <1>7 DEF HugeNext

\* Every row written has a value for each column of the table, and only files
\* of the sections listed are opened (exportHugeTableData).
THEOREM HugeTypeCorrect == HugeSpec => []HugeTypeOK
<1>1. HugeSpec => []HugeInv BY HugeStarts, HugeStays, PTL DEF HugeSpec
<1>2. HugeInit => HugePlaces BY DEF HugeInit, HugePlaces
<1>3. HugeInv /\ HugePlaces => HugeTypeOK
  <2> SUFFICES ASSUME HugeInv, HugePlaces PROVE HugeTypeOK OBVIOUS
  <2>1. IsHugeTable(huge) BY IsATable
  <2>2. PICK k : RowsUpTo(huge, hugeRows, k) BY DEF HugeInv
  <2>3. PICK left : left = LeftOf(huge) OBVIOUS
  <2>4. /\ Len(hugeRows) \in Nat /\ DOMAIN hugeRows = 1 .. Len(hugeRows)
        /\ Len(hugeRows) <= Len(left)
        /\ \A n \in 1 .. Len(hugeRows) : hugeRows[n] = huge.live[n]
    BY <2>2, <2>3 DEF RowsUpTo
  <2>5. /\ Len(left) \in Nat /\ DOMAIN left = 1 .. Len(left)
        /\ \A n \in DOMAIN left : DOMAIN huge.live[n] = Columns
    <3>1. /\ Len(left) \in Nat /\ DOMAIN left = 1 .. Len(left)
          /\ \A n \in DOMAIN left :
               huge.live[n] = [c \in DOMAIN huge.type |->
                                 IF <<left[n], c>> \in DOMAIN huge.changed
                                 THEN huge.changed[<<left[n], c>>]
                                 ELSE huge.written[left[n]][c]]
      BY <2>1, <2>3, LiveIs
    <3> QED BY <3>1 DEF Columns
  <2>6. \A n \in DOMAIN hugeRows : DOMAIN hugeRows[n] = Columns BY <2>4, <2>5
  <2> QED BY <2>6 DEF HugeInv, HugePlaces, HugeTypeOK
<1>4. HugeInv /\ HugePlaces /\ [HugeNext]_hugeVars => HugePlaces' BY PlacesStay
<1> QED BY <1>1, <1>2, <1>3, <1>4, PTL DEF HugeSpec
=============================================================================
