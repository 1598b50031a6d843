------------------------- MODULE ExportPhasesProofs -------------------------
(***************************************************************************)
(* For every dictionary and every state of the files: no page gives its    *)
(* rows twice, no page that the plans, the group scan or the segment       *)
(* ranges can reach is missed, the row limit is exact, and a row cut short *)
(* is written, once, or one with its columns is.                           *)
(*                                                                         *)
(* The proofs go along three inductive invariants: Accounted (a page that  *)
(* gave its rows is behind its loop or marked), Searched (what each loop   *)
(* has passed it has taken, and why a page is marked) and Books (the rows  *)
(* written and put aside against the rows taken and the keys marked).      *)
(***************************************************************************)
EXTENDS ExportPhases, Induction, SequenceTheorems, TLAPS

(***************************************************************************)
(* Each page once                                                          *)
(***************************************************************************)
\* Every page that gave its rows is behind the loop that took them, and for
\* the loops to come it is marked, or they will not run.
Accounted ==
  \A e \in taken :
    /\ phase \in {"direct", "recovery"} => e.page \notin todo
    /\ phase \in {"direct", "storage", "segment"} => stop \/ e.page \in processed

PhaseOK ==
  phase \in {"direct", "storage", "segment", "recovery", "pending", "done", "failed"}

IInv == ExportedOnce /\ Accounted /\ PhaseOK

\* A step that takes nothing and unmarks nothing.
LEMMA Untaken ==
  ASSUME IInv, taken' = taken, todo' \subseteq todo \/ phase' \notin {"direct", "recovery"},
         processed \subseteq processed', stop' = stop,
         \/ phase' = phase
         \/ phase = "direct" /\ phase' = "storage"
         \/ phase = "storage" /\ phase' = "segment"
         \/ phase' \in {"pending", "done", "failed"}
  PROVE  IInv'
  BY DEF IInv, ExportedOnce, Accounted, PhaseOK

\* A step that takes the rows of a page not taken before.
LEMMA TakenOnce ==
  ASSUME IInv, NEW p \in Pages, NEW u, Take(p, u), phase' = phase, ~stop,
         \A e \in taken : e.page # p,
         todo' = todo \ {p},
         processed \subseteq processed',
         phase \in {"direct", "storage", "segment"} => stop' \/ p \in processed'
  PROVE  IInv'
  <1> DEFINE new == [page |-> p, unit |-> u, phase |-> phase]
  <1>1. taken' = taken \cup {new} /\ new.page = p
    BY DEF Take
  <1>2. ExportedOnce'
    BY <1>1 DEF IInv, ExportedOnce
  <1>3. Accounted'
    BY <1>1 DEF IInv, Accounted
  <1>4. PhaseOK'
    BY <1>1 DEF IInv, PhaseOK
  <1> QED
    BY <1>2, <1>3, <1>4 DEF IInv

\* The page a loop visits has not been taken, if the loop skips marked pages.
LEMMA Untouched ==
  ASSUME IInv, NEW p \in Pages, NEW loop, Visit(p, loop),
         loop \in {"direct", "recovery"} \/ p \notin processed,
         loop \in {"direct", "storage", "segment", "recovery"}
  PROVE  \A e \in taken : e.page # p
  BY DEF IInv, Accounted, Visit, FirstOf

\* What a visited page does to the pages taken
LEMMA Visited ==
  ASSUME IInv, NEW p \in Pages, NEW units, NEW loop, Visit(p, loop),
         loop \in {"direct", "storage", "segment", "recovery"},
         loop \in {"direct", "recovery"} \/ p \notin processed,
         Process(p, units),
         processed \subseteq processed',
         units = {} \/ loop = "recovery" \/ stop' \/ p \in processed'
  PROVE  IInv'
  <1>1. /\ phase' = phase /\ phase = loop /\ ~stop
        /\ todo' = todo \ {p}
    BY DEF Visit
  <1>2. CASE Ignore
    BY <1>1, <1>2, Untaken DEF Ignore
  <1>3. ASSUME NEW u \in units, Take(p, u) PROVE IInv'
    <2>1. \A e \in taken : e.page # p
      BY Untouched
    <2>2. phase \in {"direct", "storage", "segment"} => stop' \/ p \in processed'
      BY <1>1, <1>3
    <2> QED
      BY <1>1, <1>3, <2>1, <2>2, TakenOnce
  <1> QED
    BY <1>2, <1>3 DEF Process

LEMMA StepInv == IInv /\ [Next]_vars => IInv'
  <1> SUFFICES ASSUME IInv, [Next]_vars PROVE IInv'
    OBVIOUS
  <1>1. CASE UNCHANGED vars
    BY <1>1 DEF vars, IInv, ExportedOnce, Accounted, PhaseOK
  <1>2. CASE DirectFails
    BY <1>2, Untaken DEF DirectFails, Visit, Ignore
  <1>3. CASE DirectPage
    <2>1. PICK p \in Pages :
            /\ Visit(p, "direct")
            /\ Process(p, Chosen(p, DirectCandidates(p)))
            /\ processed' = IF stop' THEN processed ELSE processed \cup {p}
      BY <1>3 DEF DirectPage
    <2>2. processed \subseteq processed' /\ (stop' \/ p \in processed')
      BY <2>1
    <2> QED
      BY <2>1, <2>2, Visited
  <1>4. CASE StartScan
    BY <1>4, Untaken DEF StartScan, Ignore
  <1>5. CASE ScanAborts
    BY <1>5, Untaken DEF ScanAborts, Ignore
  <1>6. CASE ScanSkips
    BY <1>6, Untaken DEF ScanSkips, Visit, Ignore
  <1>7. CASE ScanPage
    <2>1. PICK p \in Pages :
            /\ Visit(p, "storage")
            /\ p \notin processed
            /\ processed' = IF Matched(p) = <<>> THEN processed
                            ELSE processed \cup {p}
            /\ Process(p, FirstChosen(p, Matched(p)))
      BY <1>7 DEF ScanPage
    <2>2. Matched(p) = <<>> => FirstChosen(p, Matched(p)) = {}
      BY DEF FirstChosen
    <2>3. /\ processed \subseteq processed'
          /\ FirstChosen(p, Matched(p)) = {} \/ p \in processed'
      BY <2>1, <2>2
    <2> QED
      BY <2>1, <2>3, Visited
  <1>8. CASE StartSegments
    BY <1>8, Untaken DEF StartSegments, Ignore
  <1>9. CASE SegmentSkips
    BY <1>9, Untaken DEF SegmentSkips, Visit, Ignore
  <1>10. CASE SegmentPage
    <2>1. PICK p \in Pages :
            /\ Visit(p, "segment")
            /\ p \notin processed
            /\ processed' = processed \cup {p}
            /\ Process(p, SegmentUnits(p) \cap PageOf(p).fits)
      BY <1>10 DEF SegmentPage
    <2>2. processed \subseteq processed' /\ p \in processed'
      BY <2>1
    <2> QED
      BY <2>1, <2>2, Visited
  <1>11. CASE RecoveryPage
    <2>1. PICK p \in Pages :
            /\ Visit(p, "recovery")
            /\ Process(p, FirstChosen(p, RecoveryList(p)))
            /\ processed' = processed
      BY <1>11 DEF RecoveryPage
    <2> QED
      BY <2>1, Visited
  <1>12. CASE StartPending
    BY <1>12, Untaken DEF StartPending, Ignore
  <1>13. CASE WritePending
    BY <1>13, Untaken DEF WritePending
  <1>14. CASE Finish
    BY <1>14, Untaken DEF Finish, Ignore
  <1>15. CASE WriteFails
    BY <1>15, Untaken DEF WriteFails, Ignore
  <1>16. CASE Ended
    BY <1>16, <1>1 DEF Ended
  <1> QED
    BY <1>1, <1>2, <1>3, <1>4, <1>5, <1>6, <1>7, <1>8, <1>9, <1>10, <1>11,
      <1>12, <1>13, <1>14, <1>15, <1>16 DEF Next

\* No loop takes the rows of a page that another loop, or it itself, has taken:
\* the direct loop, the group scan, the segment ranges and the recovery scan of
\* ExportData share one set of finished pages.
THEOREM OncePerPage == Spec => []ExportedOnce
  <1>1. Init => IInv
    BY DEF Init, IInv, ExportedOnce, Accounted, PhaseOK
  <1>2. IInv => ExportedOnce
    BY DEF IInv
  <1> QED
    BY <1>1, <1>2, StepInv, PTL DEF Spec

(***************************************************************************)
(* Types, and what the helpers return                                      *)
(***************************************************************************)
Loops == {"direct", "storage", "segment", "recovery"}

\* The count of the rows keeps to the limit.
AtLimit ==
  layout.maxRows > 0 =>
    /\ located <= layout.maxRows
    /\ stop => located = layout.maxRows

Types == TypeOK /\ AtLimit

LEMMA LayoutTypes ==
  ASSUME TypeOK
  PROVE  /\ \A p \in Pages :
              /\ PageOf(p).sid \in Sids /\ PageOf(p).group \in Groups
              /\ PageOf(p).fits \subseteq Units
              /\ PageOf(p).rows \in Seq(Row)
         /\ \A s \in Sids : layout.assist[s] \in Seq(Candidate)
         /\ \A u \in Units : layout.segment[u] \subseteq Pages
         /\ layout.orphan \in Seq(Candidate)
         /\ layout.maxRows \in Nat
         /\ layout.recovery \in BOOLEAN
         /\ layout.tracked \subseteq Units
  BY DEF TypeOK, Layout, PageInfo, PageOf

LEMMA CandidateTypes ==
  ASSUME NEW c \in Candidate
  PROVE  /\ c.unit \in Units /\ c.plan \subseteq Pages /\ c.group \in Groups
         /\ c.planned \in BOOLEAN /\ c.loose \in BOOLEAN /\ c.recovery \in BOOLEAN
         /\ c.segmented \in BOOLEAN /\ c.known \in BOOLEAN
         /\ c.loose => ~c.planned
  BY DEF Candidate

LEMMA ElementOfRange ==
  ASSUME NEW S, NEW s \in Seq(S)
  PROVE  /\ Range(s) \subseteq S
         /\ \A e \in Range(s) : \E i \in 1 .. Len(s) : e = s[i]
         /\ \A i \in 1 .. Len(s) : s[i] \in Range(s)
         /\ s # <<>> => \E i \in 1 .. Len(s) : TRUE
  BY DEF Range

LEMMA AllTyped ==
  ASSUME TypeOK
  PROVE  /\ AllCandidates \subseteq Candidate
         /\ PlannedRefs \subseteq Pages
         /\ \A s \in Sids : Range(layout.assist[s]) \subseteq AllCandidates
<1>1. \A s \in Sids : Range(layout.assist[s]) \subseteq Candidate
  BY LayoutTypes, ElementOfRange
<1>2. AllCandidates \subseteq Candidate BY <1>1 DEF AllCandidates
<1>3. PlannedRefs \subseteq Pages BY <1>2, CandidateTypes DEF PlannedRefs
<1> QED BY <1>2, <1>3 DEF AllCandidates

LEMMA ChoicesTyped ==
  ASSUME TypeOK, NEW p \in Pages
  PROVE  /\ Chosen(p, DirectCandidates(p)) \subseteq Units
         /\ \A list \in Seq(Candidate) : FirstChosen(p, list) \subseteq Units
         /\ (SegmentUnits(p) \cap PageOf(p).fits) \subseteq Units
<1>1. Chosen(p, DirectCandidates(p)) \subseteq Units
  BY AllTyped, CandidateTypes DEF Chosen, DirectCandidates
<1>2. ASSUME NEW list \in Seq(Candidate) PROVE FirstChosen(p, list) \subseteq Units
  <2>1. \A i \in DOMAIN list : list[i].unit \in Units BY CandidateTypes
  <2> QED BY <2>1 DEF FirstChosen
<1>3. (SegmentUnits(p) \cap PageOf(p).fits) \subseteq Units BY LayoutTypes
<1> QED BY <1>1, <1>2, <1>3

LEMMA RankType ==
  ASSUME NEW c \in Candidate
  PROVE  CandidateRank(c) \in 0 .. 4
  BY CandidateTypes DEF CandidateRank

\* A candidate with whose columns the page parses is enough for one to be
\* chosen.
LEMMA SomeChosen ==
  ASSUME NEW p \in Pages, NEW cs \in SUBSET Candidate, NEW c \in cs,
         ~c.loose, c.unit \in PageOf(p).fits
  PROVE  Chosen(p, cs) # {}
<1> DEFINE fit == {d \in cs : ~d.loose /\ d.unit \in PageOf(p).fits}
           ranks == {CandidateRank(d) : d \in fit}
<1>1. c \in fit OBVIOUS
<1>2. \A d \in fit : CandidateRank(d) \in Nat BY RankType
<1>3. ranks \in SUBSET Nat /\ ranks # {} BY <1>1, <1>2
<1>4. PICK r \in ranks : \A m \in ranks : r <= m BY <1>3, LeastNat
<1>5. PICK b \in fit : r = CandidateRank(b) BY <1>4
<1>6. \A d \in fit : CandidateRank(b) <= CandidateRank(d) BY <1>4, <1>5
<1>7. b.unit \in Chosen(p, cs) BY <1>5, <1>6 DEF Chosen
<1> QED BY <1>7

LEMMA SomeFirstChosen ==
  ASSUME NEW p \in Pages, NEW list \in Seq(Candidate), NEW c \in Range(list),
         ~c.loose, c.unit \in PageOf(p).fits
  PROVE  FirstChosen(p, list) # {}
<1> DEFINE fit == {i \in DOMAIN list : ~list[i].loose /\ list[i].unit \in PageOf(p).fits}
           Rank(i) == CandidateRank(list[i])
           ranks == {Rank(i) : i \in fit}
<1>1. PICK k \in DOMAIN list : c = list[k] BY ElementOfRange
<1>2. k \in fit BY <1>1
<1>3. \A i \in fit : i \in Nat /\ Rank(i) \in Nat
  <2>1. \A i \in DOMAIN list : i \in Nat /\ list[i] \in Candidate OBVIOUS
  <2>2. \A i \in fit : i \in DOMAIN list OBVIOUS
  <2> QED BY <2>1, <2>2, RankType
<1>4. ranks \in SUBSET Nat /\ ranks # {} BY <1>2, <1>3
<1>5. PICK r \in ranks : \A m \in ranks : r <= m BY <1>4, LeastNat
<1> DEFINE best == {i \in fit : Rank(i) = r}
<1>6. best \in SUBSET Nat /\ best # {} BY <1>3, <1>5
<1>7. PICK b \in best : \A m \in best : b <= m BY <1>6, LeastNat
<1>8. b \in fit /\ Rank(b) = r OBVIOUS
<1>9. ASSUME NEW j \in fit
      PROVE  Rank(b) < Rank(j) \/ (Rank(b) = Rank(j) /\ b <= j)
  <2>1. Rank(j) \in Nat /\ Rank(b) \in Nat /\ r <= Rank(j) BY <1>3, <1>5, <1>8
  <2>2. CASE Rank(j) = r
    <3>1. j \in best BY <2>2
    <3> QED BY <3>1, <1>7, <1>8, <2>2
  <2>3. CASE Rank(j) # r
    <3> HIDE DEF Rank
    <3> QED BY <2>1, <2>3, <1>8
  <2> QED BY <2>2, <2>3
<1>10. list[b].unit \in FirstChosen(p, list)
  <2> HIDE DEF best, ranks
  <2> QED BY <1>8, <1>9 DEF FirstChosen
<1> QED BY <1>10

LEMMA RoomFacts ==
  ASSUME Types, NEW m \in Nat
  PROVE  /\ Room(m) \in 0 .. m
         /\ Room(m) < m => layout.maxRows > 0 /\ located + Room(m) = layout.maxRows
         /\ layout.maxRows > 0 => located + Room(m) <= layout.maxRows
  BY LayoutTypes DEF Types, TypeOK, AtLimit, Room

\* The rows a page gives, and those of them written at once
TakenSlots(p, u) ==
  [i \in 1 .. Room(Len(PageOf(p).rows)) |->
     [page |-> p, slot |-> i, unit |-> u, row |-> PageOf(p).rows[i]]]

WholeSlots(p, u) == {s \in Range(TakenSlots(p, u)) : ~s.row.cut}

CutSlots(p, u) == Kept(TakenSlots(p, u), Range(TakenSlots(p, u)) \ WholeSlots(p, u))

LEMMA TakeIs ==
  ASSUME NEW p, NEW u, Take(p, u)
  PROVE  /\ located' = located + Room(Len(PageOf(p).rows))
         /\ stop' = (Room(Len(PageOf(p).rows)) < Len(PageOf(p).rows))
         /\ cover' = Marked(cover, u, {s.row : s \in WholeSlots(p, u)})
         /\ pending' = pending \o CutSlots(p, u)
         /\ written' = written \cup WholeSlots(p, u)
         /\ taken' = taken \cup {[page |-> p, unit |-> u, phase |-> phase]}
  BY DEF Take, TakenSlots, WholeSlots, CutSlots

LEMMA SlotFacts ==
  ASSUME Types, NEW p \in Pages, NEW u \in Units
  PROVE  LET n == Room(Len(PageOf(p).rows)) IN
         /\ n \in 0 .. Len(PageOf(p).rows)
         /\ TakenSlots(p, u) \in Seq(Slots)
         /\ Range(TakenSlots(p, u)) =
              {[page |-> p, slot |-> i, unit |-> u, row |-> PageOf(p).rows[i]] : i \in 1 .. n}
         /\ CutSlots(p, u) \in Seq(Slots)
         /\ Range(CutSlots(p, u)) = Range(TakenSlots(p, u)) \ WholeSlots(p, u)
         /\ IsFiniteSet(WholeSlots(p, u))
         /\ Len(CutSlots(p, u)) + Cardinality(WholeSlots(p, u)) <= n
<1> DEFINE rows == PageOf(p).rows
           n == Room(Len(rows))
           all == TakenSlots(p, u)
           whole == WholeSlots(p, u)
           Slot(i) == [page |-> p, slot |-> i, unit |-> u, row |-> rows[i]]
<1>1. rows \in Seq(Row) /\ Len(rows) \in Nat BY LayoutTypes DEF Types
<1>2. n \in 0 .. Len(rows) BY <1>1, RoomFacts
<1>3. ASSUME NEW i \in 1 .. n PROVE Slot(i) \in Slots
  <2>1. i \in 1 .. Len(rows) /\ i \in Nat BY <1>1, <1>2
  <2>2. rows[i] \in Row BY <1>1, <2>1
  <2> QED BY <2>1, <2>2 DEF Slots
<1>4. all = [i \in 1 .. n |-> Slot(i)] BY DEF TakenSlots
<1> HIDE DEF all, n, rows
<1>5. n \in Nat BY <1>1, <1>2
<1>6. all \in Seq(Slots) /\ Len(all) = n BY <1>3, <1>4, <1>5
<1>7. Range(all) = {Slot(i) : i \in 1 .. n} BY <1>4 DEF Range
<1> DEFINE T == Range(all) \ whole
<1>8. whole = Range(all) \ T /\ Range(all) \cap T = T BY DEF WholeSlots, all
<1>9. CutSlots(p, u) = Kept(all, T) BY DEF CutSlots, all
<1> HIDE DEF T, whole
<1>10. /\ Kept(all, T) \in Seq(Slots) /\ Range(Kept(all, T)) = Range(all) \cap T
       /\ IsFiniteSet(Range(all))
       /\ Len(Kept(all, T)) + Cardinality(Range(all) \ T) <= Len(all)
  BY <1>6, KeptFacts
<1>11. IsFiniteSet(whole) BY <1>8, <1>10, FS_Subset
<1>12. Len(CutSlots(p, u)) + Cardinality(whole) <= n
  BY <1>6, <1>8, <1>9, <1>10
<1>13. Range(CutSlots(p, u)) = Range(all) \ whole BY <1>8, <1>9, <1>10 DEF T
<1>14. CutSlots(p, u) \in Seq(Slots) BY <1>9, <1>10
<1> QED BY <1>2, <1>6, <1>7, <1>11, <1>12, <1>13, <1>14 DEF all, n, rows, whole

CoverType == [keys : SUBSET Keys, overflow : BOOLEAN]

\* What marking rows does to the coverage of a table
LEMMA MarkFacts ==
  ASSUME NEW b \in CoverType, NEW R \in SUBSET Row
  PROVE  LET ks == UNION {CoverageKeys(r) : r \in R} IN
         /\ Mark(b, ks) \in CoverType
         /\ Mark(b, ks).keys \subseteq b.keys \cup ks
         /\ ~Mark(b, ks).overflow => ~b.overflow /\ Mark(b, ks).keys = b.keys \cup ks
<1> DEFINE ks == UNION {CoverageKeys(r) : r \in R}
<1>1. ks \in SUBSET Keys BY DEF CoverageKeys, Row
<1> HIDE DEF ks
<1>2. b.keys \in SUBSET Keys /\ b.overflow \in BOOLEAN BY DEF CoverType
<1>3. CASE b.overflow \/ ks = {}
  <2>1. Mark(b, ks) = b BY <1>3 DEF Mark
  <2> QED BY <2>1, <1>2, <1>3, <1>1 DEF ks
<1>4. CASE ~(b.overflow \/ ks = {}) /\ Cardinality(b.keys \cup ks) >= MaxKeys
  <2>1. Mark(b, ks) = [b EXCEPT !.overflow = TRUE, !.keys = {}] BY <1>4 DEF Mark
  <2>2. Mark(b, ks) \in CoverType /\ Mark(b, ks).keys = {} /\ Mark(b, ks).overflow
    BY <2>1 DEF CoverType
  <2> QED BY <2>2 DEF ks
<1>5. CASE ~(b.overflow \/ ks = {}) /\ ~(Cardinality(b.keys \cup ks) >= MaxKeys)
  <2>1. Mark(b, ks) = [b EXCEPT !.keys = b.keys \cup ks] BY <1>5 DEF Mark
  <2>2. /\ Mark(b, ks) \in CoverType /\ Mark(b, ks).keys = b.keys \cup ks
        /\ Mark(b, ks).overflow = b.overflow
    BY <2>1, <1>1, <1>2 DEF CoverType
  <2> QED BY <2>2, <1>5 DEF ks
<1> QED BY <1>3, <1>4, <1>5

LEMMA MarkedFacts ==
  ASSUME NEW c \in [Units -> CoverType], NEW u \in Units, NEW R \in SUBSET Row
  PROVE  LET ks == UNION {CoverageKeys(r) : r \in R}
             d  == Marked(c, u, R)
         IN /\ d \in [Units -> CoverType]
            /\ \A v \in Units : v # u => d[v] = c[v]
            /\ d[u].keys \subseteq c[u].keys \cup ks
            /\ ~d[u].overflow => ~c[u].overflow
            /\ u \in layout.tracked /\ ~d[u].overflow => d[u].keys = c[u].keys \cup ks
<1> DEFINE ks == UNION {CoverageKeys(r) : r \in R}
           d == Marked(c, u, R)
<1>1. c[u] \in CoverType OBVIOUS
<1>2. /\ Mark(c[u], ks) \in CoverType
      /\ Mark(c[u], ks).keys \subseteq c[u].keys \cup ks
      /\ ~Mark(c[u], ks).overflow => ~c[u].overflow /\ Mark(c[u], ks).keys = c[u].keys \cup ks
  BY <1>1, MarkFacts
<1>3. CASE u \notin layout.tracked
  <2>1. d = c BY <1>3 DEF Marked
  <2> QED BY <2>1, <1>3
<1>4. CASE u \in layout.tracked
  <2>1. d = [c EXCEPT ![u] = Mark(c[u], ks)] BY <1>4 DEF Marked
  <2> HIDE DEF d, ks
  <2>2. d \in [Units -> CoverType] /\ d[u] = Mark(c[u], ks) /\ \A v \in Units : v # u => d[v] = c[v]
    BY <2>1, <1>2
  <2> QED BY <2>2, <1>2, <1>4 DEF d, ks
<1> QED BY <1>3, <1>4

LEMMA TypeParts ==
  ASSUME TypeOK
  PROVE  /\ cover \in [Units -> CoverType]
         /\ pending \in Seq(Slots) /\ written \subseteq Slots
         /\ taken \subseteq Taken /\ located \in Nat /\ stop \in BOOLEAN
         /\ lists \in [Sids -> Seq(Candidate)]
         /\ todo \subseteq Pages /\ processed \subseteq Pages
         /\ failed \subseteq Units /\ found \subseteq Units
  BY DEF TypeOK, CoverType

\* The parts of the types that the rows a page gives have to do with
RowTypes ==
  /\ located \in Nat /\ stop \in BOOLEAN /\ pending \in Seq(Slots)
  /\ cover \in [Units -> CoverType]
  /\ taken \subseteq Taken /\ written \subseteq Slots
  /\ AtLimit

LEMMA TakeTyped ==
  ASSUME Types, NEW p \in Pages, NEW u \in Units, Take(p, u),
         phase \in Loops, layout' = layout
  PROVE  RowTypes'
<1> DEFINE n == Room(Len(PageOf(p).rows))
           m == Len(PageOf(p).rows)
           whole == WholeSlots(p, u)
<1>1. m \in Nat BY LayoutTypes DEF Types
<1>2. /\ n \in 0 .. m
      /\ n < m => layout.maxRows > 0 /\ located + n = layout.maxRows
      /\ layout.maxRows > 0 => located + n <= layout.maxRows
  BY <1>1, RoomFacts
<1>3. /\ located' = located + n /\ stop' = (n < m)
      /\ cover' = Marked(cover, u, {s.row : s \in whole})
      /\ pending' = pending \o CutSlots(p, u)
      /\ written' = written \cup whole
      /\ taken' = taken \cup {[page |-> p, unit |-> u, phase |-> phase]}
  BY TakeIs
<1> HIDE DEF n, m
<1>4. Range(TakenSlots(p, u)) \subseteq Slots /\ CutSlots(p, u) \in Seq(Slots)
  <2>1. TakenSlots(p, u) \in Seq(Slots) /\ CutSlots(p, u) \in Seq(Slots) BY SlotFacts
  <2> QED BY <2>1, ElementOfRange
<1>5. whole \subseteq Slots BY <1>4 DEF WholeSlots
<1>6. located' \in Nat /\ stop' \in BOOLEAN /\ AtLimit'
  <2>1. located \in Nat /\ layout.maxRows \in Nat BY LayoutTypes DEF Types, TypeOK
  <2>2. located' \in Nat /\ stop' \in BOOLEAN BY <1>1, <1>2, <1>3, <2>1
  <2>3. ASSUME layout.maxRows > 0
        PROVE  located' <= layout.maxRows /\ (stop' => located' = layout.maxRows)
    <3>1. located' <= layout.maxRows BY <2>3, <1>2, <1>3
    <3>2. stop' => located' = layout.maxRows BY <1>2, <1>3
    <3> QED BY <3>1, <3>2
  <2> QED BY <2>2, <2>3 DEF AtLimit
<1>7. cover' \in [Units -> CoverType]
  <2>1. {s.row : s \in whole} \in SUBSET Row BY <1>5 DEF Slots
  <2>2. cover \in [Units -> CoverType] BY TypeParts DEF Types
  <2> QED BY <1>3, <2>1, <2>2, MarkedFacts
<1>8. pending' \in Seq(Slots)
  <2>1. pending \in Seq(Slots) BY TypeParts DEF Types
  <2> QED BY <1>3, <1>4, <2>1
<1>9. taken' \subseteq Taken
  <2>1. [page |-> p, unit |-> u, phase |-> phase] \in Taken BY DEF Taken, Loops
  <2> QED BY <1>3, <2>1 DEF Types, TypeOK
<1>10. written' \subseteq Slots BY <1>3, <1>5 DEF Types, TypeOK
<1> QED BY <1>6, <1>7, <1>8, <1>9, <1>10 DEF RowTypes

LEMMA IgnoreTyped ==
  ASSUME Types, Ignore, layout' = layout
  PROVE  RowTypes'
<1>1. RowTypes BY TypeParts DEF Types, RowTypes
<1> QED BY <1>1 DEF Ignore, RowTypes, AtLimit

LEMMA ProcessTyped ==
  ASSUME Types, NEW p \in Pages, NEW units \in SUBSET Units, Process(p, units),
         phase \in Loops, layout' = layout
  PROVE  RowTypes'
<1>1. CASE Ignore BY <1>1, IgnoreTyped
<1>2. ASSUME NEW u \in units, Take(p, u) PROVE RowTypes'
  <2>1. u \in Units OBVIOUS
  <2> QED BY <2>1, <1>2, TakeTyped
<1> QED BY <1>1, <1>2 DEF Process

LEMMA MatchedTyped ==
  ASSUME TypeOK, NEW p \in Pages
  PROVE  /\ lists[PageOf(p).sid] \in Seq(Candidate)
         /\ Matched(p) \in Seq(Candidate)
         /\ Range(Matched(p)) =
              {c \in Range(lists[PageOf(p).sid]) : c.group = PageOf(p).group}
         /\ Len(Matched(p)) \in Nat
         /\ Overwritten(lists[PageOf(p).sid], Matched(p)) \in Seq(Candidate)
<1> DEFINE list == lists[PageOf(p).sid]
           T == {c \in Range(list) : c.group = PageOf(p).group}
<1>1. list \in Seq(Candidate)
  <2>1. PageOf(p).sid \in Sids BY LayoutTypes
  <2> QED BY <2>1 DEF TypeOK
<1>2. Matched(p) = Kept(list, T) BY DEF Matched
<1> HIDE DEF list
<1>3. Kept(list, T) \in Seq(Candidate) /\ Range(Kept(list, T)) = Range(list) \cap T
  BY <1>1, KeptFacts
<1>4. Range(list) \cap T = T OBVIOUS
<1>5. Overwritten(list, Matched(p)) \in Seq(Candidate)
  <2> DEFINE m == Matched(p)
  <2>1. m \in Seq(Candidate) BY <1>2, <1>3
  <2> HIDE DEF m
  <2>2. \A i \in 1 .. Len(list) : (IF i <= Len(m) THEN m[i] ELSE list[i]) \in Candidate
    BY <1>1, <2>1
  <2>3. Overwritten(list, m) = [i \in 1 .. Len(list) |-> IF i <= Len(m) THEN m[i] ELSE list[i]]
    BY <1>1 DEF Overwritten
  <2>4. Len(list) \in Nat BY <1>1
  <2>5. Overwritten(list, m) \in Seq(Candidate) BY <2>2, <2>3, <2>4
  <2> QED BY <2>5 DEF m
<1>6. Len(Matched(p)) \in Nat BY <1>2, <1>3
<1> QED BY <1>1, <1>2, <1>3, <1>4, <1>5, <1>6 DEF list

LEMMA RecoveryListTyped ==
  ASSUME TypeOK, NEW p \in Pages
  PROVE  RecoveryList(p) \in Seq(Candidate)
<1> DEFINE list == IF layout.assist[PageOf(p).sid] = <<>> /\ PageOf(p).sid \notin layout.live
                   THEN layout.orphan ELSE layout.assist[PageOf(p).sid]
<1>1. list \in Seq(Candidate) BY LayoutTypes
<1> DEFINE T == {c \in Range(list) : p \in c.range}
<1>2. RecoveryList(p) = Kept(list, T) BY DEF RecoveryList
<1> HIDE DEF list, T
<1>3. Kept(list, T) \in Seq(Candidate) BY <1>1, KeptFacts
<1> QED BY <1>2, <1>3

\* The parts of the types that the loops have to do with
LoopTypes ==
  /\ layout \in Layout
  /\ phase \in {"direct", "storage", "segment", "recovery", "pending", "done", "failed"}
  /\ todo \subseteq Pages
  /\ lists \in [Sids -> Seq(Candidate)]
  /\ processed \subseteq Pages
  /\ failed \subseteq Units
  /\ found \subseteq Units

LEMMA TypesSplit == TypeOK /\ AtLimit <=> LoopTypes /\ RowTypes
  BY DEF TypeOK, LoopTypes, RowTypes, CoverType

LEMMA TypesInit == Init => Types
<1> SUFFICES ASSUME Init PROVE Types OBVIOUS
<1>1. layout \in Layout BY PhasesAssumption DEF Init
<1>2. \A s \in Sids : layout.assist[s] \in Seq(Candidate) BY <1>1 DEF Layout
<1>3. AllCandidates \subseteq Candidate
  BY <1>2, ElementOfRange DEF AllCandidates
<1>4. PlannedRefs \subseteq Pages BY <1>3, CandidateTypes DEF PlannedRefs
<1>5. LoopTypes
  <2>1. layout.assist \in [Sids -> Seq(Candidate)] BY <1>1 DEF Layout
  <2>2. todo \subseteq Pages BY <1>4 DEF Init
  <2>3. phase \in {"direct", "recovery"} BY DEF Init
  <2> QED BY <1>1, <2>1, <2>2, <2>3 DEF Init, LoopTypes
<1>6. RowTypes
  <2>1. EmptyCover \in CoverType BY DEF EmptyCover, CoverType
  <2>2. <<>> \in Seq(Slots) OBVIOUS
  <2>3. AtLimit
    <3>1. layout.maxRows \in Nat BY <1>1 DEF Layout
    <3> QED BY <3>1 DEF Init, AtLimit
  <2> QED BY <2>1, <2>2, <2>3 DEF Init, RowTypes
<1> QED BY <1>5, <1>6, TypesSplit DEF Types

LEMMA TypesStep == Types /\ [Next]_vars => Types'
<1> SUFFICES ASSUME Types, [Next]_vars PROVE LoopTypes' /\ RowTypes'
  BY TypesSplit DEF Types, TypeOK, AtLimit, LoopTypes, RowTypes, CoverType
<1> USE DEF Loops
<1>0. LoopTypes /\ RowTypes BY TypesSplit DEF Types
<1>T. TypeOK BY DEF Types
<1>1. CASE UNCHANGED vars
  BY <1>1, <1>0 DEF vars, LoopTypes, RowTypes, AtLimit
<1>2. CASE DirectFails
  <2>1. PICK p \in Pages :
          /\ Visit(p, "direct") /\ Ignore
          /\ failed' = failed \cup {c.unit : c \in DirectCandidates(p)}
          /\ UNCHANGED <<lists, processed, found>>
    BY <1>2 DEF DirectFails
  <2>2. {c.unit : c \in DirectCandidates(p)} \subseteq Units
    BY <1>T, AllTyped, CandidateTypes DEF DirectCandidates
  <2> QED BY <2>1, <2>2, <1>0, IgnoreTyped DEF Visit, LoopTypes
<1>3. CASE DirectPage
  <2>1. PICK p \in Pages :
          /\ Visit(p, "direct")
          /\ Process(p, Chosen(p, DirectCandidates(p)))
          /\ processed' = IF stop' THEN processed ELSE processed \cup {p}
          /\ UNCHANGED scan
    BY <1>3 DEF DirectPage
  <2>2. Chosen(p, DirectCandidates(p)) \in SUBSET Units BY <1>T, ChoicesTyped
  <2>3. RowTypes' BY <2>1, <2>2, ProcessTyped DEF Visit
  <2> QED BY <2>1, <2>3, <1>0 DEF Visit, LoopTypes, scan
<1>4. CASE StartScan
  <2>1. [s \in Sids |-> Kept(layout.assist[s], FallbackCandidates)] \in [Sids -> Seq(Candidate)]
    BY <1>T, LayoutTypes, KeptFacts
  <2> QED BY <1>4, <2>1, <1>0, IgnoreTyped DEF StartScan, LoopTypes
<1>5. CASE ScanAborts
  BY <1>5, <1>0, IgnoreTyped DEF ScanAborts, LoopTypes, scan
<1>6. CASE ScanSkips
  BY <1>6, <1>0, IgnoreTyped DEF ScanSkips, Visit, LoopTypes, scan
<1>7. CASE ScanPage
  <2>1. PICK p \in Pages :
          /\ Visit(p, "storage")
          /\ lists' = [lists EXCEPT ![PageOf(p).sid] = Overwritten(@, Matched(p))]
          /\ found' = found \cup {c.unit : c \in Range(Matched(p))}
          /\ processed' = IF Matched(p) = <<>> THEN processed ELSE processed \cup {p}
          /\ Process(p, FirstChosen(p, Matched(p)))
          /\ UNCHANGED failed
    BY <1>7 DEF ScanPage
  <2>2. /\ Matched(p) \in Seq(Candidate)
        /\ Overwritten(lists[PageOf(p).sid], Matched(p)) \in Seq(Candidate)
    BY <1>T, MatchedTyped
  <2>3. FirstChosen(p, Matched(p)) \in SUBSET Units BY <1>T, <2>2, ChoicesTyped
  <2>4. RowTypes' BY <2>1, <2>3, ProcessTyped DEF Visit
  <2>5. {c.unit : c \in Range(Matched(p))} \subseteq Units
    BY <2>2, ElementOfRange, CandidateTypes
  <2>6. lists' \in [Sids -> Seq(Candidate)] BY <2>1, <2>2, <1>0 DEF LoopTypes
  <2> QED BY <2>1, <2>4, <2>5, <2>6, <1>0 DEF Visit, LoopTypes
<1>8. CASE StartSegments
  <2>1. \A u \in Unresolved : layout.segment[u] \subseteq Pages
    BY <1>T, LayoutTypes DEF Unresolved
  <2> QED BY <1>8, <2>1, <1>0, IgnoreTyped DEF StartSegments, LoopTypes, scan
<1>9. CASE SegmentSkips
  BY <1>9, <1>0, IgnoreTyped DEF SegmentSkips, Visit, LoopTypes, scan
<1>10. CASE SegmentPage
  <2>1. PICK p \in Pages :
          /\ Visit(p, "segment")
          /\ processed' = processed \cup {p}
          /\ Process(p, SegmentUnits(p) \cap PageOf(p).fits)
          /\ UNCHANGED scan
    BY <1>10 DEF SegmentPage
  <2>2. SegmentUnits(p) \cap PageOf(p).fits \in SUBSET Units BY <1>T, ChoicesTyped
  <2>3. RowTypes' BY <2>1, <2>2, ProcessTyped DEF Visit
  <2> QED BY <2>1, <2>3, <1>0 DEF Visit, LoopTypes, scan
<1>11. CASE RecoveryPage
  <2>1. PICK p \in Pages :
          /\ Visit(p, "recovery")
          /\ Process(p, FirstChosen(p, RecoveryList(p)))
          /\ UNCHANGED <<scan, processed>>
    BY <1>11 DEF RecoveryPage
  <2>2. FirstChosen(p, RecoveryList(p)) \in SUBSET Units
    BY <1>T, RecoveryListTyped, ChoicesTyped
  <2>3. RowTypes' BY <2>1, <2>2, ProcessTyped DEF Visit
  <2> QED BY <2>1, <2>3, <1>0 DEF Visit, LoopTypes, scan
<1>12. CASE StartPending
  BY <1>12, <1>0, IgnoreTyped DEF StartPending, LoopTypes, scan
<1>13. CASE WritePending
  <2> DEFINE e == Head(pending)
  <2>1. /\ pending # <<>> /\ pending' = Tail(pending)
        /\ \/ cover' = cover /\ written' = written
           \/ written' = written \cup {e} /\ cover' = Marked(cover, e.unit, {e.row})
        /\ UNCHANGED <<layout, phase, todo, lists, failed, found, processed, located, stop, taken>>
    BY <1>13 DEF WritePending, scan
  <2>2. e \in Slots /\ Tail(pending) \in Seq(Slots) BY <2>1, <1>0 DEF RowTypes
  <2>3. e.unit \in Units /\ {e.row} \in SUBSET Row BY <2>2 DEF Slots
  <2>4. Marked(cover, e.unit, {e.row}) \in [Units -> CoverType]
    BY <2>3, <1>0, MarkedFacts DEF RowTypes
  <2> HIDE DEF e
  <2>5. RowTypes' BY <2>1, <2>2, <2>4, <1>0 DEF RowTypes, AtLimit
  <2> QED BY <2>1, <2>5, <1>0 DEF LoopTypes
<1>14. CASE Finish
  BY <1>14, <1>0, IgnoreTyped DEF Finish, LoopTypes, scan
<1>15. CASE WriteFails
  BY <1>15, <1>0, IgnoreTyped DEF WriteFails, LoopTypes, scan
<1>16. CASE Ended BY <1>16, <1>1 DEF Ended
<1> QED
  BY <1>1, <1>2, <1>3, <1>4, <1>5, <1>6, <1>7, <1>8, <1>9, <1>10, <1>11,
    <1>12, <1>13, <1>14, <1>15, <1>16 DEF Next

(***************************************************************************)
(* No row is missed                                                        *)
(***************************************************************************)
LEMMA LayoutFixed == [Next]_vars => layout' = layout
  BY DEF Next, vars, DirectFails, DirectPage, StartScan, ScanAborts, ScanSkips, ScanPage,
    StartSegments, SegmentSkips, SegmentPage, RecoveryPage, StartPending, WritePending,
    Finish, WriteFails, Ended, Visit

\* What the layout decides stays as it is.
LEMMA SameLayout ==
  ASSUME layout' = layout
  PROVE  /\ \A p : PageOf(p)' = PageOf(p)
         /\ AllCandidates' = AllCandidates /\ PlannedUnits' = PlannedUnits
         /\ \A p : PlanMatches(p)' <=> PlanMatches(p)
         /\ \A p, u : HasRows(p, u)' <=> HasRows(p, u)
         /\ GroupsAgree' <=> GroupsAgree
<1>1. \A p : PageOf(p)' = PageOf(p) BY DEF PageOf
<1>2. AllCandidates' = AllCandidates BY DEF AllCandidates
<1>3. PlannedUnits' = PlannedUnits BY <1>2 DEF PlannedUnits
<1>4. \A p : PlanMatches(p)' <=> PlanMatches(p) BY <1>1 DEF PlanMatches
<1>5. \A p, u : HasRows(p, u)' <=> HasRows(p, u) BY <1>1 DEF HasRows
<1>6. GroupsAgree' <=> GroupsAgree BY DEF GroupsAgree
<1> QED BY <1>1, <1>2, <1>3, <1>4, <1>5, <1>6

LEMMA SameClaims ==
  ASSUME layout' = layout, failed' = failed
  PROVE  /\ \A p, c : Claims(p, c)' <=> Claims(p, c)
         /\ \A p : Claimed(p)' <=> Claimed(p)
         /\ FallbackCandidates' = FallbackCandidates
         /\ found' = found => Unresolved' = Unresolved
<1>1. \A p : PageOf(p)' = PageOf(p) BY SameLayout
<1>2. AllCandidates' = AllCandidates /\ PlannedUnits' = PlannedUnits BY SameLayout
<1>3. \A p, c : Claims(p, c)' <=> Claims(p, c) BY <1>1, <1>2 DEF Claims
<1>4. \A p : Claimed(p)' <=> Claimed(p) BY <1>1, <1>3 DEF Claimed
<1>5. FallbackCandidates' = FallbackCandidates
  BY <1>2 DEF FallbackCandidates, Scanned, NeedsFallback
<1>6. found' = found => Unresolved' = Unresolved
  BY <1>2, <1>5 DEF Unresolved, FallbackUnits, NeedsFallback
<1> QED BY <1>3, <1>4, <1>5, <1>6

LEMMA PlanGives ==
  ASSUME NEW p \in Pages, NEW c \in Range(layout.assist[PageOf(p).sid]),
         c.planned, p \in c.plan, PageOf(p).kind = "data"
  PROVE  PlanMatches(p)
  BY DEF PlanMatches

\* A claim to a page is a candidate of the group scan, in the group of the page.
LEMMA ClaimScanned ==
  ASSUME TypeOK, NEW p \in Pages, NEW c \in Range(layout.assist[PageOf(p).sid])
  PROVE  /\ Claims(p, c) <=> c \in FallbackCandidates /\ c.group = PageOf(p).group
         /\ c \in FallbackCandidates => ~c.planned /\ ~c.loose
<1>1. c \in AllCandidates BY AllTyped, LayoutTypes
<1> QED BY <1>1 DEF Claims, FallbackCandidates, Scanned, NeedsFallback

LEMMA ProcessTakes ==
  ASSUME NEW p, NEW units, Process(p, units)
  PROVE  /\ taken \subseteq taken'
         /\ \A q : TakenFrom(q) => TakenFrom(q)'
         /\ PageOf(p).kind = "data" /\ PageOf(p).rows # <<>> /\ units # {} => TakenFrom(p)'
<1>1. CASE Ignore /\ (PageOf(p).kind # "data" \/ PageOf(p).rows = <<>> \/ units = {})
  BY <1>1 DEF Ignore, TakenFrom
<1>2. ASSUME NEW u \in units, Take(p, u)
      PROVE  taken \subseteq taken' /\ TakenFrom(p)'
  <2> DEFINE new == [page |-> p, unit |-> u, phase |-> phase]
  <2>1. taken' = taken \cup {new} BY <1>2, TakeIs
  <2>2. new.page = p OBVIOUS
  <2> HIDE DEF new
  <2> QED BY <2>1, <2>2 DEF TakenFrom
<1>3. taken \subseteq taken' => \A q : TakenFrom(q) => TakenFrom(q)' BY DEF TakenFrom
<1> QED BY <1>1, <1>2, <1>3 DEF Process

LEMMA IgnoreKeeps ==
  ASSUME Ignore PROVE stop' = stop /\ \A q : TakenFrom(q)' <=> TakenFrom(q)
  BY DEF Ignore, TakenFrom

\* When all candidates of a storage id are in one group, the scan writes back
\* what it read.
LEMMA WrittenBack ==
  ASSUME TypeOK, NEW p \in Pages, GroupsAgree,
         Range(lists[PageOf(p).sid]) =
           Range(layout.assist[PageOf(p).sid]) \cap FallbackCandidates
  PROVE  Overwritten(lists[PageOf(p).sid], Matched(p)) = lists[PageOf(p).sid]
<1> DEFINE list == lists[PageOf(p).sid]
           T == {c \in Range(list) : c.group = PageOf(p).group}
<1>1. list \in Seq(Candidate) BY MatchedTyped
<1>2. Matched(p) = Kept(list, T) BY DEF Matched
<1>3. PageOf(p).sid \in Sids BY LayoutTypes
<1>4. ASSUME NEW c \in Range(list), NEW d \in Range(list) PROVE c.group = d.group
  <2>1. /\ c \in Range(layout.assist[PageOf(p).sid]) /\ c \in FallbackCandidates
        /\ d \in Range(layout.assist[PageOf(p).sid]) /\ d \in FallbackCandidates
    OBVIOUS
  <2>2. ~c.planned /\ ~c.loose /\ ~d.planned /\ ~d.loose BY <2>1, ClaimScanned
  <2> QED BY <2>1, <2>2, <1>3 DEF GroupsAgree
<1>5. Range(list) \subseteq T \/ Range(list) \cap T = {} BY <1>4
<1> HIDE DEF list, T
<1>6. Matched(p) = list \/ Matched(p) = <<>>
  <2>1. /\ Range(list) \subseteq T => Kept(list, T) = list
        /\ Range(list) \cap T = {} => Kept(list, T) = <<>>
    BY <1>1, KeptFacts
  <2> QED BY <2>1, <1>2, <1>5, Zenon
<1>7. Overwritten(list, list) = list
  <2>1. list = [i \in DOMAIN list |-> list[i]] BY <1>1
  <2> QED BY <1>1, <2>1 DEF Overwritten
<1>8. Overwritten(list, <<>>) = list
  <2>1. list = [i \in DOMAIN list |-> list[i]] BY <1>1
  <2>2. \A i \in DOMAIN list : ~(i <= Len(<<>>)) BY <1>1
  <2> QED BY <2>1, <2>2 DEF Overwritten
<1> QED BY <1>6, <1>7, <1>8 DEF list

LEMMA SearchStep ==
  ASSUME TypeOK, GroupsAgree, Search, [Next]_vars
  PROVE  Search'
<1>L. layout' = layout BY LayoutFixed
<1>S. /\ \A p : PageOf(p)' = PageOf(p)
      /\ \A p : PlanMatches(p)' <=> PlanMatches(p)
      /\ \A p, u : HasRows(p, u)' <=> HasRows(p, u)
  BY <1>L, SameLayout
<1>C. failed' = failed =>
        /\ \A p, c : Claims(p, c)' <=> Claims(p, c)
        /\ \A p : Claimed(p)' <=> Claimed(p)
        /\ FallbackCandidates' = FallbackCandidates
        /\ found' = found => Unresolved' = Unresolved
  BY <1>L, SameClaims
<1>T. \A p \in Pages : PageOf(p).sid \in Sids BY LayoutTypes
<1>P. processed \subseteq Pages BY DEF TypeOK
<1>1. CASE UNCHANGED vars
  <2>1. /\ phase' = phase /\ todo' = todo /\ processed' = processed /\ failed' = failed
        /\ found' = found /\ stop' = stop /\ taken' = taken /\ lists' = lists
    BY <1>1 DEF vars
  <2>2. \A q : TakenFrom(q)' <=> TakenFrom(q) BY <2>1 DEF TakenFrom
  <2> QED BY <2>1, <2>2, <1>L, <1>S, <1>C
    DEF Search, MarksJustified, ListsIntact, DirectDone, ScanDone, SegmentDone
<1>2. CASE DirectFails
  <2>1. PICK p \in Pages :
          /\ Visit(p, "direct") /\ ~PlanMatches(p) /\ Ignore
          /\ UNCHANGED <<lists, processed, found>>
    BY <1>2 DEF DirectFails
  <2>2. phase = "direct" /\ phase' = "direct" /\ ~stop /\ todo' = todo \ {p} BY <2>1 DEF Visit
  <2>3. stop' = stop /\ \A q : TakenFrom(q)' <=> TakenFrom(q) BY <2>1, IgnoreKeeps
  <2>4. MarksJustified' BY <2>1, <2>2, <1>S DEF Search, MarksJustified
  <2>5. ASSUME NEW q \in Pages, NEW c \in Range(layout.assist[PageOf(q).sid]),
               q \notin todo', c.planned, q \in c.plan, HasRows(q, c.unit)
        PROVE  TakenFrom(q)'
    <3>1. CASE q = p
      <4>1. PlanMatches(p) BY <2>5, <3>1, PlanGives DEF HasRows
      <4> QED BY <4>1, <2>1
    <3>2. CASE q # p
      BY <3>2, <2>2, <2>3, <2>5 DEF Search, DirectDone
    <3> QED BY <3>1, <3>2
  <2>6. DirectDone' BY <2>2, <2>5, <1>L, <1>S DEF DirectDone
  <2> QED BY <2>2, <2>4, <2>6 DEF Search, ListsIntact, ScanDone, SegmentDone
<1>3. CASE DirectPage
  <2>1. PICK p \in Pages :
          /\ Visit(p, "direct") /\ PlanMatches(p)
          /\ Process(p, Chosen(p, DirectCandidates(p)))
          /\ processed' = IF stop' THEN processed ELSE processed \cup {p}
    BY <1>3 DEF DirectPage
  <2>2. phase = "direct" /\ phase' = "direct" /\ ~stop /\ todo' = todo \ {p} BY <2>1 DEF Visit
  <2>3. /\ \A q : TakenFrom(q) => TakenFrom(q)'
        /\ PageOf(p).kind = "data" /\ PageOf(p).rows # <<>>
             /\ Chosen(p, DirectCandidates(p)) # {} => TakenFrom(p)'
    BY <2>1, ProcessTakes
  <2>4. MarksJustified' BY <2>1, <2>2, <1>S DEF Search, MarksJustified
  <2>5. ASSUME NEW q \in Pages, NEW c \in Range(layout.assist[PageOf(q).sid]),
               q \notin todo', c.planned, q \in c.plan, HasRows(q, c.unit)
        PROVE  TakenFrom(q)'
    <3>1. CASE q = p
      <4>1. c \in AllCandidates BY <1>T, AllTyped
      <4>2. c \in DirectCandidates(p) BY <4>1, <2>5, <3>1 DEF DirectCandidates
      <4>3. DirectCandidates(p) \in SUBSET Candidate BY AllTyped DEF DirectCandidates
      <4>4. ~c.loose BY <4>2, <4>3, <2>5, CandidateTypes
      <4>5. Chosen(p, DirectCandidates(p)) # {}
        BY <4>2, <4>3, <4>4, <2>5, <3>1, SomeChosen DEF HasRows
      <4> QED BY <4>5, <2>3, <2>5, <3>1 DEF HasRows
    <3>2. CASE q # p
      BY <3>2, <2>2, <2>3, <2>5 DEF Search, DirectDone
    <3> QED BY <3>1, <3>2
  <2>6. DirectDone' BY <2>2, <2>5, <1>L, <1>S DEF DirectDone
  <2> QED BY <2>2, <2>4, <2>6 DEF Search, ListsIntact, ScanDone, SegmentDone
<1>4. CASE StartScan
  <2>1. /\ phase = "direct" /\ phase' = "storage" /\ (stop \/ todo = {})
        /\ lists' = [s \in Sids |-> Kept(layout.assist[s], FallbackCandidates)]
        /\ todo' = {p \in Pages : PageOf(p).group \in FallbackGroups}
        /\ processed' = processed /\ failed' = failed /\ found' = found
        /\ Ignore
    BY <1>4 DEF StartScan
  <2>2. stop' = stop /\ \A q : TakenFrom(q)' <=> TakenFrom(q) BY <2>1, IgnoreKeeps
  <2>3. MarksJustified' BY <2>1, <1>S DEF Search, MarksJustified
  <2>4. ListsIntact'
    <3>1. ASSUME NEW s \in Sids
          PROVE  Range(Kept(layout.assist[s], FallbackCandidates))
                   = Range(layout.assist[s]) \cap FallbackCandidates
      <4>1. layout.assist[s] \in Seq(Candidate) BY LayoutTypes
      <4> QED BY <4>1, KeptFacts
    <3> QED BY <3>1, <2>1, <1>L, <1>C DEF ListsIntact
  <2>5. ASSUME ~stop' PROVE DirectDone'
    BY <2>1, <2>2, <2>5, <1>L, <1>S DEF Search, DirectDone
  <2>6. ScanDone'
    <3>1. ASSUME NEW q \in Pages, NEW c \in Range(layout.assist[PageOf(q).sid]),
                 Claims(q, c)
          PROVE  q \in todo'
      <4>1. c \in FallbackCandidates /\ c.group = PageOf(q).group BY <3>1, ClaimScanned
      <4> QED BY <4>1, <2>1 DEF FallbackGroups
    <3> QED BY <3>1, <2>1, <1>L, <1>S, <1>C DEF ScanDone
  <2> QED BY <2>1, <2>3, <2>4, <2>5, <2>6 DEF Search, SegmentDone
<1>5. CASE ScanAborts
  <2>1. phase' = "failed" /\ processed' = processed BY <1>5 DEF ScanAborts
  <2> QED BY <2>1 DEF Search, MarksJustified, ListsIntact, DirectDone, ScanDone, SegmentDone
<1>6. CASE ScanSkips
  <2>1. PICK p \in Pages :
          /\ Visit(p, "storage") /\ Ignore
          /\ p \in processed \/ PageOf(p).kind # "data" \/ lists[PageOf(p).sid] = <<>>
          /\ UNCHANGED <<scan, processed>>
    BY <1>6 DEF ScanSkips
  <2>2. /\ phase = "storage" /\ phase' = "storage" /\ ~stop /\ todo' = todo \ {p} /\ p \in todo
        /\ lists' = lists /\ failed' = failed /\ found' = found /\ processed' = processed
    BY <2>1 DEF Visit, FirstOf, scan
  <2>3. stop' = stop /\ \A q : TakenFrom(q)' <=> TakenFrom(q) BY <2>1, IgnoreKeeps
  <2>4. MarksJustified' BY <2>2, <1>S, <1>C DEF Search, MarksJustified
  <2>5. ListsIntact' BY <2>2, <1>L, <1>C DEF Search, ListsIntact
  <2>6. DirectDone' BY <2>2, <2>3, <1>L, <1>S DEF Search, DirectDone
  <2>7. ASSUME NEW q \in Pages, NEW c \in Range(layout.assist[PageOf(q).sid]),
               q \notin todo', Claims(q, c), ~PlanMatches(q), HasRows(q, c.unit)
        PROVE  TakenFrom(q)'
    <3>1. CASE q = p
      <4>1. c \in FallbackCandidates BY <2>7, ClaimScanned
      <4>2. c \in Range(lists[PageOf(p).sid])
        BY <4>1, <3>1, <2>2, <1>T DEF Search, ListsIntact
      <4>3. p \in processed BY <2>1, <2>7, <3>1, <4>2 DEF HasRows, Range
      <4> QED BY <4>3, <2>2, <2>7, <3>1 DEF Search, MarksJustified
    <3>2. CASE q # p
      BY <3>2, <2>2, <2>3, <2>7 DEF Search, ScanDone
    <3> QED BY <3>1, <3>2
  <2>8. ScanDone' BY <2>2, <2>7, <1>L, <1>S, <1>C DEF ScanDone
  <2> QED BY <2>2, <2>4, <2>5, <2>6, <2>8 DEF Search, SegmentDone
<1>7. CASE ScanPage
  <2>1. PICK p \in Pages :
          /\ Visit(p, "storage")
          /\ lists' = [lists EXCEPT ![PageOf(p).sid] = Overwritten(@, Matched(p))]
          /\ processed' = IF Matched(p) = <<>> THEN processed ELSE processed \cup {p}
          /\ Process(p, FirstChosen(p, Matched(p)))
          /\ UNCHANGED failed
    BY <1>7 DEF ScanPage
  <2>2. /\ phase = "storage" /\ phase' = "storage" /\ ~stop /\ todo' = todo \ {p} /\ p \in todo
        /\ failed' = failed
    BY <2>1 DEF Visit, FirstOf
  <2>3. /\ \A q : TakenFrom(q) => TakenFrom(q)'
        /\ PageOf(p).kind = "data" /\ PageOf(p).rows # <<>>
             /\ FirstChosen(p, Matched(p)) # {} => TakenFrom(p)'
    BY <2>1, ProcessTakes
  <2>4. Range(lists[PageOf(p).sid]) =
           Range(layout.assist[PageOf(p).sid]) \cap FallbackCandidates
    BY <2>2, <1>T DEF Search, ListsIntact
  <2>5. /\ Matched(p) \in Seq(Candidate)
        /\ Range(Matched(p)) =
             {c \in Range(lists[PageOf(p).sid]) : c.group = PageOf(p).group}
    BY MatchedTyped
  <2>6. lists' = lists
    <3>1. Overwritten(lists[PageOf(p).sid], Matched(p)) = lists[PageOf(p).sid]
      BY <2>4, WrittenBack
    <3>2. lists \in [Sids -> Seq(Candidate)] BY DEF TypeOK
    <3> QED BY <2>1, <3>1, <3>2
  <2>7. Matched(p) # <<>> => Claimed(p)
    <3>1. ASSUME Matched(p) # <<>> PROVE Claimed(p)
      <4>1. PICK i \in 1 .. Len(Matched(p)) : TRUE BY <2>5, <3>1, ElementOfRange
      <4> DEFINE c == Matched(p)[i]
      <4>2. c \in Range(Matched(p)) BY <2>5, <4>1, ElementOfRange
      <4> HIDE DEF c
      <4>3. /\ c \in Range(layout.assist[PageOf(p).sid]) /\ c \in FallbackCandidates
            /\ c.group = PageOf(p).group
        BY <4>2, <2>4, <2>5
      <4>4. Claims(p, c) BY <4>3, ClaimScanned
      <4> QED BY <4>3, <4>4 DEF Claimed
    <3> QED BY <3>1
  <2>8. MarksJustified' BY <2>1, <2>2, <2>7, <1>S, <1>C DEF Search, MarksJustified
  <2>9. ListsIntact' BY <2>2, <2>6, <1>L, <1>C DEF Search, ListsIntact
  <2>10. DirectDone' BY <2>2, <2>3, <1>L, <1>S DEF Search, DirectDone
  <2>11. ASSUME NEW q \in Pages, NEW c \in Range(layout.assist[PageOf(q).sid]),
                q \notin todo', Claims(q, c), ~PlanMatches(q), HasRows(q, c.unit)
         PROVE  TakenFrom(q)'
    <3>1. CASE q = p
      <4>1. c \in FallbackCandidates /\ c.group = PageOf(p).group /\ ~c.loose
        BY <2>11, <3>1, ClaimScanned
      <4>2. c \in Range(Matched(p)) BY <4>1, <3>1, <2>4, <2>5
      <4>3. FirstChosen(p, Matched(p)) # {}
        BY <4>1, <4>2, <2>5, <2>11, <3>1, SomeFirstChosen DEF HasRows
      <4> QED BY <4>3, <2>3, <2>11, <3>1 DEF HasRows
    <3>2. CASE q # p
      BY <3>2, <2>2, <2>3, <2>11 DEF Search, ScanDone
    <3> QED BY <3>1, <3>2
  <2>12. ScanDone' BY <2>2, <2>11, <1>L, <1>S, <1>C DEF ScanDone
  <2> QED BY <2>2, <2>8, <2>9, <2>10, <2>12 DEF Search, SegmentDone
<1>8. CASE StartSegments
  <2>1. /\ phase = "storage" /\ phase' = "segment" /\ (stop \/ todo = {})
        /\ todo' = UNION {layout.segment[u] : u \in Unresolved}
        /\ processed' = processed /\ failed' = failed /\ found' = found
        /\ Ignore
    BY <1>8 DEF StartSegments, scan
  <2>2. stop' = stop /\ \A q : TakenFrom(q)' <=> TakenFrom(q) BY <2>1, IgnoreKeeps
  <2>3. MarksJustified' BY <2>1, <1>S, <1>C DEF Search, MarksJustified
  <2>4. ASSUME ~stop' PROVE DirectDone' /\ ScanDone'
    BY <2>1, <2>2, <2>4, <1>L, <1>S, <1>C DEF Search, DirectDone, ScanDone
  <2>5. SegmentDone' BY <2>1, <1>L, <1>C DEF SegmentDone
  <2> QED BY <2>1, <2>3, <2>4, <2>5 DEF Search, ListsIntact
<1>9. CASE SegmentSkips
  <2>1. PICK p \in Pages :
          /\ Visit(p, "segment") /\ Ignore
          /\ p \in processed \/ PageOf(p).kind \in {"unreadable", "foreign"}
          /\ UNCHANGED <<scan, processed>>
    BY <1>9 DEF SegmentSkips
  <2>2. /\ phase = "segment" /\ phase' = "segment" /\ ~stop /\ todo' = todo \ {p} /\ p \in todo
        /\ failed' = failed /\ found' = found /\ processed' = processed
    BY <2>1 DEF Visit, FirstOf, scan
  <2>3. stop' = stop /\ \A q : TakenFrom(q)' <=> TakenFrom(q) BY <2>1, IgnoreKeeps
  <2>4. MarksJustified' BY <2>2, <1>S, <1>C DEF Search, MarksJustified
  <2>5. DirectDone' /\ ScanDone' BY <2>2, <2>3, <1>L, <1>S, <1>C DEF Search, DirectDone, ScanDone
  <2>6. ASSUME NEW q \in Pages, NEW u \in Unresolved, q \notin todo', q \in layout.segment[u],
               ~PlanMatches(q), ~Claimed(q), HasRows(q, u)
        PROVE  TakenFrom(q)'
    <3>1. CASE q = p
      <4>1. p \in processed BY <2>1, <2>6, <3>1 DEF HasRows
      <4> QED BY <4>1, <2>2, <2>6, <3>1 DEF Search, MarksJustified
    <3>2. CASE q # p
      BY <3>2, <2>2, <2>3, <2>6 DEF Search, SegmentDone
    <3> QED BY <3>1, <3>2
  <2>7. SegmentDone' BY <2>2, <2>6, <1>L, <1>S, <1>C DEF SegmentDone
  <2> QED BY <2>2, <2>4, <2>5, <2>7 DEF Search, ListsIntact
<1>10. CASE SegmentPage
  <2>1. PICK p \in Pages :
          /\ Visit(p, "segment")
          /\ processed' = processed \cup {p}
          /\ Process(p, SegmentUnits(p) \cap PageOf(p).fits)
          /\ UNCHANGED scan
    BY <1>10 DEF SegmentPage
  <2>2. /\ phase = "segment" /\ phase' = "segment" /\ ~stop /\ todo' = todo \ {p} /\ p \in todo
        /\ failed' = failed /\ found' = found
    BY <2>1 DEF Visit, FirstOf, scan
  <2>3. /\ \A q : TakenFrom(q) => TakenFrom(q)'
        /\ PageOf(p).kind = "data" /\ PageOf(p).rows # <<>>
             /\ SegmentUnits(p) \cap PageOf(p).fits # {} => TakenFrom(p)'
    BY <2>1, ProcessTakes
  <2>4. MarksJustified' BY <2>1, <2>2, <1>S, <1>C DEF Search, MarksJustified
  <2>5. DirectDone' /\ ScanDone' BY <2>2, <2>3, <1>L, <1>S, <1>C DEF Search, DirectDone, ScanDone
  <2>6. ASSUME NEW q \in Pages, NEW u \in Unresolved, q \notin todo', q \in layout.segment[u],
               ~PlanMatches(q), ~Claimed(q), HasRows(q, u)
        PROVE  TakenFrom(q)'
    <3>1. CASE q = p
      BY <2>3, <2>6, <3>1 DEF HasRows, SegmentUnits
    <3>2. CASE q # p
      BY <3>2, <2>2, <2>3, <2>6 DEF Search, SegmentDone
    <3> QED BY <3>1, <3>2
  <2>7. SegmentDone' BY <2>2, <2>6, <1>L, <1>S, <1>C DEF SegmentDone
  <2> QED BY <2>2, <2>4, <2>5, <2>7 DEF Search, ListsIntact
<1>11. CASE RecoveryPage
  BY <1>11 DEF RecoveryPage, Visit, Search
<1>12. CASE StartPending
  <2>1. /\ phase = "segment" /\ phase' = "pending" /\ (stop \/ todo = {})
        /\ processed' = processed /\ failed' = failed /\ found' = found
        /\ Ignore
    BY <1>12 DEF StartPending, scan, Search
  <2>2. stop' = stop /\ \A q : TakenFrom(q)' <=> TakenFrom(q) BY <2>1, IgnoreKeeps
  <2>3. MarksJustified' BY <2>1 DEF MarksJustified
  <2>4. ASSUME ~stop' PROVE DirectDone' /\ ScanDone' /\ SegmentDone'
    BY <2>1, <2>2, <2>4, <1>L, <1>S, <1>C DEF Search, DirectDone, ScanDone, SegmentDone
  <2> QED BY <2>1, <2>3, <2>4 DEF Search, ListsIntact
<1>13. CASE WritePending \/ Finish
  <2>1. /\ phase = "pending" /\ phase' \in {"pending", "done"}
        /\ processed' = processed /\ failed' = failed /\ found' = found
        /\ stop' = stop /\ taken' = taken
    BY <1>13 DEF WritePending, Finish, Ignore, scan
  <2>2. \A q : TakenFrom(q)' <=> TakenFrom(q) BY <2>1 DEF TakenFrom
  <2>3. MarksJustified' BY <2>1 DEF MarksJustified
  <2>4. ASSUME ~stop' PROVE DirectDone' /\ ScanDone' /\ SegmentDone'
    BY <2>1, <2>2, <2>4, <1>L, <1>S, <1>C DEF Search, DirectDone, ScanDone, SegmentDone
  <2> QED BY <2>1, <2>3, <2>4 DEF Search, ListsIntact
<1>14. CASE WriteFails
  <2>1. phase' = "failed" BY <1>14 DEF WriteFails
  <2> QED BY <2>1 DEF Search, MarksJustified, ListsIntact, DirectDone, ScanDone, SegmentDone
<1>15. CASE Ended BY <1>15, <1>1 DEF Ended
<1> QED
  BY <1>1, <1>2, <1>3, <1>4, <1>5, <1>6, <1>7, <1>8, <1>9, <1>10, <1>11,
    <1>12, <1>13, <1>14, <1>15 DEF Next

(***************************************************************************)
(* The rows written and those put aside                                    *)
(***************************************************************************)
LEMMA RangeOfTail ==
  ASSUME NEW S, NEW s \in Seq(S), s # <<>>
  PROVE  /\ Range(s) = {Head(s)} \cup Range(Tail(s))
         /\ Tail(s) \in Seq(S) /\ Len(Tail(s)) = Len(s) - 1 /\ Len(s) \in Nat \ {0}
<1>1. /\ Len(s) \in Nat /\ Len(s) # 0 /\ Head(s) = s[1]
      /\ Tail(s) \in Seq(S) /\ Len(Tail(s)) = Len(s) - 1
      /\ \A i \in 1 .. Len(s) - 1 : Tail(s)[i] = s[i + 1]
  OBVIOUS
<1> DEFINE t == Tail(s)
<1>2. /\ Range(s) = {s[i] : i \in 1 .. Len(s)}
      /\ Range(t) = {t[i] : i \in 1 .. Len(t)}
  <2>1. t \in Seq(S) BY <1>1
  <2> HIDE DEF t
  <2>2. DOMAIN t = 1 .. Len(t) /\ DOMAIN s = 1 .. Len(s) BY <2>1
  <2> QED BY <2>2 DEF Range
<1>3. ASSUME NEW e \in Range(s) PROVE e \in {s[1]} \cup Range(t)
  <2>1. PICK i \in 1 .. Len(s) : e = s[i] BY <1>2
  <2>2. CASE i = 1 BY <2>1, <2>2
  <2>3. CASE i # 1
    <3>1. i - 1 \in 1 .. Len(t) /\ (i - 1) + 1 = i BY <1>1, <2>1, <2>3
    <3>2. e = t[i - 1] BY <1>1, <2>1, <3>1
    <3> QED BY <3>1, <3>2, <1>2
  <2> QED BY <2>2, <2>3
<1>4. s[1] \in Range(s)
  <2>1. 1 \in 1 .. Len(s) BY <1>1
  <2> QED BY <2>1, <1>2
<1>5. ASSUME NEW e \in Range(t) PROVE e \in Range(s)
  <2>1. PICK i \in 1 .. Len(t) : e = t[i] BY <1>2
  <2>2. i + 1 \in 1 .. Len(s) /\ e = s[i + 1] BY <1>1, <2>1
  <2> QED BY <2>2, <1>2
<1> HIDE DEF t
<1> QED BY <1>1, <1>3, <1>4, <1>5 DEF t

\* A step that gives no rows
LEMMA BooksIgnored ==
  ASSUME Books, Ignore, layout' = layout,
         \/ phase' = phase
         \/ phase \in Loops
         \/ phase' = "done" /\ pending = <<>> /\ phase = "pending"
         \/ phase' = "failed",
         phase' # "done" \/ pending = <<>>
  PROVE  Books'
<1>1. /\ located' = located /\ stop' = stop /\ pending' = pending /\ cover' = cover
      /\ taken' = taken /\ written' = written
  BY DEF Ignore
<1>2. \A p : PageOf(p)' = PageOf(p) BY SameLayout
<1>3. RowsReal' BY <1>1, <1>2 DEF Books, RowsReal, Loops
<1>4. KeysEarned' /\ KeysMarked' /\ Counted'
  BY <1>1 DEF Books, KeysEarned, KeysMarked, Counted, CoverageKeys
<1>5. (FirstColumnUnique' <=> FirstColumnUnique) /\ (KeysReadable' <=> KeysReadable)
  BY <1>2 DEF FirstColumnUnique, KeysReadable, TableRows
<1>6. RowsHeld => RowsHeld' BY <1>1, <1>2 DEF RowsHeld
<1> QED BY <1>1, <1>3, <1>4, <1>5, <1>6 DEF Books

LEMMA BooksTaken ==
  ASSUME Types, Books, NEW p \in Pages, NEW u \in Units, Take(p, u), ~stop,
         phase \in Loops, phase' = phase, layout' = layout
  PROVE  Books'
<1> DEFINE rows == PageOf(p).rows
           n == Room(Len(rows))
           all == Range(TakenSlots(p, u))
           whole == WholeSlots(p, u)
           cuts == CutSlots(p, u)
           new == [page |-> p, unit |-> u, phase |-> phase]
           marks == {s.row : s \in whole}
<1>1. /\ located' = located + n
      /\ stop' = (n < Len(rows))
      /\ cover' = Marked(cover, u, marks)
      /\ pending' = pending \o cuts
      /\ written' = written \cup whole
      /\ taken' = taken \cup {new}
  BY TakeIs
<1>2. \A q : PageOf(q)' = PageOf(q) BY SameLayout
<1>3. /\ n \in 0 .. Len(rows) /\ cuts \in Seq(Slots)
      /\ all = {[page |-> p, slot |-> i, unit |-> u, row |-> rows[i]] : i \in 1 .. n}
      /\ Range(cuts) = all \ whole
      /\ IsFiniteSet(whole)
      /\ Len(cuts) + Cardinality(whole) <= n
      /\ all \subseteq Slots
  <2>1. TakenSlots(p, u) \in Seq(Slots) BY SlotFacts
  <2>2. all \subseteq Slots BY <2>1, ElementOfRange
  <2> QED BY <2>2, SlotFacts
<1>4. rows \in Seq(Row) /\ Len(rows) \in Nat BY LayoutTypes DEF Types
<1>5. \A s \in all : s.page = p /\ s.unit = u /\ s.row \in Range(rows) /\ s.row \in Row
  <2>1. \A i \in 1 .. n : i \in 1 .. Len(rows) BY <1>3, <1>4
  <2>2. \A i \in 1 .. n : rows[i] \in Range(rows) /\ rows[i] \in Row
    BY <2>1, <1>4, ElementOfRange
  <2> QED BY <2>2, <1>3
<1>6. whole = {s \in all : ~s.row.cut} BY DEF WholeSlots
<1>7. new.page = p /\ new.unit = u OBVIOUS
<1>T. /\ cover \in [Units -> CoverType] /\ pending \in Seq(Slots) /\ written \subseteq Slots
      /\ located \in Nat
  BY TypeParts DEF Types
<1> HIDE DEF n, all, whole, cuts, new
<1>8. Range(pending') = Range(pending) \cup (all \ whole) BY <1>1, <1>3, <1>T, RangeConcatenation
<1>9. RowsReal'
  <2>1. \A w \in written' \cup Range(pending') :
          w.page \in Pages /\ w.row \in Range(PageOf(w.page).rows)
    BY <1>1, <1>5, <1>6, <1>8 DEF Books, RowsReal
  <2>2. \A w \in Range(pending') : w.row.cut BY <1>6, <1>8 DEF Books, RowsReal
  <2>3. phase' \in Loops BY DEF Loops
  <2>4. \A w \in written' : ~w.row.cut BY <1>1, <1>6 DEF Books, RowsReal, Loops
  <2> QED BY <2>1, <2>2, <2>3, <2>4, <1>2 DEF RowsReal, Loops
<1>10. marks \in SUBSET Row BY <1>5, <1>6
<1> DEFINE ks == UNION {CoverageKeys(r) : r \in marks}
<1>11. /\ \A v \in Units : v # u => cover'[v] = cover[v]
       /\ cover'[u].keys \subseteq cover[u].keys \cup ks
       /\ ~cover'[u].overflow => ~cover[u].overflow
       /\ u \in layout.tracked /\ ~cover'[u].overflow => cover'[u].keys = cover[u].keys \cup ks
  <2> HIDE DEF marks
  <2> QED BY <1>1, <1>10, <1>T, MarkedFacts
<1>12. ks = UNION {CoverageKeys(s.row) : s \in whole} OBVIOUS
<1> HIDE DEF marks, ks
<1>13. KeysEarned'
  <2>1. ASSUME NEW v \in Units, NEW k \in cover'[v].keys
        PROVE  \E w \in written' : w.unit = v /\ k \in CoverageKeys(w.row)
    <3>1. CASE k \in cover[v].keys BY <3>1, <1>1 DEF Books, KeysEarned
    <3>2. CASE k \notin cover[v].keys
      <4>1. v = u /\ k \in ks BY <3>2, <2>1, <1>11
      <4>2. PICK s \in whole : k \in CoverageKeys(s.row) BY <4>1, <1>12
      <4>3. s \in written' /\ s.unit = v BY <4>1, <1>1, <1>5, <1>6
      <4> QED BY <4>2, <4>3
    <3> QED BY <3>1, <3>2
  <2> QED BY <2>1 DEF KeysEarned, CoverageKeys
<1>14. KeysMarked'
  <2>1. ASSUME NEW w \in written', w.unit \in layout.tracked, ~cover'[w.unit].overflow
        PROVE  CoverageKeys(w.row) \subseteq cover'[w.unit].keys
    <3>1. CASE w \in written
      <4>1. w.unit \in Units BY <3>1, <1>T DEF Slots
      <4>2. ~cover[w.unit].overflow BY <4>1, <2>1, <1>11
      <4>3. CoverageKeys(w.row) \subseteq cover[w.unit].keys
        BY <3>1, <4>2, <2>1 DEF Books, KeysMarked
      <4>4. cover[w.unit].keys \subseteq cover'[w.unit].keys BY <4>1, <2>1, <1>11
      <4> QED BY <4>3, <4>4
    <3>2. CASE w \in whole
      <4>1. w.unit = u BY <3>2, <1>5, <1>6
      <4>2. CoverageKeys(w.row) \subseteq ks BY <3>2, <1>12
      <4> QED BY <4>1, <4>2, <2>1, <1>11
    <3> QED BY <3>1, <3>2, <1>1
  <2> QED BY <2>1 DEF KeysMarked, CoverageKeys
<1>15. Counted'
  <2> DEFINE a == Cardinality(written)
             b == Cardinality(whole)
             c == Cardinality(written \cup whole)
             d == Cardinality(written \cap whole)
  <2>1. IsFiniteSet(written) /\ a + Len(pending) <= located BY DEF Books, Counted
  <2>2. /\ IsFiniteSet(written \cup whole) /\ c = a + b - d
        /\ IsFiniteSet(written \cap whole)
    BY <2>1, <1>3, FS_Union, FS_Intersection
  <2>3. a \in Nat /\ b \in Nat /\ d \in Nat BY <2>1, <2>2, <1>3, FS_CardinalityType
  <2>4. Len(pending') = Len(pending) + Len(cuts) /\ Len(pending) \in Nat /\ Len(cuts) \in Nat
    BY <1>1, <1>3, <1>T
  <2>5. n \in Nat BY <1>3, <1>4
  <2>6. Len(cuts) + b <= n BY <1>3
  <2> HIDE DEF a, b, c, d
  <2>7. c + Len(pending') <= located + n BY <2>1, <2>2, <2>3, <2>4, <2>5, <2>6, <1>T
  <2> QED BY <2>2, <2>7, <1>1 DEF Counted, c
<1>16. ASSUME FirstColumnUnique', KeysReadable', ~stop' PROVE RowsHeld'
  <2>1. FirstColumnUnique /\ KeysReadable
    BY <1>16, <1>2 DEF FirstColumnUnique, KeysReadable, TableRows
  <2>2. RowsHeld BY <2>1 DEF Books
  <2>3. n = Len(rows)
    <3>1. ~(n < Len(rows)) BY <1>16, <1>1, Zenon
    <3> QED BY <3>1, <1>3, <1>4
  <2>4. written' \cup Range(pending') = (written \cup Range(pending)) \cup all
    BY <1>1, <1>6, <1>8
  <2>5. ASSUME NEW e \in taken', NEW i \in DOMAIN PageOf(e.page).rows
        PROVE  \E w \in written' \cup Range(pending') :
                 w.unit = e.unit /\ w.row.key = PageOf(e.page).rows[i].key
    <3>1. CASE e \in taken BY <3>1, <2>2, <2>4, <2>5 DEF RowsHeld
    <3>2. CASE e = new
      <4>1. e.page = p /\ e.unit = u BY <3>2, <1>7
      <4>2. i \in 1 .. n BY <4>1, <2>3, <2>5, <1>4
      <4> DEFINE s == [page |-> p, slot |-> i, unit |-> u, row |-> rows[i]]
      <4>3. s \in all BY <4>2, <1>3
      <4>4. s.unit = u /\ s.row = rows[i] OBVIOUS
      <4> HIDE DEF s
      <4>5. s \in written' \cup Range(pending') /\ s.unit = e.unit
            /\ s.row.key = PageOf(e.page).rows[i].key
        BY <4>1, <4>3, <4>4, <2>4
      <4> QED BY <4>5
    <3> QED BY <3>1, <3>2, <1>1
  <2> QED BY <2>5, <1>2 DEF RowsHeld
<1> QED BY <1>9, <1>13, <1>14, <1>15, <1>16 DEF Books

\* A row whose key was written for another row is that row.
LEMMA CoveredIsWritten ==
  ASSUME Types, Books, FirstColumnUnique, KeysReadable, pending # <<>>,
         Covered(Head(pending))
  PROVE  \E w \in written :
           w.unit = Head(pending).unit /\ w.row.key = Head(pending).row.key
<1> DEFINE e == Head(pending)
<1>1. e \in Range(pending) /\ e \in Slots
  <2>1. pending \in Seq(Slots) BY TypeParts DEF Types
  <2>2. e \in Range(pending) BY <2>1, RangeOfTail
  <2> QED BY <2>1, <2>2, ElementOfRange
<1> HIDE DEF e
<1>2. PICK k \in CoverageKeys(e.row) : k \in cover[e.unit].keys BY DEF Covered, e
<1>3. PICK w \in written : w.unit = e.unit /\ k \in CoverageKeys(w.row)
  <2>1. e.unit \in Units BY <1>1 DEF Slots
  <2> QED BY <2>1, <1>2 DEF Books, KeysEarned
<1>4. e.row \in TableRows /\ w.row \in TableRows
  BY <1>1 DEF Books, RowsReal, TableRows
<1>5. k \in {e.row.key, e.row.weak} /\ k \in {w.row.key, w.row.weak}
  BY <1>2, <1>3 DEF CoverageKeys
<1>6. w.row.key = e.row.key
  BY <1>4, <1>5 DEF FirstColumnUnique, KeysReadable
<1> QED BY <1>3, <1>6 DEF e

LEMMA BooksWritten ==
  ASSUME Types, Books, WritePending
  PROVE  Books'
<1> DEFINE e == Head(pending)
<1>1. /\ phase = "pending" /\ pending # <<>> /\ pending' = Tail(pending)
      /\ \/ Covered(e) /\ cover' = cover /\ written' = written
         \/ ~Covered(e) /\ written' = written \cup {e} /\ cover' = Marked(cover, e.unit, {e.row})
      /\ phase' = phase /\ layout' = layout /\ located' = located /\ stop' = stop
      /\ taken' = taken
  BY DEF WritePending
<1>2. \A q : PageOf(q)' = PageOf(q) BY <1>1, SameLayout
<1>T. /\ cover \in [Units -> CoverType] /\ pending \in Seq(Slots) /\ written \subseteq Slots
      /\ located \in Nat
  BY TypeParts DEF Types
<1>3. /\ Range(pending) = {e} \cup Range(pending')
      /\ Len(pending') = Len(pending) - 1 /\ Len(pending) \in Nat \ {0}
  BY <1>1, <1>T, RangeOfTail
<1>4. e \in Slots /\ e.unit \in Units /\ e.row \in Row
  <2>1. e \in Slots BY <1>3, <1>T, ElementOfRange
  <2> QED BY <2>1 DEF Slots
<1>C. Covered(e) /\ FirstColumnUnique /\ KeysReadable =>
        \E w \in written : w.unit = e.unit /\ w.row.key = e.row.key
  BY <1>1, CoveredIsWritten
<1> HIDE DEF e
<1>5. written' \cup Range(pending') \subseteq written \cup Range(pending)
  BY <1>1, <1>3
<1>6. RowsReal'
  BY <1>1, <1>2, <1>3, <1>5 DEF Books, RowsReal
<1> DEFINE one == {e.row}
           ks == UNION {CoverageKeys(r) : r \in one}
<1>7. ks = CoverageKeys(e.row) /\ one \in SUBSET Row BY <1>4
<1>M. one = {e.row} OBVIOUS
<1>8. cover' = Marked(cover, e.unit, {e.row}) =>
       /\ \A v \in Units : v # e.unit => cover'[v] = cover[v]
       /\ cover'[e.unit].keys \subseteq cover[e.unit].keys \cup ks
       /\ ~cover'[e.unit].overflow => ~cover[e.unit].overflow
       /\ e.unit \in layout.tracked /\ ~cover'[e.unit].overflow
            => cover'[e.unit].keys = cover[e.unit].keys \cup ks
  <2> DEFINE d == Marked(cover, e.unit, one)
  <2> HIDE DEF one
  <2>1. /\ \A v \in Units : v # e.unit => d[v] = cover[v]
        /\ d[e.unit].keys \subseteq cover[e.unit].keys \cup ks
        /\ ~d[e.unit].overflow => ~cover[e.unit].overflow
        /\ e.unit \in layout.tracked /\ ~d[e.unit].overflow
             => d[e.unit].keys = cover[e.unit].keys \cup ks
    BY <1>4, <1>7, <1>T, MarkedFacts
  <2>2. d = Marked(cover, e.unit, {e.row}) BY <1>M
  <2> HIDE DEF d, ks
  <2> QED BY <2>1, <2>2
<1> HIDE DEF one, ks
<1>9. KeysEarned'
  <2>1. ASSUME NEW v \in Units, NEW k \in cover'[v].keys
        PROVE  \E w \in written' : w.unit = v /\ k \in CoverageKeys(w.row)
    <3>1. CASE k \in cover[v].keys BY <3>1, <1>1 DEF Books, KeysEarned
    <3>2. CASE k \notin cover[v].keys
      <4>1. v = e.unit /\ k \in ks /\ e \in written' BY <3>2, <2>1, <1>1, <1>8
      <4> QED BY <4>1, <1>7
    <3> QED BY <3>1, <3>2
  <2> QED BY <2>1 DEF KeysEarned, CoverageKeys
<1>10. KeysMarked'
  <2>1. ASSUME NEW w \in written', w.unit \in layout.tracked, ~cover'[w.unit].overflow
        PROVE  CoverageKeys(w.row) \subseteq cover'[w.unit].keys
    <3>1. CASE w \in written
      <4>1. w.unit \in Units BY <3>1, <1>T DEF Slots
      <4>2. ~cover[w.unit].overflow BY <4>1, <2>1, <1>1, <1>8
      <4>3. CoverageKeys(w.row) \subseteq cover[w.unit].keys
        BY <3>1, <4>2, <2>1 DEF Books, KeysMarked
      <4>4. cover[w.unit].keys \subseteq cover'[w.unit].keys BY <4>1, <2>1, <1>1, <1>8
      <4> QED BY <4>3, <4>4
    <3>2. CASE w \notin written
      <4>1. w = e /\ cover' = Marked(cover, e.unit, {e.row}) BY <3>2, <1>1
      <4> QED BY <4>1, <2>1, <1>7, <1>8
    <3> QED BY <3>1, <3>2
  <2> QED BY <2>1, <1>1 DEF KeysMarked, CoverageKeys
<1>11. Counted'
  <2> DEFINE a == Cardinality(written)
             c == Cardinality(written \cup {e})
  <2>1. IsFiniteSet(written) /\ a + Len(pending) <= located BY DEF Books, Counted
  <2>2. IsFiniteSet(written \cup {e}) /\ c = (IF e \in written THEN a ELSE a + 1)
    BY <2>1, FS_AddElement
  <2>3. a \in Nat BY <2>1, FS_CardinalityType
  <2> HIDE DEF a, c
  <2>4. c \in Nat /\ c <= a + 1 BY <2>2, <2>3
  <2>5. a + Len(pending') <= located /\ c + Len(pending') <= located
    BY <2>1, <2>3, <2>4, <1>3, <1>T
  <2> QED BY <2>1, <2>2, <2>5, <1>1 DEF Counted, a, c
<1>12. ASSUME FirstColumnUnique', KeysReadable', ~stop' PROVE RowsHeld'
  <2>1. FirstColumnUnique /\ KeysReadable
    BY <1>12, <1>2 DEF FirstColumnUnique, KeysReadable, TableRows
  <2>2. RowsHeld BY <2>1, <1>1, <1>12 DEF Books
  <2>3. ASSUME NEW w \in written \cup Range(pending)
        PROVE  \E v \in written' \cup Range(pending') :
                 v.unit = w.unit /\ v.row.key = w.row.key
    <3>1. CASE w \in written BY <3>1, <1>1
    <3>2. CASE w \in Range(pending') BY <3>2
    <3>3. CASE w = e BY <3>3, <1>1, <1>C, <2>1
    <3> QED BY <3>1, <3>2, <3>3, <1>3
  <2> QED BY <2>2, <2>3, <1>1, <1>2 DEF RowsHeld
<1> QED BY <1>6, <1>9, <1>10, <1>11, <1>12 DEF Books

LEMMA BooksInit == Init => Books /\ HistoricalRowsOnce
<1> SUFFICES ASSUME Init PROVE Books /\ HistoricalRowsOnce OBVIOUS
<1>1. /\ pending = <<>> /\ written = {} /\ taken = {} /\ located = 0
      /\ cover = [u \in Units |-> EmptyCover] /\ phase \in Loops
  BY DEF Init, Loops
<1>2. Range(<<>>) = {} BY DEF Range
<1>3. RowsReal BY <1>1, <1>2 DEF RowsReal, Loops
<1>4. KeysEarned BY <1>1 DEF KeysEarned, EmptyCover
<1>5. KeysMarked /\ RowsHeld /\ HistoricalRowsOnce
  BY <1>1 DEF KeysMarked, RowsHeld, HistoricalRowsOnce
<1>6. Counted
  <2>1. IsFiniteSet({}) /\ Cardinality({}) = 0 /\ Len(<<>>) = 0 BY FS_EmptySet
  <2> QED BY <1>1, <2>1 DEF Counted
<1> QED BY <1>3, <1>4, <1>5, <1>6 DEF Books

\* A loop that visits a page gives its rows or nothing.
LEMMA VisitGives ==
  ASSUME TypeOK, Next
  PROVE  \/ \E p \in Pages : \E u \in Units :
              Take(p, u) /\ ~stop /\ phase \in Loops /\ phase' = phase
         \/ /\ Ignore
            /\ \/ phase' = phase
               \/ phase \in Loops
               \/ phase' = "done" /\ pending = <<>> /\ phase = "pending"
               \/ phase' = "failed"
            /\ phase' # "done" \/ pending = <<>> \/ phase' = phase
         \/ WritePending
<1> DEFINE Goal == \/ \E p \in Pages : \E u \in Units :
                        Take(p, u) /\ ~stop /\ phase \in Loops /\ phase' = phase
                   \/ Ignore /\ phase' = phase
<1>0. ASSUME NEW p \in Pages, NEW loop \in Loops, NEW units \in SUBSET Units,
             Visit(p, loop), Process(p, units)
      PROVE  Goal
  BY <1>0 DEF Visit, Process
<1> HIDE DEF Goal
<1>1. CASE DirectPage
  <2>1. PICK p \in Pages : Visit(p, "direct") /\ Process(p, Chosen(p, DirectCandidates(p)))
    BY <1>1 DEF DirectPage
  <2>2. Chosen(p, DirectCandidates(p)) \in SUBSET Units BY ChoicesTyped
  <2>3. "direct" \in Loops BY DEF Loops
  <2>4. Goal BY <1>0, <2>1, <2>2, <2>3
  <2> QED BY <2>4 DEF Goal
<1>2. CASE ScanPage
  <2>1. PICK p \in Pages : Visit(p, "storage") /\ Process(p, FirstChosen(p, Matched(p)))
    BY <1>2 DEF ScanPage
  <2>2. FirstChosen(p, Matched(p)) \in SUBSET Units BY MatchedTyped, ChoicesTyped
  <2>3. "storage" \in Loops BY DEF Loops
  <2>4. Goal BY <1>0, <2>1, <2>2, <2>3
  <2> QED BY <2>4 DEF Goal
<1>3. CASE SegmentPage
  <2>1. PICK p \in Pages : Visit(p, "segment") /\ Process(p, SegmentUnits(p) \cap PageOf(p).fits)
    BY <1>3 DEF SegmentPage
  <2>2. SegmentUnits(p) \cap PageOf(p).fits \in SUBSET Units BY ChoicesTyped
  <2>3. "segment" \in Loops BY DEF Loops
  <2>4. Goal BY <1>0, <2>1, <2>2, <2>3
  <2> QED BY <2>4 DEF Goal
<1>4. CASE RecoveryPage
  <2>1. PICK p \in Pages : Visit(p, "recovery") /\ Process(p, FirstChosen(p, RecoveryList(p)))
    BY <1>4 DEF RecoveryPage
  <2>2. FirstChosen(p, RecoveryList(p)) \in SUBSET Units BY RecoveryListTyped, ChoicesTyped
  <2>3. "recovery" \in Loops BY DEF Loops
  <2>4. Goal BY <1>0, <2>1, <2>2, <2>3
  <2> QED BY <2>4 DEF Goal
<1>5. CASE DirectFails \/ ScanSkips \/ SegmentSkips
  BY <1>5 DEF DirectFails, ScanSkips, SegmentSkips, Visit
<1>6. CASE StartScan \/ StartSegments \/ StartPending
  BY <1>6 DEF StartScan, StartSegments, StartPending, Loops
<1>7. CASE ScanAborts \/ WriteFails
  BY <1>7 DEF ScanAborts, WriteFails
<1>8. CASE Finish BY <1>8 DEF Finish
<1>9. CASE WritePending BY <1>9
<1>10. CASE Ended BY <1>10 DEF Ended, vars, Ignore
<1> QED
  BY <1>1, <1>2, <1>3, <1>4, <1>5, <1>6, <1>7, <1>8, <1>9, <1>10 DEF Next

LEMMA BooksStep == Types /\ Books /\ [Next]_vars => Books'
<1> SUFFICES ASSUME Types, Books, [Next]_vars PROVE Books' OBVIOUS
<1>1. layout' = layout BY LayoutFixed
<1>D. phase = "done" => pending = <<>> BY DEF Books, RowsReal
<1>2. CASE UNCHANGED vars
  <2>1. Ignore /\ phase' = phase BY <1>2 DEF vars, Ignore
  <2> QED BY <2>1, <1>1, <1>D, BooksIgnored
<1>3. CASE Next
  <2>1. CASE \E p \in Pages : \E u \in Units :
               Take(p, u) /\ ~stop /\ phase \in Loops /\ phase' = phase
    BY <2>1, <1>1, BooksTaken
  <2>2. CASE /\ Ignore
             /\ \/ phase' = phase
                \/ phase \in Loops
                \/ phase' = "done" /\ pending = <<>> /\ phase = "pending"
                \/ phase' = "failed"
             /\ phase' # "done" \/ pending = <<>> \/ phase' = phase
    <3>1. phase' # "done" \/ pending = <<>> BY <2>2, <1>D
    <3> QED BY <2>2, <3>1, <1>1, BooksIgnored
  <2>3. CASE WritePending BY <2>3, BooksWritten
  <2>4. TypeOK BY DEF Types
  <2> QED BY <2>1, <2>2, <2>3, <2>4, <1>3, VisitGives
<1> QED BY <1>2, <1>3

LEMMA OnceStep == Types /\ Books /\ HistoricalRowsOnce /\ [Next]_vars => HistoricalRowsOnce'
<1> SUFFICES ASSUME Types, Books, HistoricalRowsOnce, [Next]_vars
             PROVE  HistoricalRowsOnce'
  OBVIOUS
<1>1. layout' = layout BY LayoutFixed
<1>T. /\ cover \in [Units -> CoverType] /\ pending \in Seq(Slots) /\ written \subseteq Slots
  BY TypeParts DEF Types
<1>2. CASE UNCHANGED <<written, cover>>
  BY <1>1, <1>2 DEF HistoricalRowsOnce
<1>3. ASSUME NEW p \in Pages, NEW u \in Units, Take(p, u), phase \in Loops
      PROVE  HistoricalRowsOnce'
  <2>1. written' = written \cup WholeSlots(p, u) BY <1>3, TakeIs
  <2>2. \A w \in written : ~w.row.cut BY <1>3 DEF Books, RowsReal, Loops
  <2>3. \A w \in written' : ~w.row.cut BY <2>1, <2>2 DEF WholeSlots
  <2> QED BY <2>3 DEF HistoricalRowsOnce
<1>4. ASSUME WritePending PROVE HistoricalRowsOnce'
  <2> DEFINE e == Head(pending)
  <2>1. /\ pending # <<>>
        /\ \/ UNCHANGED <<cover, written>>
           \/ ~Covered(e) /\ written' = written \cup {e} /\ cover' = Marked(cover, e.unit, {e.row})
    BY <1>4 DEF WritePending
  <2>2. CASE UNCHANGED <<cover, written>> BY <2>2, <1>2
  <2>3. CASE ~Covered(e) /\ written' = written \cup {e}
             /\ cover' = Marked(cover, e.unit, {e.row})
    <3>1. e \in Slots /\ e.unit \in Units /\ e.row \in Row
      <4>1. e \in Range(pending) BY <2>1, <1>T, RangeOfTail
      <4>2. e \in Slots BY <4>1, <1>T, ElementOfRange
      <4> QED BY <4>2 DEF Slots
    <3> HIDE DEF e
    <3> DEFINE one == {e.row}
               d == Marked(cover, e.unit, one)
    <3>2. one \in SUBSET Row BY <3>1
    <3>3. cover' = d BY <2>3
    <3> HIDE DEF one
    <3>4. /\ \A v \in Units : v # e.unit => d[v] = cover[v]
          /\ ~d[e.unit].overflow => ~cover[e.unit].overflow
      BY <3>1, <3>2, <1>T, MarkedFacts
    <3> HIDE DEF d
    <3>5. \A v \in Units : ~cover'[v].overflow => ~cover[v].overflow
      BY <3>3, <3>4
    <3>6. ASSUME NEW v \in written, v.unit = e.unit, e.unit \in layout.tracked,
                 ~cover'[e.unit].overflow
          PROVE  v.row.key # e.row.key
      <4>1. CoverageKeys(v.row) \subseteq cover[e.unit].keys
        BY <3>1, <3>5, <3>6 DEF Books, KeysMarked
      <4>2. CoverageKeys(e.row) \cap cover[e.unit].keys = {}
        BY <2>3, <3>6 DEF Covered
      <4> QED BY <4>1, <4>2 DEF CoverageKeys
    <3>7. ASSUME NEW w \in written', NEW v \in written', w.row.cut, w.unit \in layout.tracked,
                 ~cover'[w.unit].overflow, v.unit = w.unit, v.row.key = w.row.key
          PROVE  v = w
      <4>1. CASE w \in written /\ v \in written
        <5>1. w.unit \in Units BY <4>1, <1>T DEF Slots
        <5>2. ~cover[w.unit].overflow BY <5>1, <3>5, <3>7
        <5> QED BY <4>1, <5>2, <3>7 DEF HistoricalRowsOnce
      <4>2. CASE w = e /\ v \in written BY <4>2, <3>6, <3>7
      <4>3. CASE w \in written /\ v = e BY <4>3, <3>6, <3>7
      <4>4. CASE w = e /\ v = e BY <4>4
      <4> QED BY <4>1, <4>2, <4>3, <4>4, <2>3
    <3> QED BY <3>7, <1>1 DEF HistoricalRowsOnce
  <2> QED BY <2>1, <2>2, <2>3
<1>5. CASE UNCHANGED vars BY <1>5, <1>2 DEF vars
<1>6. CASE Next
  <2>1. TypeOK BY DEF Types
  <2>2. Ignore => UNCHANGED <<written, cover>> BY DEF Ignore
  <2> QED BY <1>2, <1>3, <1>4, <1>6, <2>1, <2>2, VisitGives
<1> QED BY <1>5, <1>6

LEMMA SearchedInit == Init => Searched
<1> SUFFICES ASSUME Init, ~layout.recovery PROVE Search BY DEF Searched
<1>1. phase = "direct" /\ todo = PlannedRefs /\ processed = {} BY DEF Init
<1>2. ASSUME NEW p \in Pages, NEW c \in Range(layout.assist[PageOf(p).sid]),
             c.planned, p \in c.plan
      PROVE  p \in todo
  <2>1. layout \in Layout BY PhasesAssumption DEF Init
  <2>2. PageOf(p).sid \in Sids BY <2>1 DEF Layout, PageInfo, PageOf
  <2> QED BY <1>1, <1>2, <2>2 DEF PlannedRefs, AllCandidates
<1>3. DirectDone BY <1>1, <1>2 DEF DirectDone
<1> QED BY <1>1, <1>3 DEF Search, MarksJustified, ListsIntact, ScanDone, SegmentDone

LEMMA SearchedStep == Types /\ Searched /\ [Next]_vars => Searched'
<1> SUFFICES ASSUME Types, Searched, [Next]_vars, GroupsAgree', ~layout'.recovery
             PROVE  Search'
  BY DEF Searched
<1>1. layout' = layout BY LayoutFixed
<1>2. GroupsAgree BY <1>1, SameLayout
<1>3. Search BY <1>1, <1>2 DEF Searched
<1> QED BY <1>2, <1>3, SearchStep DEF Types

LEMMA NothingMissed == Types /\ Searched => NoRowMissed
<1> SUFFICES ASSUME Types, GroupsAgree, phase = "done", ~stop, ~layout.recovery, Search,
                    NEW p \in Pages, NEW u \in PageOf(p).fits,
                    PageOf(p).kind = "data", PageOf(p).rows # <<>>, Owed(p, u)
             PROVE  \E e \in taken : e.page = p
  BY DEF Searched, NoRowMissed, EveryRowFound
<1> DEFINE others == Range(layout.assist[PageOf(p).sid])
<1>1. DirectDone /\ ScanDone /\ SegmentDone BY DEF Search
<1>2. HasRows(p, u) BY DEF HasRows
<1>3. CASE \E c \in others : c.unit = u /\ c.planned /\ p \in c.plan
  BY <1>3, <1>1, <1>2 DEF DirectDone, TakenFrom
<1>4. CASE ~PlanMatches(p) /\ \E c \in others : c.unit = u /\ Claims(p, c)
  BY <1>4, <1>1, <1>2 DEF ScanDone, TakenFrom
<1>5. CASE /\ p \in layout.segment[u]
           /\ u \notin PlannedUnits \/ u \in failed
           /\ u \notin found
           /\ \A c \in others : ~Claims(p, c) /\ ~(c.planned /\ p \in c.plan)
  <2>1. u \in Units BY LayoutTypes DEF Types
  <2>2. u \in Unresolved BY <1>5, <2>1 DEF Unresolved, NeedsFallback
  <2>3. ~PlanMatches(p) /\ ~Claimed(p) BY <1>5 DEF PlanMatches, Claimed
  <2> QED BY <1>1, <1>2, <1>5, <2>2, <2>3 DEF SegmentDone, TakenFrom
<1>6. \/ \E c \in others : c.unit = u /\ c.planned /\ p \in c.plan
      \/ ~PlanMatches(p) /\ \E c \in others : c.unit = u /\ Claims(p, c)
      \/ /\ p \in layout.segment[u]
         /\ u \notin PlannedUnits \/ u \in failed
         /\ u \notin found
         /\ \A c \in others : ~Claims(p, c) /\ ~(c.planned /\ p \in c.plan)
  BY Zenon DEF Owed
<1> QED BY <1>3, <1>4, <1>5, <1>6

LEMMA LimitKept == Types /\ Books => RowLimit
<1> SUFFICES ASSUME Types, Books, layout.maxRows > 0
             PROVE  /\ located <= layout.maxRows
                    /\ Cardinality(written) + Len(pending) <= located
                    /\ stop => located = layout.maxRows
  BY DEF RowLimit
<1> QED BY DEF Types, AtLimit, Books, Counted

LEMMA HistoryKept == Types /\ Books => HistoricalRowsKept
<1> SUFFICES ASSUME Types, Books, FirstColumnUnique, KeysReadable, phase = "done", ~stop
             PROVE  \A e \in taken : \A i \in DOMAIN PageOf(e.page).rows :
                      \E w \in written :
                        w.unit = e.unit /\ w.row.key = PageOf(e.page).rows[i].key
  BY DEF HistoricalRowsKept, RowsKept
<1>1. pending = <<>> BY DEF Books, RowsReal
<1>2. Range(pending) = {} BY <1>1 DEF Range
<1>3. RowsHeld BY DEF Books
<1> QED BY <1>2, <1>3 DEF RowsHeld

(***************************************************************************)
(* The theorems                                                            *)
(***************************************************************************)
\* Every step of ExportData leaves each variable in its type: the unit chosen
\* for a page is one of the dictionary's, the count of the rows stays a number
\* below the limit, and the lists the scan overwrites stay lists of candidates.
THEOREM TypesKept == Spec => []TypeOK
<1>1. Types => TypeOK BY DEF Types
<1> QED BY <1>1, TypesInit, TypesStep, PTL DEF Spec

\* What each loop of ExportData has passed it has taken, and a page is marked in
\* processedDirectPages only by a plan, a claim or a segment that was tried.
THEOREM SearchKept == Spec => []Searched
<1> QED BY TypesInit, TypesStep, SearchedInit, SearchedStep, PTL DEF Spec

\* A damaged plan costs no row that the group scan or the segment range can
\* still reach, as long as the candidates of a storage id agree on the group.
THEOREM RowsNotMissed == Spec => []NoRowMissed
<1> QED BY TypesInit, TypesStep, SearchedInit, SearchedStep, NothingMissed, PTL DEF Spec

\* The rows written, put aside, counted and marked agree in every state.
THEOREM BooksKept == Spec => []Books
<1> QED BY TypesInit, TypesStep, BooksInit, BooksStep, PTL DEF Spec

\* The row limit is exact, whatever page and whichever loop reaches it.
THEOREM LimitExact == Spec => []RowLimit
<1> QED BY TypesInit, TypesStep, BooksInit, BooksStep, LimitKept, PTL DEF Spec

\* Where the keys tell rows apart, no row cut short by an ALTER is lost: it is
\* written, or a row of its table with all its columns is.
THEOREM HistoryNotLost == Spec => []HistoricalRowsKept
<1> QED BY TypesInit, TypesStep, BooksInit, BooksStep, HistoryKept, PTL DEF Spec

\* With coverage tracking, while its cap is not reached, a row cut short is
\* written at most once and never beside a complete row with its columns.
THEOREM HistoryNotRepeated == Spec => []HistoricalRowsOnce
<1> QED BY TypesInit, TypesStep, BooksInit, BooksStep, OnceStep, PTL DEF Spec
=============================================================================
