------------------------------ MODULE PageGeometry ---------------------------
(***************************************************************************)
(* The page size of a data file, from its header and from pages that stand *)
(* where a page of that size would (ProbePageSize, page_geometry.go).      *)
(*                                                                         *)
(* Lengths are counted in units of 4 KiB.  dbf.pages[m] is what is written *)
(* at the m-th page of the file's true size; dbf.old holds places <<s, n>> *)
(* where page n of an older file with pages of size s still stands.        *)
(***************************************************************************)
EXTENDS Integers, Sequences, FiniteSets, FiniteSetsExt

CONSTANTS
  ProbedFiles,     \* files TLC tries: records [truth, header, units, pages, old, bad]
  PageSizes,    \* 4096, 8192, 16384 and 32768 in the code
  PrefixPages,  \* pageProbePrefixPages
  SpreadPages,  \* pageProbeSpreadPages
  OldKey        \* the identity the pages of the older file carry

\* A file as it really is.  A page whose number is wrong, or that does not verify,
\* is a damaged one; no page carries the identity of the older file, whose pages
\* were of another size.
IsProbed(f) ==
  /\ f.truth \in PageSizes /\ f.header \in Nat /\ f.units \in Nat
  /\ DOMAIN f.pages \subseteq Nat \ {0}
  /\ \A m \in DOMAIN f.pages : f.pages[m].key # OldKey /\ f.pages[m].verified \in BOOLEAN
  /\ \A m \in DOMAIN f.pages, n \in DOMAIN f.pages : f.pages[m].key = f.pages[n].key
  /\ \A s \in PageSizes : \A n \in 1 .. f.units : <<s, n>> \in f.old => s # f.truth

ASSUME GeometryAssumption ==
  /\ PageSizes \subseteq Nat \ {0} /\ IsFiniteSet(PageSizes)
  /\ SpreadPages \in Nat \ {0} /\ PrefixPages \in Nat
  /\ \A f \in ProbedFiles : IsProbed(f)

VARIABLES dbf, sizesLeft, winners, geometry

geometryVars == <<dbf, sizesLeft, winners, geometry>>

Unknown == 0
Undecided == -1

\* pageProbeRefs: a bounded sample, page 0 left out
ProbeRefs(s) ==
  LET count == dbf.units \div s
  IN IF dbf.units < 2 * s THEN {}
     ELSE {n \in 1 .. count - 1 : n <= PrefixPages}
          \cup {p \in {(n * (count - 1)) \div SpreadPages : n \in 1 .. SpreadPages} :
                  p > 0 /\ p < count}

\* What is read as page n by a reader that takes s for the page size: the n-th
\* page of an older file, a page of the file, or bytes inside one
ReadAs(s, n) ==
  IF <<s, n>> \in dbf.old THEN [number |-> n, key |-> OldKey, verified |-> TRUE]
  ELSE LET m == (n * s) \div dbf.truth
       IN IF (n * s) % dbf.truth = 0 /\ m \in DOMAIN dbf.pages
          THEN [number |-> dbf.pages[m].number, key |-> dbf.pages[m].key,
                verified |-> s = dbf.truth /\ dbf.pages[m].verified]
          ELSE [number |-> 0, key |-> OldKey, verified |-> FALSE]

Readable(s) ==
  \A n \in ProbeRefs(s) : dbf.bad \cap (n * s .. (n + 1) * s - 1) = {}

\* detectPageSizeFromReader: pages of one file, at their place, one of them
\* verified
Matching(s, key) ==
  {n \in ProbeRefs(s) : ReadAs(s, n).number = n /\ ReadAs(s, n).key = key}
Convinces(s) ==
  \E key \in {ReadAs(s, n).key : n \in ProbeRefs(s)} :
    /\ Cardinality(Matching(s, key)) >= 3
    /\ \E n \in Matching(s, key) : ReadAs(s, n).verified

GeometryInit ==
  /\ dbf \in ProbedFiles /\ sizesLeft = PageSizes
  /\ winners = {} /\ geometry = Undecided

\* A file too short to hold three pages has only its header to tell
ProbeShort ==
  /\ geometry = Undecided /\ dbf.units < 3
  /\ geometry' = dbf.header
  /\ UNCHANGED <<dbf, sizesLeft, winners>>

\* A page that cannot be read ends the probe
ProbeSize ==
  /\ geometry = Undecided /\ dbf.units >= 3 /\ sizesLeft # {}
  /\ LET s == Min(sizesLeft)
     IN /\ sizesLeft' = sizesLeft \ {s}
        /\ winners' = IF Readable(s) /\ Convinces(s) THEN winners \cup {s} ELSE winners
        /\ geometry' = IF Readable(s) THEN Undecided ELSE Unknown
  /\ UNCHANGED dbf

\* Fault: the header stands whatever the pages say.
ChosenHeader ==
  IF dbf.header # 0 THEN dbf.header
  ELSE IF Cardinality(winners) = 1 THEN CHOOSE s \in winners : TRUE ELSE Unknown
\* The header stands unless the pages contradict it
Chosen ==
  IF dbf.header # 0
  THEN IF winners \subseteq {dbf.header} THEN dbf.header ELSE Unknown
  ELSE IF Cardinality(winners) = 1 THEN CHOOSE s \in winners : TRUE ELSE Unknown

Decide ==
  /\ geometry = Undecided /\ dbf.units >= 3 /\ sizesLeft = {}
  /\ geometry' = Chosen
  /\ UNCHANGED <<dbf, sizesLeft, winners>>

GeometryNext == ProbeShort \/ ProbeSize \/ Decide

GeometrySpec == GeometryInit /\ [][GeometryNext]_geometryVars
-----------------------------------------------------------------------------

\* The pages of the sample that still say where they stand
Proven == {m \in DOMAIN dbf.pages \cap ProbeRefs(dbf.truth) : dbf.pages[m].number = m}
Evident == Cardinality(Proven) >= 3 /\ \E m \in Proven : dbf.pages[m].verified

\* A wrong page size would shift every page of the file.  Whatever the header
\* says and whichever pages are damaged, a wrong size is taken only when nothing
\* in the pages speaks for the true one and the header itself is wrong, or when
\* three pages of an older file stand where that size would put them and nothing
\* speaks for the true one; and an undamaged file is never refused.
GeometryTrue ==
  geometry # Undecided =>
    /\ geometry \notin {dbf.truth, Unknown} =>
         /\ ~Evident \/ dbf.units < 3
         /\ \/ dbf.header = geometry
            \/ Cardinality({n \in 1 .. dbf.units : <<geometry, n>> \in dbf.old}) >= 3
    /\ dbf.header = dbf.truth /\ dbf.old = {} /\ dbf.bad = {} => geometry = dbf.truth
=============================================================================
