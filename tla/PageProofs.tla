----------------------------- MODULE PageProofs -----------------------------
(***************************************************************************)
(* What pages say of themselves and of one another, for any files.  A page *)
(* size that the probe accepts is the true one whatever older pages lie in *)
(* the file; the check of the pages tells of every damaged page once, under *)
(* the object it belongs to, in totals that agree with its list; the       *)
(* dictionary is loaded as it is stored in the system tables; and a plan   *)
(* that is complete names validated leaves only and abandons no chain half *)
(* way, whatever the links of the pages say.                               *)
(***************************************************************************)
EXTENDS PageGeometry, PageCheck, SystemCatalog, PagePlan, Induction

(* The probe of the page size (PageGeometry) *)

\* A multiple divides without a rest.
LEMMA Multiple ==
  ASSUME NEW m \in Nat, NEW t \in Nat \ {0}
  PROVE  (m * t) \div t = m /\ (m * t) % t = 0
<1> DEFINE q == (m * t) \div t
           r == (m * t) % t
<1>1. q \in Int /\ r \in 0 .. t - 1 /\ m * t = t * q + r
  BY Z3
<1> QED BY <1>1, Z3

\* A quotient is no greater than what is divided.
LEMMA QuotientBound ==
  ASSUME NEW a \in Nat, NEW s \in Nat \ {0}
  PROVE  a \div s \in Nat /\ a \div s <= a
OBVIOUS

\* The sample is one of the places below the length of the file.
LEMMA SampleInFile ==
  ASSUME dbf \in ProbedFiles, NEW s \in PageSizes
  PROVE  ProbeRefs(s) \subseteq 1 .. dbf.units
<1>1. s \in Nat \ {0} /\ dbf.units \in Nat BY GeometryAssumption DEF GeometryAssumption, IsProbed
<1> DEFINE count == dbf.units \div s
<1>2. count \in Nat /\ count <= dbf.units BY <1>1, QuotientBound
<1> HIDE DEF count
<1>3. ASSUME NEW n \in 1 .. count - 1 PROVE n \in 1 .. dbf.units BY <1>1, <1>2
<1>4. ASSUME NEW n \in 1 .. SpreadPages
      PROVE  (n * (count - 1)) \div SpreadPages \in Int
  <2>1. n * (count - 1) \in Int /\ SpreadPages \in Nat \ {0}
    BY <1>2, GeometryAssumption DEF GeometryAssumption
  <2> QED BY <2>1
<1>5. ASSUME NEW p \in {(n * (count - 1)) \div SpreadPages : n \in 1 .. SpreadPages},
             p > 0, p < count
      PROVE  p \in 1 .. dbf.units
  BY <1>1, <1>2, <1>4, <1>5
<1>6. ProbeRefs(s) \subseteq
        {n \in 1 .. count - 1 : n <= PrefixPages}
          \cup {p \in {(n * (count - 1)) \div SpreadPages : n \in 1 .. SpreadPages} :
                  p > 0 /\ p < count}
  BY DEF ProbeRefs, count
<1> QED BY <1>3, <1>5, <1>6

\* Of the pages a reader with the true size sees each is itself.
LEMMA TrueSizeReads ==
  ASSUME dbf \in ProbedFiles, NEW m \in DOMAIN dbf.pages \cap ProbeRefs(dbf.truth)
  PROVE  ReadAs(dbf.truth, m) = [number |-> dbf.pages[m].number, key |-> dbf.pages[m].key,
                                 verified |-> dbf.pages[m].verified]
<1>1. /\ dbf.truth \in PageSizes /\ dbf.truth \in Nat \ {0} /\ m \in Nat
      /\ \A s \in PageSizes : \A n \in 1 .. dbf.units : <<s, n>> \in dbf.old => s # dbf.truth
  BY GeometryAssumption DEF GeometryAssumption, IsProbed
<1>2. m \in 1 .. dbf.units BY <1>1, SampleInFile
<1>3. <<dbf.truth, m>> \notin dbf.old BY <1>1, <1>2
<1>4. (m * dbf.truth) \div dbf.truth = m /\ (m * dbf.truth) % dbf.truth = 0
  BY <1>1, Multiple
<1>5. dbf.pages[m].verified \in BOOLEAN
  BY GeometryAssumption DEF GeometryAssumption, IsProbed
<1>6. (dbf.truth = dbf.truth /\ dbf.pages[m].verified) = dbf.pages[m].verified BY <1>5, Zenon
<1> DEFINE is == dbf.truth = dbf.truth /\ dbf.pages[m].verified
<1>7. ReadAs(dbf.truth, m) = [number |-> dbf.pages[m].number, key |-> dbf.pages[m].key,
                              verified |-> is]
  BY <1>3, <1>4 DEF ReadAs
<1> QED BY <1>6, <1>7

\* Three pages that say where they stand, one of them verified, speak for the
\* true size.
LEMMA EvidentConvinces ==
  ASSUME dbf \in ProbedFiles, Evident
  PROVE  Convinces(dbf.truth)
<1>1. PICK v \in Proven : dbf.pages[v].verified BY DEF Evident
<1> DEFINE key == dbf.pages[v].key
<1>2. ASSUME NEW m \in Proven
      PROVE  /\ m \in ProbeRefs(dbf.truth) /\ ReadAs(dbf.truth, m).number = m
             /\ ReadAs(dbf.truth, m).key = key
             /\ ReadAs(dbf.truth, m).verified = dbf.pages[m].verified
  <2>1. m \in DOMAIN dbf.pages \cap ProbeRefs(dbf.truth) /\ v \in DOMAIN dbf.pages
    BY <1>1 DEF Proven
  <2>2. dbf.pages[m].number = m /\ dbf.pages[m].key = key
    BY <2>1, GeometryAssumption DEF GeometryAssumption, IsProbed, Proven
  <2>3. ReadAs(dbf.truth, m) = [number |-> dbf.pages[m].number, key |-> dbf.pages[m].key,
                                verified |-> dbf.pages[m].verified]
    BY <2>1, TrueSizeReads
  <2> QED BY <2>1, <2>2, <2>3
<1>3. Proven \subseteq Matching(dbf.truth, key) BY <1>2 DEF Matching
<1>4. dbf.truth \in PageSizes BY GeometryAssumption DEF GeometryAssumption, IsProbed
<1>5. IsFiniteSet(Matching(dbf.truth, key))
  <2>1. Matching(dbf.truth, key) \subseteq 1 .. dbf.units
    BY <1>4, SampleInFile DEF Matching
  <2>2. dbf.units \in Nat BY GeometryAssumption DEF GeometryAssumption, IsProbed
  <2>3. IsFiniteSet(1 .. dbf.units) BY <2>2, FS_Interval
  <2> QED BY <2>1, <2>3, FS_Subset
<1>6. Cardinality(Matching(dbf.truth, key)) >= 3
  <2>1. Cardinality(Proven) <= Cardinality(Matching(dbf.truth, key))
    BY <1>3, <1>5, FS_Subset
  <2>2. Cardinality(Proven) \in Nat /\ Cardinality(Matching(dbf.truth, key)) \in Nat
    BY <1>3, <1>5, FS_Subset, FS_CardinalityType
  <2> QED BY <2>1, <2>2 DEF Evident
<1>7. v \in Matching(dbf.truth, key) /\ ReadAs(dbf.truth, v).verified BY <1>1, <1>2, <1>3
<1>8. key \in {ReadAs(dbf.truth, n).key : n \in ProbeRefs(dbf.truth)} BY <1>1, <1>2
<1> QED BY <1>6, <1>7, <1>8 DEF Convinces

\* What stands at the places of the sample under a wrong size, and is verified
\* there, is of an older file, and so is all that matches it.
LEMMA WrongSizeIsOld ==
  ASSUME dbf \in ProbedFiles, NEW s \in PageSizes, s # dbf.truth, Convinces(s)
  PROVE  Cardinality({n \in 1 .. dbf.units : <<s, n>> \in dbf.old}) >= 3
<1> DEFINE Older == {n \in 1 .. dbf.units : <<s, n>> \in dbf.old}
<1>1. PICK key \in {ReadAs(s, n).key : n \in ProbeRefs(s)} :
        /\ Cardinality(Matching(s, key)) >= 3
        /\ \E n \in Matching(s, key) : ReadAs(s, n).verified
  BY DEF Convinces
<1>2. PICK v \in Matching(s, key) : ReadAs(s, v).verified BY <1>1
<1>3. <<s, v>> \in dbf.old BY <1>2 DEF ReadAs
<1>4. key = OldKey BY <1>3, <1>2 DEF Matching, ReadAs
<1>5. ASSUME NEW n \in Matching(s, key) PROVE n \in Older
  <2>1. n \in ProbeRefs(s) /\ ReadAs(s, n).number = n /\ ReadAs(s, n).key = OldKey
    BY <1>4 DEF Matching
  <2>2. n \in 1 .. dbf.units BY <2>1, SampleInFile
  <2>3. \A m \in DOMAIN dbf.pages : dbf.pages[m].key # OldKey
    BY GeometryAssumption DEF GeometryAssumption, IsProbed
  <2>4. <<s, n>> \in dbf.old BY <2>1, <2>2, <2>3 DEF ReadAs
  <2> QED BY <2>2, <2>4
<1>6. IsFiniteSet(Older)
  <2>1. dbf.units \in Nat BY GeometryAssumption DEF GeometryAssumption, IsProbed
  <2>2. IsFiniteSet(1 .. dbf.units) BY <2>1, FS_Interval
  <2>3. Older \subseteq 1 .. dbf.units OBVIOUS
  <2> QED BY <2>2, <2>3, FS_Subset
<1>7. Cardinality(Matching(s, key)) <= Cardinality(Older)
      /\ Cardinality(Matching(s, key)) \in Nat /\ Cardinality(Older) \in Nat
  <2>1. Matching(s, key) \subseteq Older BY <1>5
  <2> QED BY <2>1, <1>6, FS_Subset, FS_CardinalityType
<1> QED BY <1>1, <1>7

\* The sizes tried are those the pages speak for.
GeometryKnown ==
  /\ dbf \in ProbedFiles /\ sizesLeft \subseteq PageSizes
  /\ geometry = Undecided =>
       winners = {s \in PageSizes \ sizesLeft : Convinces(s)}

\* The size chosen among the winners is the true one, or none.
LEMMA ChosenIsTrue ==
  ASSUME GeometryKnown, geometry = Undecided, sizesLeft = {}, GeometryAssumption
  PROVE  /\ Chosen \notin {dbf.truth, Unknown} =>
              /\ ~Evident
              /\ \/ dbf.header = Chosen
                 \/ Cardinality({n \in 1 .. dbf.units : <<Chosen, n>> \in dbf.old}) >= 3
         /\ dbf.header = dbf.truth /\ dbf.old = {} => Chosen = dbf.truth
<1>1. winners = {s \in PageSizes : Convinces(s)} BY DEF GeometryKnown
<1>2. dbf \in ProbedFiles /\ dbf.truth \in PageSizes /\ 0 \notin PageSizes
  BY DEF GeometryKnown, GeometryAssumption, IsProbed
<1>3. CASE dbf.header # 0
  <2>1. Chosen \notin {dbf.truth, Unknown} => Chosen = dbf.header /\ dbf.truth \notin winners
    BY <1>3 DEF Chosen
  <2>2. Chosen \notin {dbf.truth, Unknown} => ~Evident
    BY <2>1, <1>1, <1>2, EvidentConvinces
  <2>3. ASSUME dbf.header = dbf.truth, dbf.old = {} PROVE Chosen = dbf.truth
    <3>1. ASSUME NEW s \in winners, s # dbf.truth PROVE FALSE
      <4>1. Cardinality({n \in 1 .. dbf.units : <<s, n>> \in dbf.old}) >= 3
        BY <1>1, <1>2, <3>1, WrongSizeIsOld
      <4>2. {n \in 1 .. dbf.units : <<s, n>> \in dbf.old} = {} BY <2>3
      <4>3. Cardinality({}) = 0 BY FS_EmptySet
      <4>4. Cardinality({n \in 1 .. dbf.units : <<s, n>> \in dbf.old}) = 0
        BY <4>2, <4>3, Zenon
      <4> QED BY <4>1, <4>4
    <3> QED BY <1>3, <2>3, <3>1 DEF Chosen
  <2> QED BY <2>1, <2>2, <2>3
<1>4. CASE dbf.header = 0
  <2>1. dbf.header # dbf.truth BY <1>2, <1>4
  <2>2. ASSUME Chosen \notin {dbf.truth, Unknown}
        PROVE  /\ ~Evident
               /\ Cardinality({n \in 1 .. dbf.units : <<Chosen, n>> \in dbf.old}) >= 3
    <3>1. Cardinality(winners) = 1 /\ Chosen = CHOOSE s \in winners : TRUE
      BY <1>4, <2>2 DEF Chosen, Unknown
    <3>2. PICK w : winners = {w}
      <4>1. IsFiniteSet(winners)
        BY <1>1, FS_Subset DEF GeometryAssumption
      <4> QED BY <3>1, <4>1, FS_Singleton
    <3>3. Chosen = w BY <3>1, <3>2
    <3>4. Convinces(Chosen) /\ Chosen \in PageSizes /\ dbf.truth \notin winners
      BY <1>1, <2>2, <3>2, <3>3
    <3> QED BY <1>1, <1>2, <2>2, <3>4, WrongSizeIsOld, EvidentConvinces
  <2> QED BY <2>1, <2>2
<1> QED BY <1>3, <1>4

\* Nothing is decided at first.
LEMMA GeometryStarts == ASSUME GeometryInit PROVE GeometryKnown /\ GeometryTrue
BY DEF GeometryInit, GeometryKnown, GeometryTrue

\* What convinces depends on the file alone.
LEMMA SameFileConvinces ==
  ASSUME dbf' = dbf PROVE \A s \in PageSizes : Convinces(s)' = Convinces(s)
BY DEF Convinces, Matching, ReadAs, ProbeRefs

\* Whichever size is tried next, what is known of the winners stays true.
LEMMA GeometryIsKept ==
  ASSUME GeometryKnown, GeometryTrue, [GeometryNext]_geometryVars
  PROVE  GeometryKnown' /\ GeometryTrue'
<1>1. CASE UNCHANGED geometryVars
  <2>1. dbf' = dbf /\ sizesLeft' = sizesLeft /\ winners' = winners /\ geometry' = geometry
    BY <1>1 DEF geometryVars
  <2>2. GeometryKnown' BY <2>1, SameFileConvinces DEF GeometryKnown
  <2>3. GeometryTrue' BY <2>1 DEF GeometryTrue, Evident, Proven, ProbeRefs
  <2> QED BY <2>2, <2>3
<1>2. CASE ProbeShort
  <2>1. /\ dbf' = dbf /\ sizesLeft' = sizesLeft /\ winners' = winners
        /\ geometry' = dbf.header /\ dbf.units < 3
    BY <1>2 DEF ProbeShort
  <2>2. geometry' # Undecided
    BY <2>1, GeometryAssumption DEF GeometryKnown, GeometryAssumption, IsProbed, Undecided
  <2>3. GeometryKnown' BY <2>1, <2>2 DEF GeometryKnown
  <2>4. GeometryTrue' BY <2>1 DEF GeometryTrue
  <2> QED BY <2>3, <2>4
<1>3. CASE ProbeSize
  <2> DEFINE s == Min(sizesLeft)
  <2>1. s \in sizesLeft /\ s \in PageSizes
    <3>1. sizesLeft \in SUBSET Nat /\ sizesLeft # {}
      BY <1>3, GeometryAssumption DEF GeometryKnown, GeometryAssumption, ProbeSize
    <3>2. PICK n \in sizesLeft : \A m \in sizesLeft : n <= m BY <3>1, LeastNat
    <3>3. s \in sizesLeft BY <3>2 DEF Min
    <3> QED BY <3>3 DEF GeometryKnown
  <2>2. /\ dbf' = dbf /\ geometry = Undecided /\ sizesLeft' = sizesLeft \ {s}
        /\ winners' = IF Readable(s) /\ Convinces(s) THEN winners \cup {s} ELSE winners
        /\ geometry' = IF Readable(s) THEN Undecided ELSE Unknown
    BY <1>3 DEF ProbeSize
  <2> HIDE DEF s
  <2>3. \A t \in PageSizes : Convinces(t)' = Convinces(t)
    BY <2>2, SameFileConvinces
  <2>4. GeometryKnown'
    <3>1. dbf' \in ProbedFiles /\ sizesLeft' \subseteq PageSizes BY <2>2 DEF GeometryKnown
    <3>2. ASSUME geometry' = Undecided
          PROVE  winners' = {t \in PageSizes \ sizesLeft' : Convinces(t)'}
      <4>1. Readable(s) BY <2>2, <3>2 DEF Undecided, Unknown
      <4>2. winners = {t \in PageSizes \ sizesLeft : Convinces(t)} BY <2>2 DEF GeometryKnown
      <4>3. PageSizes \ sizesLeft' = (PageSizes \ sizesLeft) \cup {s} BY <2>1, <2>2
      <4>4. winners' = {t \in PageSizes \ sizesLeft' : Convinces(t)}
        BY <2>2, <4>1, <4>2, <4>3
      <4> QED BY <2>3, <4>4
    <3> QED BY <3>1, <3>2 DEF GeometryKnown
  <2>5. GeometryTrue'
    <3>1. ASSUME dbf.bad = {} PROVE geometry' = Undecided BY <2>2, <3>1 DEF Readable
    <3> QED BY <2>2, <3>1 DEF GeometryTrue, Undecided, Unknown
  <2> QED BY <2>4, <2>5
<1>4. CASE Decide
  <2>1. /\ dbf' = dbf /\ geometry = Undecided /\ sizesLeft = {} /\ sizesLeft' = sizesLeft
        /\ geometry' = Chosen
    BY <1>4 DEF Decide
  <2>2. winners' = winners BY <1>4 DEF Decide
  <2>3. GeometryKnown' BY <2>1, <2>2, SameFileConvinces DEF GeometryKnown
  <2>4. GeometryTrue'
    BY <2>1, ChosenIsTrue, GeometryAssumption DEF GeometryTrue, Evident, Proven, ProbeRefs
  <2> QED BY <2>3, <2>4
<1> QED BY <1>1, <1>2, <1>3, <1>4 DEF GeometryNext

\* As GeometryTrue says, of every file: whatever its header says and whichever
\* of its pages are damaged (ProbePageSize, page_geometry.go).
THEOREM GeometryIsTrue == GeometrySpec => []GeometryTrue
<1>1. GeometryInit => GeometryKnown /\ GeometryTrue BY GeometryStarts
<1>2. GeometryKnown /\ GeometryTrue /\ [GeometryNext]_geometryVars
        => (GeometryKnown /\ GeometryTrue)'
  BY GeometryIsKept
<1> QED BY <1>1, <1>2, PTL DEF GeometrySpec

-----------------------------------------------------------------------------

(* The check for damaged pages (PageCheck) *)

PageOf(f, n) == DiskFiles[f].pages[n]

\* The places of damaged pages, and the line of the report for each
BadPlaces == {w \in Nat \X Nat : /\ w[1] \in DOMAIN DiskFiles
                                 /\ w[2] \in DOMAIN DiskFiles[w[1]].pages
                                 /\ IsDamaged(PageOf(w[1], w[2]))}
Entry(f, n) == [file |-> f, page |-> n, object |-> Attribution(f, n, PageOf(f, n).storage),
                kind |-> Corruption(PageOf(f, n))]
Entries == {Entry(w[1], w[2]) : w \in BadPlaces}

Earlier(f, n, g, m) == f < g \/ (f = g /\ n < m)

\* The stream: lines of damaged pages before the cursor, in their order, and of
\* every damaged page of the files read to their end
StreamTold ==
  /\ stream \in Seq(Entries)
  /\ \A i \in DOMAIN stream : Earlier(stream[i].file, stream[i].page, cursor.file, cursor.page)
  /\ \A i \in DOMAIN stream, j \in DOMAIN stream :
       i < j => Earlier(stream[i].file, stream[i].page, stream[j].file, stream[j].page)
  /\ \A w \in BadPlaces :
       (w[1] = cursor.file /\ w[2] < cursor.page)
         \/ (w[1] < cursor.file /\ w[1] \notin counts.shortFiles)
       => \E i \in DOMAIN stream : stream[i].file = w[1] /\ stream[i].page = w[2]

CheckState ==
  /\ disks \in CheckWorlds
  /\ cursor = [file |-> cursor.file, page |-> cursor.page]
  /\ cursor.file \in Nat \ {0} /\ cursor.page \in Nat \ {0}
  /\ counts = [checked |-> counts.checked, empty |-> counts.empty, noSum |-> counts.noSum,
               bad |-> counts.bad, shortFiles |-> counts.shortFiles]
  /\ counts.checked \in Nat /\ counts.empty \in Nat /\ counts.bad \in Nat
  /\ counts.empty + counts.bad <= counts.checked
  /\ report.ended \in {"no", "ok", "error"}
  /\ report.ended = "ok" => cursor.file > Len(DiskFiles)
  /\ DOMAIN kept = DOMAIN DiskFiles /\ kept = [f \in DOMAIN kept |-> kept[f]]
  /\ \A f \in DOMAIN kept : kept[f] \in 0 .. MaxReported

\* The files and tables of a world
LEMMA FilesTyped ==
  ASSUME CheckState
  PROVE  /\ DiskFiles \in Seq(FileState) /\ Len(DiskFiles) \in Nat
         /\ DOMAIN DiskFiles = 1 .. Len(DiskFiles) /\ IsFiniteSet(Tables)
         /\ \A f \in DOMAIN DiskFiles :
              /\ DiskFiles[f].pages \in Seq(PageState) /\ Len(DiskFiles[f].pages) \in Nat
              /\ DOMAIN DiskFiles[f].pages = 1 .. Len(DiskFiles[f].pages)
<1>1. DiskFiles \in Seq(FileState) /\ IsFiniteSet(Tables)
  BY CheckAssumption DEF CheckState, CheckAssumption, IsCheckWorld, DiskFiles, Tables
<1>2. Len(DiskFiles) \in Nat /\ DOMAIN DiskFiles = 1 .. Len(DiskFiles) BY <1>1
<1>3. ASSUME NEW f \in DOMAIN DiskFiles PROVE DiskFiles[f].pages \in Seq(PageState)
  <2>1. DiskFiles[f] \in FileState BY <1>1, ElementOfSeq
  <2> QED BY <2>1 DEF FileState
<1>4. ASSUME NEW f \in DOMAIN DiskFiles
      PROVE  /\ Len(DiskFiles[f].pages) \in Nat
             /\ DOMAIN DiskFiles[f].pages = 1 .. Len(DiskFiles[f].pages)
  BY <1>3
<1> QED BY <1>1, <1>2, <1>3, <1>4

\* An entry is of the page it names.
LEMMA EntryOfPage ==
  ASSUME NEW e \in Entries
  PROVE  /\ <<e.file, e.page>> \in BadPlaces /\ e = Entry(e.file, e.page)
         /\ e.file \in Nat /\ e.page \in Nat
         /\ e.object = Attribution(e.file, e.page, PageOf(e.file, e.page).storage)
<1>1. PICK w \in BadPlaces : e = Entry(w[1], w[2]) BY DEF Entries
<1>2. w \in Nat \X Nat BY DEF BadPlaces
<1>3. e.file = w[1] /\ e.page = w[2] BY <1>1 DEF Entry
<1>4. w = <<e.file, e.page>> BY <1>2, <1>3
<1>5. e.object = Attribution(w[1], w[2], PageOf(w[1], w[2]).storage) BY <1>1 DEF Entry
<1> QED BY <1>1, <1>2, <1>3, <1>4, <1>5

\* The damaged places are those of the files, which do not change.
LEMMA SameDisks ==
  ASSUME disks' = disks
  PROVE  BadPlaces' = BadPlaces /\ Entries' = Entries
<1>1. BadPlaces' = BadPlaces BY DEF BadPlaces, PageOf, DiskFiles
<1>2. Entries' = Entries
  BY <1>1 DEF Entries, Entry, PageOf, DiskFiles, Attribution, Objects, InRange, Tables
<1> QED BY <1>1, <1>2

\* Where the cursor stands, and what a step there says of the page
LEMMA AtPagePlace ==
  ASSUME CheckState, AtPage
  PROVE  /\ cursor.file \in DOMAIN DiskFiles
         /\ cursor.page \in DOMAIN DiskFiles[cursor.file].pages
         /\ CheckedPage = PageOf(cursor.file, cursor.page)
         /\ <<cursor.file, cursor.page>> \in BadPlaces <=> IsDamaged(CheckedPage)
<1>1. cursor.file \in Nat \ {0} /\ cursor.page \in Nat \ {0} BY DEF CheckState
<1>2. cursor.file \in DOMAIN DiskFiles BY <1>1, FilesTyped DEF AtPage, Scanning
<1>3. cursor.page \in DOMAIN DiskFiles[cursor.file].pages
  BY <1>1, <1>2, FilesTyped DEF AtPage
<1> QED BY <1>1, <1>2, <1>3 DEF BadPlaces, CheckedPage, PageOf

\* Nothing is told before the first page.
LEMMA StateStarts == ASSUME CheckInit PROVE CheckState /\ StreamTold
<1>1. CheckState
  <2>1. DOMAIN kept = DOMAIN DiskFiles /\ \A f \in DOMAIN kept : kept[f] \in 0 .. MaxReported
    BY CheckAssumption DEF CheckInit, CheckAssumption, DiskFiles
  <2> QED BY <2>1 DEF CheckInit, CheckState
<1>2. StreamTold
  <2>1. stream = <<>> /\ cursor.file = 1 /\ cursor.page = 1 BY DEF CheckInit
  <2>2. \A w \in BadPlaces : w[1] \in Nat /\ w[2] \in Nat /\ w[1] # 0 /\ w[2] # 0
    BY <1>1, FilesTyped DEF BadPlaces
  <2> QED BY <2>1, <2>2 DEF StreamTold
<1> QED BY <1>1, <1>2

\* The counters, the cursor and the lists keep their form.
LEMMA StateIsKept ==
  ASSUME CheckState, [CheckNext]_checkVars
  PROVE  CheckState'
<1> DEFINE c == counts.checked
           e == counts.empty
           b == counts.bad
<1>t. c \in Nat /\ e \in Nat /\ b \in Nat /\ e + b <= c BY DEF CheckState
<1> DEFINE Rest == [checked |-> counts.checked, empty |-> counts.empty, noSum |-> counts.noSum,
                    bad |-> counts.bad, shortFiles |-> counts.shortFiles]
<1>u. counts = Rest BY DEF CheckState
<1>c. ASSUME NEW k \in {0, 1}, NEW l \in {0, 1}, k + l <= 1, NEW m,
             counts' = [checked |-> c + 1, empty |-> e + k, noSum |-> m, bad |-> b + l,
                        shortFiles |-> counts.shortFiles]
      PROVE  /\ counts' = [checked |-> counts'.checked, empty |-> counts'.empty,
                           noSum |-> counts'.noSum, bad |-> counts'.bad,
                           shortFiles |-> counts'.shortFiles]
             /\ counts'.checked \in Nat /\ counts'.empty \in Nat /\ counts'.bad \in Nat
             /\ counts'.empty + counts'.bad <= counts'.checked
  <2> HIDE DEF c, e, b
  <2>2. /\ counts'.checked = c + 1 /\ counts'.empty = e + k /\ counts'.bad = b + l
        /\ counts' = [checked |-> counts'.checked, empty |-> counts'.empty,
                      noSum |-> counts'.noSum, bad |-> counts'.bad,
                      shortFiles |-> counts'.shortFiles]
    BY <1>c
  <2>3. k \in Nat /\ l \in Nat OBVIOUS
  <2> QED BY <1>t, <1>c, <2>2, <2>3
<1>d. cursor' = [cursor EXCEPT !.page = @ + 1]
        => /\ cursor' = [file |-> cursor'.file, page |-> cursor'.page]
           /\ cursor'.file = cursor.file /\ cursor'.page \in Nat \ {0}
  <2> SUFFICES ASSUME cursor' = [cursor EXCEPT !.page = @ + 1]
               PROVE  /\ cursor' = [file |-> cursor'.file, page |-> cursor'.page]
                      /\ cursor'.file = cursor.file /\ cursor'.page \in Nat \ {0}
    OBVIOUS
  <2> DEFINE n == cursor.page
  <2>1. cursor = [file |-> cursor.file, page |-> n] /\ n \in Nat \ {0} BY DEF CheckState
  <2>2. cursor' = [file |-> cursor.file, page |-> n + 1] BY <2>1
  <2> HIDE DEF n
  <2>3. cursor'.file = cursor.file /\ cursor'.page = n + 1 BY <2>2
  <2>4. n + 1 \in Nat \ {0} BY <2>1
  <2> QED BY <2>2, <2>3, <2>4
<1>1. CASE CheckSoundPage
  <2>1. /\ disks' = disks /\ report' = report /\ kept' = kept
        /\ cursor' = [cursor EXCEPT !.page = @ + 1] /\ counts' = Counted /\ AtPage
    BY <1>1 DEF CheckSoundPage, NextPage
  <2>2. \E k \in {0, 1} : \E m :
          counts' = [checked |-> c + 1, empty |-> e + k, noSum |-> m, bad |-> b + 0,
                     shortFiles |-> counts.shortFiles]
    <3> DEFINE k == IF IsEmpty(CheckedPage) THEN 1 ELSE 0
               m == counts'.noSum
    <3>1. k \in {0, 1} /\ b + 0 = b BY <1>t
    <3>2. counts' = [checked |-> c + 1, empty |-> e + k, noSum |-> m, bad |-> b,
                     shortFiles |-> counts.shortFiles]
      BY <1>u, <2>1 DEF Counted, c, e, b
    <3> HIDE DEF k, m
    <3> QED BY <3>1, <3>2
  <2>3. /\ counts' = [checked |-> counts'.checked, empty |-> counts'.empty,
                      noSum |-> counts'.noSum, bad |-> counts'.bad,
                      shortFiles |-> counts'.shortFiles]
        /\ counts'.checked \in Nat /\ counts'.empty \in Nat /\ counts'.bad \in Nat
        /\ counts'.empty + counts'.bad <= counts'.checked
    <3>1. PICK k \in {0, 1} : \E m :
          counts' = [checked |-> c + 1, empty |-> e + k, noSum |-> m, bad |-> b + 0,
                     shortFiles |-> counts.shortFiles]
      BY <2>2
    <3>2. k + 0 <= 1 /\ 0 \in {0, 1} OBVIOUS
    <3> QED BY <1>c, <3>1, <3>2
  <2>4. report.ended = "no" BY <2>1 DEF AtPage, Scanning
  <2> QED BY <1>d, <2>1, <2>3, <2>4 DEF CheckState, DiskFiles
<1>2. CASE ReportBadPage
  <2>1. /\ disks' = disks /\ AtPage /\ counts' = [Counted EXCEPT !.bad = @ + 1]
        /\ ~IsEmpty(CheckedPage)
    BY <1>2 DEF ReportBadPage
  <2>2. \E m : counts' = [checked |-> c + 1, empty |-> e + 0, noSum |-> m, bad |-> b + 1,
                          shortFiles |-> counts.shortFiles]
    <3> DEFINE m == counts'.noSum
    <3>1. e + 0 = e BY <1>t
    <3>2. counts' = [checked |-> c + 1, empty |-> e + 0, noSum |-> m, bad |-> b + 1,
                     shortFiles |-> counts.shortFiles]
      BY <1>u, <2>1, <3>1 DEF Counted, c, e, b
    <3> HIDE DEF m
    <3> QED BY <3>2
  <2>3. /\ counts' = [checked |-> counts'.checked, empty |-> counts'.empty,
                      noSum |-> counts'.noSum, bad |-> counts'.bad,
                      shortFiles |-> counts'.shortFiles]
        /\ counts'.checked \in Nat /\ counts'.empty \in Nat /\ counts'.bad \in Nat
        /\ counts'.empty + counts'.bad <= counts'.checked
    <3>1. 0 + 1 <= 1 /\ 0 \in {0, 1} /\ 1 \in {0, 1} OBVIOUS
    <3> QED BY <1>c, <2>2, <3>1
  <2>4. \/ kept' = [kept EXCEPT ![cursor.file] = OneMore(@)]
           /\ cursor' = [cursor EXCEPT !.page = @ + 1] /\ report' = report
        \/ report' = [ended |-> "error"] /\ kept' = kept /\ cursor' = cursor
    BY <1>2 DEF ReportBadPage, NextPage
  <2>5. \A f \in DOMAIN kept : OneMore(kept[f]) \in 0 .. MaxReported
    BY CheckAssumption DEF CheckState, CheckAssumption, OneMore
  <2>6. report.ended = "no" BY <2>1 DEF AtPage, Scanning
  <2>7. CASE kept' = [kept EXCEPT ![cursor.file] = OneMore(@)]
             /\ cursor' = [cursor EXCEPT !.page = @ + 1] /\ report' = report
    <3>1. DOMAIN kept' = DOMAIN kept /\ kept' = [f \in DOMAIN kept' |-> kept'[f]]
          /\ \A f \in DOMAIN kept' : kept'[f] \in 0 .. MaxReported
      BY <2>5, <2>7 DEF CheckState
    <3> QED BY <1>d, <2>1, <2>3, <2>6, <2>7, <3>1 DEF CheckState, DiskFiles
  <2>8. CASE report' = [ended |-> "error"] /\ kept' = kept /\ cursor' = cursor
    BY <2>1, <2>3, <2>8 DEF CheckState, DiskFiles
  <2> QED BY <2>4, <2>7, <2>8
<1>3. CASE LeaveFile
  <2>1. /\ disks' = disks /\ report' = report /\ kept' = kept
        /\ cursor' = [file |-> cursor.file + 1, page |-> 1] /\ report.ended = "no"
    BY <1>3 DEF LeaveFile, Scanning
  <2>2. /\ counts'.checked = c /\ counts'.empty = e /\ counts'.bad = b
        /\ counts' = [checked |-> counts'.checked, empty |-> counts'.empty,
                      noSum |-> counts'.noSum, bad |-> counts'.bad,
                      shortFiles |-> counts'.shortFiles]
    BY <1>3 DEF LeaveFile, CheckState, c, e, b
  <2> QED BY <1>t, <2>1, <2>2 DEF CheckState, DiskFiles
<1>4. CASE FinishCheck
  BY <1>4 DEF FinishCheck, CheckState, DiskFiles
<1>5. CASE UNCHANGED checkVars
  BY <1>5 DEF checkVars, CheckState, DiskFiles
<1> QED BY <1>1, <1>2, <1>3, <1>4, <1>5 DEF CheckNext

\* A line more in the stream
LEMMA StreamGrows ==
  ASSUME CheckState, StreamTold, AtPage, NEW e \in Entries,
         e.file = cursor.file, e.page = cursor.page,
         disks' = disks, stream' = Append(stream, e),
         cursor' = [cursor EXCEPT !.page = @ + 1], counts'.shortFiles = counts.shortFiles
  PROVE  StreamTold'
<1> DEFINE l == Len(stream)
<1>1. stream \in Seq(Entries) /\ l \in Nat /\ DOMAIN stream = 1 .. l BY DEF StreamTold
<1>2. /\ stream' \in Seq(Entries) /\ DOMAIN stream' = 1 .. l + 1
      /\ \A i \in 1 .. l : stream'[i] = stream[i]
      /\ stream'[l + 1] = e
  BY <1>1
<1>3. cursor.file \in Nat /\ cursor.page \in Nat /\ cursor'.file = cursor.file
      /\ cursor'.page = cursor.page + 1
  BY DEF CheckState
<1>4. \A i \in 1 .. l : stream[i].file \in Nat /\ stream[i].page \in Nat
  BY <1>1, EntryOfPage, ElementOfSeq
<1>5. \A i \in 1 .. l : Earlier(stream[i].file, stream[i].page, cursor.file, cursor.page)
  BY <1>1 DEF StreamTold
<1> HIDE DEF l
<1>6. \A i \in DOMAIN stream' :
        Earlier(stream'[i].file, stream'[i].page, cursor'.file, cursor'.page)
  BY <1>1, <1>2, <1>3, <1>4, <1>5 DEF Earlier
<1>7. \A i \in DOMAIN stream', j \in DOMAIN stream' :
        i < j => Earlier(stream'[i].file, stream'[i].page, stream'[j].file, stream'[j].page)
  <2> SUFFICES ASSUME NEW i \in 1 .. l + 1, NEW j \in 1 .. l + 1, i < j
               PROVE  Earlier(stream'[i].file, stream'[i].page, stream'[j].file, stream'[j].page)
    BY <1>2
  <2>1. i \in 1 .. l
    <3>1. i \in Nat /\ j \in Nat /\ j <= l + 1 /\ 1 <= i BY <1>1
    <3> QED BY <1>1, <3>1
  <2>2. CASE j \in 1 .. l BY <1>1, <1>2, <2>1, <2>2 DEF StreamTold
  <2>3. CASE j = l + 1 BY <1>2, <1>5, <2>1, <2>3
  <2>4. j \in 1 .. l \/ j = l + 1 BY <1>1
  <2> QED BY <2>2, <2>3, <2>4
<1>8. ASSUME NEW w \in BadPlaces,
             (w[1] = cursor'.file /\ w[2] < cursor'.page)
               \/ (w[1] < cursor'.file /\ w[1] \notin counts'.shortFiles)
      PROVE  \E i \in DOMAIN stream' : stream'[i].file = w[1] /\ stream'[i].page = w[2]
  <2>1. w[1] \in Nat /\ w[2] \in Nat BY DEF BadPlaces
  <2>2. CASE w[1] = cursor.file /\ w[2] = cursor.page
    <3>1. l + 1 \in DOMAIN stream' BY <1>1, <1>2
    <3> QED BY <1>2, <2>2, <3>1
  <2>3. CASE ~(w[1] = cursor.file /\ w[2] = cursor.page)
    <3>1. PICK i \in DOMAIN stream : stream[i].file = w[1] /\ stream[i].page = w[2]
      BY <1>3, <1>8, <2>1, <2>3 DEF StreamTold
    <3>2. i \in DOMAIN stream' BY <1>1, <1>2
    <3> QED BY <1>1, <1>2, <3>1, <3>2
  <2> QED BY <2>2, <2>3
<1>9. BadPlaces' = BadPlaces /\ Entries' = Entries BY SameDisks
<1> QED BY <1>2, <1>6, <1>7, <1>8, <1>9 DEF StreamTold

\* No line more, and no damaged page passed by
LEMMA StreamStays ==
  ASSUME CheckState, StreamTold, disks' = disks, stream' = stream,
         \/ cursor' = cursor /\ counts'.shortFiles = counts.shortFiles
         \/ /\ cursor' = [cursor EXCEPT !.page = @ + 1]
            /\ <<cursor.file, cursor.page>> \notin BadPlaces
            /\ counts'.shortFiles = counts.shortFiles
         \/ /\ cursor' = [file |-> cursor.file + 1, page |-> 1]
            /\ counts'.shortFiles \ {cursor.file} = counts.shortFiles \ {cursor.file}
            /\ counts.shortFiles \subseteq counts'.shortFiles
            /\ \/ cursor.file \in counts'.shortFiles
               \/ cursor.page > Len(DiskFiles[cursor.file].pages)
  PROVE  StreamTold'
<1>1. /\ cursor.file \in Nat \ {0} /\ cursor.page \in Nat \ {0}
      /\ cursor = [file |-> cursor.file, page |-> cursor.page]
  BY DEF CheckState
<1>2. stream \in Seq(Entries) /\ DOMAIN stream = 1 .. Len(stream) BY DEF StreamTold
<1>3. \A i \in DOMAIN stream : stream[i].file \in Nat /\ stream[i].page \in Nat
  BY <1>2, EntryOfPage, ElementOfSeq
<1>4. \A i \in DOMAIN stream :
        Earlier(stream[i].file, stream[i].page, cursor'.file, cursor'.page)
  <2>1. \A i \in DOMAIN stream :
          Earlier(stream[i].file, stream[i].page, cursor.file, cursor.page)
    BY DEF StreamTold
  <2> QED BY <1>1, <1>3, <2>1 DEF Earlier
<1>5. ASSUME NEW w \in BadPlaces,
             (w[1] = cursor'.file /\ w[2] < cursor'.page)
               \/ (w[1] < cursor'.file /\ w[1] \notin counts'.shortFiles)
      PROVE  (w[1] = cursor.file /\ w[2] < cursor.page)
               \/ (w[1] < cursor.file /\ w[1] \notin counts.shortFiles)
  <2>1. /\ w \in Nat \X Nat /\ w = <<w[1], w[2]>> /\ w[1] \in DOMAIN DiskFiles
        /\ w[2] \in 1 .. Len(DiskFiles[w[1]].pages) /\ Len(DiskFiles[w[1]].pages) \in Nat
    BY FilesTyped DEF BadPlaces
  <2>2. CASE cursor' = cursor /\ counts'.shortFiles = counts.shortFiles
    BY <1>5, <2>2
  <2>3. CASE /\ cursor' = [cursor EXCEPT !.page = @ + 1]
             /\ <<cursor.file, cursor.page>> \notin BadPlaces
             /\ counts'.shortFiles = counts.shortFiles
    <3>1. cursor'.file = cursor.file /\ cursor'.page = cursor.page + 1 BY <1>1, <2>3
    <3>2. ~(w[1] = cursor.file /\ w[2] = cursor.page) BY <2>1, <2>3
    <3> QED BY <1>1, <1>5, <2>1, <2>3, <3>1, <3>2
  <2>4. CASE /\ cursor' = [file |-> cursor.file + 1, page |-> 1]
             /\ counts.shortFiles \subseteq counts'.shortFiles
             /\ \/ cursor.file \in counts'.shortFiles
                \/ cursor.page > Len(DiskFiles[cursor.file].pages)
    <3>1. cursor'.file = cursor.file + 1 /\ cursor'.page = 1 BY <2>4
    <3>2. w[1] < cursor.file + 1 /\ w[1] \notin counts'.shortFiles
      BY <1>1, <1>5, <2>1, <3>1
    <3>3. CASE w[1] = cursor.file
      <4>1. w[2] < cursor.page BY <1>1, <2>1, <2>4, <3>2, <3>3
      <4> QED BY <3>3, <4>1
    <3>4. CASE w[1] # cursor.file BY <1>1, <2>1, <2>4, <3>2, <3>4
    <3> QED BY <3>3, <3>4
  <2> QED BY <2>2, <2>3, <2>4
<1>6. BadPlaces' = BadPlaces /\ Entries' = Entries BY SameDisks
<1>7. \A w \in BadPlaces' :
       (w[1] = cursor'.file /\ w[2] < cursor'.page)
         \/ (w[1] < cursor'.file /\ w[1] \notin counts'.shortFiles)
         => \E i \in DOMAIN stream' : stream'[i].file = w[1] /\ stream'[i].page = w[2]
  BY <1>5, <1>6 DEF StreamTold
<1>8. \A i \in DOMAIN stream', j \in DOMAIN stream' :
       i < j => Earlier(stream'[i].file, stream'[i].page, stream'[j].file, stream'[j].page)
  BY DEF StreamTold
<1> QED BY <1>2, <1>4, <1>6, <1>7, <1>8 DEF StreamTold

\* What an object's totals say of the stream
IsTotal(o) ==
  /\ o = [key |-> o.key, sure |-> o.sure, pages |-> o.pages, heads |-> o.heads, by |-> o.by]
  /\ o.sure \in Nat /\ o.pages \in Nat /\ o.heads \in Nat
TotalTold(o) ==
  /\ o.pages = Cardinality(Streamed(o.key)) /\ o.heads <= o.pages
  /\ \A i \in Streamed(o.key) : o.sure <= stream[i].object.sure
  /\ \E i \in Streamed(o.key) : o.sure = stream[i].object.sure
ImpactTyped ==
  /\ impact = [attributed |-> impact.attributed, unattributed |-> impact.unattributed,
               objects |-> impact.objects]
  /\ impact.attributed \in Nat /\ impact.unattributed \in Nat
  /\ \A o \in impact.objects : IsTotal(o) /\ o.key[2] # "NONE"
  /\ \A o \in impact.objects, q \in impact.objects : o.key = q.key => o = q
ImpactTold ==
  /\ ImpactTyped
  /\ Len(stream) = counts.bad /\ impact.attributed + impact.unattributed = counts.bad
  /\ \A o \in impact.objects : TotalTold(o)
  /\ \A i \in DOMAIN stream :
       stream[i].object.type # "NONE" => \E o \in impact.objects : o.key = Key(stream[i].object)

\* A set of one element is that of the one taken.
LEMMA OnlyOne ==
  ASSUME NEW S, Cardinality(S) = 1
  PROVE  TheOne(S) \in S /\ (IsFiniteSet(S) => S = {TheOne(S)})
<1>1. S # {}
  <2>1. Cardinality({}) = 0 BY FS_EmptySet
  <2>2. 0 # 1 OBVIOUS
  <2> QED BY <2>1, <2>2, Zenon
<1>2. TheOne(S) \in S BY <1>1 DEF TheOne
<1>3. ASSUME IsFiniteSet(S) PROVE S = {TheOne(S)}
  <2>1. PICK x : S = {x} BY <1>3, FS_Singleton
  <2> QED BY <1>2, <2>1
<1> QED BY <1>2, <1>3

\* The confidence of an attribution is 0, 1 or 2.
LEMMA AttributionTyped ==
  ASSUME NEW f, NEW n, NEW s
  PROVE  Attribution(f, n, s).sure \in Nat
<1> DEFINE objects == Objects(s)
           ranged == InRange(f, n)
           a == Attribution(f, n, s)
<1>1. \A o \in objects : o.sure = 2 BY DEF Objects
<1>2. \A o \in ranged : o.sure = 1 BY DEF InRange
<1>3. \A w : Unowned(w).sure = 0 BY DEF Unowned
<1> HIDE DEF objects, ranged
<1>4. \/ a = TheOne(objects) /\ Cardinality(objects) = 1
      \/ a = TheOne(ranged) /\ Cardinality(ranged) = 1
      \/ \E w : a = Unowned(w)
  BY Zenon DEF Attribution, objects, ranged
<1> HIDE DEF a
<1>5. a.sure \in {0, 1, 2} BY <1>1, <1>2, <1>3, <1>4, OnlyOne
<1> QED BY <1>5 DEF a

\* What a line more adds to the lines of an object
LEMMA StreamedGrows ==
  ASSUME stream \in Seq(Entries), NEW e \in Entries, stream' = Append(stream, e), NEW key
  PROVE  LET l == Len(stream) IN
         /\ l \in Nat /\ Len(stream') = l + 1 /\ DOMAIN stream' = DOMAIN stream \cup {l + 1}
         /\ stream'[l + 1] = e /\ l + 1 \notin DOMAIN stream
         /\ \A i \in DOMAIN stream : stream'[i] = stream[i]
         /\ IsFiniteSet(Streamed(key)) /\ Streamed(key) \subseteq DOMAIN stream
         /\ Streamed(key)' = IF Key(e.object) = key THEN Streamed(key) \cup {l + 1}
                             ELSE Streamed(key)
<1> DEFINE l == Len(stream)
<1>1. l \in Nat /\ DOMAIN stream = 1 .. l OBVIOUS
<1>2. /\ Len(stream') = l + 1 /\ DOMAIN stream' = 1 .. l + 1 /\ stream'[l + 1] = e
      /\ \A i \in 1 .. l : stream'[i] = stream[i]
  OBVIOUS
<1>3. 1 .. l + 1 = (1 .. l) \cup {l + 1} /\ l + 1 \notin 1 .. l BY <1>1
<1> HIDE DEF l
<1>4. Streamed(key)' = {i \in DOMAIN stream' : Key(stream'[i].object) = key}
  BY DEF Streamed, Key
<1>5. Streamed(key)' = IF Key(e.object) = key THEN Streamed(key) \cup {l + 1}
                       ELSE Streamed(key)
  BY <1>1, <1>2, <1>3, <1>4 DEF Streamed
<1>6. Streamed(key) \subseteq DOMAIN stream BY DEF Streamed
<1>7. IsFiniteSet(Streamed(key))
  <2>1. IsFiniteSet(1 .. l) BY <1>1, FS_Interval
  <2> QED BY <1>1, <1>6, <2>1, FS_Subset
<1> QED BY <1>1, <1>2, <1>3, <1>5, <1>6, <1>7 DEF l

\* The totals of objects other than the one charged stay true.
LEMMA OthersTold ==
  ASSUME stream \in Seq(Entries), NEW e \in Entries, stream' = Append(stream, e),
         NEW o, TotalTold(o), o.key # Key(e.object)
  PROVE  TotalTold(o)'
<1>1. Streamed(o.key)' = Streamed(o.key) /\ Streamed(o.key) \subseteq DOMAIN stream
      /\ \A i \in DOMAIN stream : stream'[i] = stream[i]
  BY StreamedGrows
<1> QED BY <1>1 DEF TotalTold

\* The totals of the object charged: those of a new one, and one page more
LEMMA NewTold ==
  ASSUME stream \in Seq(Entries), NEW e \in Entries, stream' = Append(stream, e),
         NEW h \in {0, 1}, NEW o, e.object.sure \in Nat,
         Streamed(Key(e.object)) = {}, o.key = Key(e.object), o.sure = e.object.sure,
         o.pages = 1, o.heads = h
  PROVE  TotalTold(o)'
<1> DEFINE l == Len(stream)
<1>1. Streamed(o.key)' = {l + 1} /\ stream'[l + 1] = e BY StreamedGrows
<1>2. Cardinality({l + 1}) = 1 BY FS_Singleton
<1> HIDE DEF l
<1>3. o.pages = Cardinality(Streamed(o.key)') /\ o.heads <= o.pages BY <1>1, <1>2
<1>4. \A i \in Streamed(o.key)' : o.sure <= stream'[i].object.sure
  <2>1. ASSUME NEW i \in Streamed(o.key)' PROVE o.sure <= stream'[i].object.sure
    <3>1. stream'[i] = e BY <1>1
    <3> QED BY <3>1
  <2> QED BY <2>1
<1>5. \E i \in Streamed(o.key)' : o.sure = stream'[i].object.sure BY <1>1
<1> QED BY <1>3, <1>4, <1>5 DEF TotalTold

\* One page more is charged to an object that has some.
LEMMA ChargedTold ==
  ASSUME stream \in Seq(Entries), NEW e \in Entries, stream' = Append(stream, e),
         NEW h \in {0, 1}, NEW o, e.object.sure \in Nat, NEW a, TotalTold(a), IsTotal(a),
         a.key = Key(e.object), o.key = a.key, o.sure = Weaker(a.sure, e.object.sure),
         o.pages = a.pages + 1, o.heads = a.heads + h,
         \A i \in DOMAIN stream : stream[i].object.sure \in Nat
  PROVE  TotalTold(o)'
<1> DEFINE l == Len(stream)
           S == Streamed(a.key)
<1>1. /\ Streamed(o.key)' = S \cup {l + 1} /\ stream'[l + 1] = e /\ l + 1 \notin S
      /\ \A i \in S : i \in DOMAIN stream /\ stream'[i] = stream[i]
      /\ IsFiniteSet(S)
  BY StreamedGrows
<1>2. a.sure \in Nat /\ a.pages \in Nat /\ a.heads \in Nat BY DEF IsTotal
<1>3. a.pages = Cardinality(S) /\ a.heads <= a.pages
      /\ (\A i \in S : a.sure <= stream[i].object.sure)
      /\ \E i \in S : a.sure = stream[i].object.sure
  BY DEF TotalTold
<1> HIDE DEF l, S
<1>4. o.pages = Cardinality(S \cup {l + 1}) /\ o.heads <= o.pages
  <2>1. Cardinality(S \cup {l + 1}) = Cardinality(S) + 1 BY <1>1, FS_AddElement
  <2> QED BY <1>2, <1>3, <2>1
<1>5. /\ o.sure \in Nat /\ o.sure <= a.sure /\ o.sure <= e.object.sure
      /\ o.sure = a.sure \/ o.sure = e.object.sure
  BY <1>2 DEF Weaker
<1>6. ASSUME NEW i \in S \cup {l + 1} PROVE o.sure <= stream'[i].object.sure
  <2>1. CASE i = l + 1 BY <1>1, <1>5, <2>1
  <2>2. CASE i \in S
    <3>1. stream'[i] = stream[i] /\ i \in DOMAIN stream BY <1>1, <2>2
    <3>2. a.sure <= stream[i].object.sure /\ stream[i].object.sure \in Nat
      BY <1>3, <2>2, <3>1
    <3> QED BY <1>2, <1>5, <3>1, <3>2
  <2> QED BY <2>1, <2>2
<1>7. \E i \in S \cup {l + 1} : o.sure = stream'[i].object.sure
  BY <1>1, <1>3, <1>5
<1> QED BY <1>1, <1>4, <1>6, <1>7 DEF TotalTold

\* The fields of an object's totals are replaced one after the other.
LEMMA OneMoreTotal ==
  ASSUME NEW a, NEW k, NEW s, NEW p, NEW d, NEW b, NEW o, NEW h,
         a = [key |-> k, sure |-> s, pages |-> p, heads |-> d, by |-> b]
  PROVE  OnePageMore(a, o, h)
           = [key |-> k, sure |-> Weaker(s, o.sure), pages |-> p + 1, heads |-> d + h,
              by |-> b \cup {o.by}]
<1> DEFINE t == Weaker(a.sure, o.sure)
           q == a.pages + 1
           c == a.by \cup {o.by}
           g == a.heads + h
           A1 == [a EXCEPT !.sure = t]
           A2 == [A1 EXCEPT !.pages = q]
           A3 == [A2 EXCEPT !.by = c]
           A4 == [A3 EXCEPT !.heads = g]
<1>1. t = Weaker(s, o.sure) /\ q = p + 1 /\ c = b \cup {o.by} /\ g = d + h OBVIOUS
<1>2. A4 = OnePageMore(a, o, h) BY DEF OnePageMore
<1>3. A1 = [key |-> k, sure |-> t, pages |-> p, heads |-> d, by |-> b]
  <2> HIDE DEF t
  <2> QED OBVIOUS
<1> HIDE DEF A1
<1>4. A2 = [key |-> k, sure |-> t, pages |-> q, heads |-> d, by |-> b]
  <2> HIDE DEF t, q
  <2> QED BY <1>3
<1> HIDE DEF A2
<1>5. A3 = [key |-> k, sure |-> t, pages |-> q, heads |-> d, by |-> c]
  <2> HIDE DEF t, q, c
  <2> QED BY <1>4
<1> HIDE DEF A3
<1>6. A4 = [key |-> k, sure |-> t, pages |-> q, heads |-> g, by |-> c]
  <2> HIDE DEF t, q, c, g
  <2> QED BY <1>5
<1> HIDE DEF A4
<1>7. [key |-> k, sure |-> t, pages |-> q, heads |-> g, by |-> c]
        = [key |-> k, sure |-> Weaker(s, o.sure), pages |-> p + 1, heads |-> d + h,
           by |-> b \cup {o.by}]
  <2> HIDE DEF t, q, c, g
  <2> QED BY <1>1, Zenon
<1> QED BY <1>2, <1>6, <1>7, Zenon DEF OnePageMore

\* One damaged page more, charged to an object or to none
LEMMA ImpactGrows ==
  ASSUME ImpactTold, stream \in Seq(Entries), NEW e \in Entries, NEW f, NEW n,
         stream' = Append(stream, e), impact' = Charged(e.object, f, n),
         counts'.bad = counts.bad + 1, counts.bad \in Nat, disks' = disks
  PROVE  ImpactTold'
<1> DEFINE o == e.object
           K == Key(o)
           l == Len(stream)
           att == impact.attributed
           un == impact.unattributed
           O == impact.objects
<1>1. /\ impact = [attributed |-> att, unattributed |-> un, objects |-> O]
      /\ att \in Nat /\ un \in Nat /\ l = counts.bad /\ att + un = counts.bad
      /\ \A q \in O : IsTotal(q) /\ q.key[2] # "NONE" /\ TotalTold(q)
      /\ \A q \in O, r \in O : q.key = r.key => q = r
      /\ \A i \in DOMAIN stream :
           stream[i].object.type # "NONE" => \E q \in O : q.key = Key(stream[i].object)
  BY DEF ImpactTold, ImpactTyped
<1>2. /\ Len(stream') = l + 1 /\ DOMAIN stream' = DOMAIN stream \cup {l + 1}
      /\ stream'[l + 1] = e /\ \A i \in DOMAIN stream : stream'[i] = stream[i]
  BY StreamedGrows
<1>3. \A i \in DOMAIN stream : stream[i].object.sure \in Nat
  <2>1. ASSUME NEW i \in DOMAIN stream PROVE stream[i].object.sure \in Nat
    <3>1. stream[i] \in Entries BY ElementOfSeq
    <3>2. stream[i].object = Attribution(stream[i].file, stream[i].page,
                               PageOf(stream[i].file, stream[i].page).storage)
      BY <3>1, EntryOfPage
    <3> QED BY <3>2, AttributionTyped
  <2> QED BY <2>1
<1>4. o.sure \in Nat
  <2>1. o = Attribution(e.file, e.page, PageOf(e.file, e.page).storage)
    BY EntryOfPage
  <2> QED BY <2>1, AttributionTyped
<1>5. K[2] = o.type BY DEF Key
<1>6. counts'.bad = l + 1 BY <1>1
<1> HIDE DEF o, K, l, att, un, O
<1>7. CASE o.type = "NONE"
  <2>1. impact' = [attributed |-> att, unattributed |-> un + 1, objects |-> O]
    BY <1>1, <1>7 DEF Charged, o
  <2>2. ASSUME NEW q \in O PROVE TotalTold(q)'
    <3>1. q.key # Key(e.object) BY <1>1, <1>5, <1>7 DEF K, o
    <3> QED BY <1>1, <3>1, OthersTold
  <2>3. /\ impact'.objects = O /\ impact'.attributed = att /\ impact'.unattributed = un + 1
    BY <2>1
  <2>4. ImpactTyped' BY <1>1, <2>1, <2>3 DEF ImpactTyped, IsTotal
  <2>5. Len(stream') = counts'.bad /\ impact'.attributed + impact'.unattributed = counts'.bad
    BY <1>1, <1>2, <1>6, <2>3
  <2>6. \A i \in DOMAIN stream' :
          stream'[i].object.type # "NONE" => \E q \in O : q.key = Key(stream'[i].object)
    BY <1>1, <1>2, <1>7 DEF o
  <2> QED BY <2>2, <2>3, <2>4, <2>5, <2>6 DEF ImpactTold, Key
<1>8. CASE o.type # "NONE"
  <2> DEFINE old == {a \in O : a.key = K}
             was == IF old = {} THEN [key |-> K, sure |-> o.sure, pages |-> 0,
                                      heads |-> 0, by |-> {}]
                    ELSE TheOne(old)
             h == IF IsHead(o, f, n) THEN 1 ELSE 0
             new == OnePageMore(was, o, h)
  <2>1. impact' = [impact EXCEPT !.attributed = @ + 1, !.objects = (@ \ old) \cup {new}]
    BY <1>8, Zenon DEF Charged, o, K, O
  <2>2. h \in {0, 1} OBVIOUS
  <2> HIDE DEF h
  <2>3. IsTotal(was) /\ was.key = K
    <3>1. CASE old = {}
      <4>1. was = [key |-> K, sure |-> o.sure, pages |-> 0, heads |-> 0, by |-> {}]
        BY <3>1
      <4> HIDE DEF was
      <4> QED BY <1>4, <4>1 DEF IsTotal
    <3>2. CASE old # {}
      <4>1. was \in old BY <3>2 DEF TheOne
      <4> QED BY <1>1, <4>1
    <3> QED BY <3>1, <3>2
  <2>4. /\ IsTotal(new) /\ new.key = K /\ new.sure = Weaker(was.sure, o.sure)
        /\ new.pages = was.pages + 1 /\ new.heads = was.heads + h
    <3> HIDE DEF was
    <3> DEFINE s == was.sure
               p == was.pages
               d == was.heads
    <3>1. was = [key |-> K, sure |-> s, pages |-> p, heads |-> d, by |-> was.by]
          /\ s \in Nat /\ p \in Nat /\ d \in Nat
      BY <2>3 DEF IsTotal
    <3>2. new = [key |-> K, sure |-> Weaker(s, o.sure), pages |-> p + 1, heads |-> d + h,
                 by |-> was.by \cup {o.by}]
      <4> HIDE DEF s, p, d
      <4> QED BY <2>3, <3>1, OneMoreTotal
    <3> HIDE DEF s, p, d
    <3>3. Weaker(s, o.sure) \in Nat /\ p + 1 \in Nat /\ d + h \in Nat
      BY <1>4, <2>2, <3>1 DEF Weaker
    <3> HIDE DEF new
    <3> QED BY <3>2, <3>3 DEF IsTotal, s, p, d
  <2>p. PICK x : x = new OBVIOUS
  <2>q. PICK v : v = was OBVIOUS
  <2>r. /\ IsTotal(x) /\ x.key = K /\ x.sure = Weaker(v.sure, o.sure)
        /\ x.pages = v.pages + 1 /\ x.heads = v.heads + h /\ IsTotal(v) /\ v.key = K
    BY <2>3, <2>4, <2>p, <2>q
  <2>5. TotalTold(x)'
    <3>1. CASE old = {}
      <4>1. v.sure = o.sure /\ v.pages = 0 /\ v.heads = 0 BY <3>1, <2>q
      <4>2. Streamed(K) = {}
        <5>1. ASSUME NEW i \in Streamed(K) PROVE FALSE
          <6>1. i \in DOMAIN stream /\ Key(stream[i].object) = K BY DEF Streamed
          <6>2. stream[i].object.type # "NONE" BY <1>5, <1>8, <6>1 DEF Key
          <6>3. PICK q \in O : q.key = K BY <1>1, <6>1, <6>2
          <6> QED BY <3>1, <6>3
        <5> QED BY <5>1
      <4>3. x.sure = o.sure BY <1>4, <2>r, <4>1 DEF Weaker
      <4>4. x.pages = 1 /\ x.heads = h BY <2>2, <2>r, <4>1
      <4> HIDE DEF new, was, old
      <4> QED BY <1>4, <2>2, <2>r, <4>2, <4>3, <4>4, NewTold DEF o, K
    <3>2. CASE old # {}
      <4>1. v \in old BY <3>2, <2>q DEF TheOne
      <4>2. TotalTold(v) BY <1>1, <4>1
      <4> HIDE DEF new, was, old
      <4> QED BY <1>3, <1>4, <2>2, <2>r, <4>2, ChargedTold DEF o, K
    <3> QED BY <3>1, <3>2
  <2>6. ASSUME NEW q \in O \ old PROVE TotalTold(q)'
    <3>1. q.key # Key(e.object) BY DEF K, o
    <3> QED BY <1>1, <3>1, OthersTold
  <2>7. \A q \in O \ old : q.key # K OBVIOUS
  <2> HIDE DEF new, was
  <2>8. /\ impact'.objects = (O \ old) \cup {x} /\ impact'.attributed = att + 1
        /\ impact'.unattributed = un
        /\ impact' = [attributed |-> att + 1, unattributed |-> un,
                      objects |-> (O \ old) \cup {x}]
    BY <1>1, <2>1, <2>p
  <2> HIDE DEF old
  <2>9. ImpactTyped'
    <3>1. \A q \in impact'.objects : IsTotal(q) /\ q.key[2] # "NONE"
      BY <1>1, <1>5, <1>8, <2>r, <2>8
    <3>2. \A q \in impact'.objects, r \in impact'.objects : q.key = r.key => q = r
      BY <1>1, <2>r, <2>7, <2>8
    <3> QED BY <1>1, <2>8, <3>1, <3>2 DEF ImpactTyped, IsTotal
  <2>10. Len(stream') = counts'.bad /\ impact'.attributed + impact'.unattributed = counts'.bad
    BY <1>1, <1>2, <1>6, <2>8
  <2>11. ASSUME NEW i \in DOMAIN stream', stream'[i].object.type # "NONE"
         PROVE  \E q \in impact'.objects : q.key = Key(stream'[i].object)
    <3>1. CASE i = l + 1 BY <1>2, <2>r, <2>8, <3>1 DEF K, o
    <3>2. CASE i # l + 1
      <4>1. i \in DOMAIN stream /\ stream'[i] = stream[i] BY <1>2, <3>2
      <4>2. PICK q \in O : q.key = Key(stream'[i].object) BY <1>1, <2>11, <4>1
      <4>3. CASE q \in old
        <5>1. x.key = q.key BY <2>r, <4>3 DEF old
        <5> QED BY <2>8, <4>2, <5>1
      <4>4. CASE q \notin old BY <2>8, <4>2, <4>4
      <4> QED BY <4>3, <4>4
    <3> QED BY <3>1, <3>2
  <2>12. ASSUME NEW q \in impact'.objects PROVE TotalTold(q)'
    <3>1. CASE q = x BY <2>5, <3>1
    <3>2. CASE q # x BY <2>6, <2>8, <3>2
    <3> QED BY <3>1, <3>2
  <2> QED BY <2>9, <2>10, <2>11, <2>12 DEF ImpactTold, Key
<1> QED BY <1>7, <1>8

CheckInv == CheckState /\ StreamTold /\ (report.ended # "error" => ImpactTold)

\* No totals before the first page
LEMMA ImpactStarts == ASSUME CheckInit PROVE ImpactTold
<1>1. /\ impact = [attributed |-> 0, unattributed |-> 0, objects |-> {}]
      /\ stream = <<>> /\ counts.bad = 0
  BY DEF CheckInit
<1>2. impact.attributed = 0 /\ impact.unattributed = 0 /\ impact.objects = {}
      /\ Len(stream) = 0 /\ DOMAIN stream = {}
  BY <1>1
<1> QED BY <1>1, <1>2 DEF ImpactTold, ImpactTyped

\* Totals stay true where stream, totals and count stay.
LEMMA ImpactStays ==
  ASSUME ImpactTold, impact' = impact, stream' = stream, counts'.bad = counts.bad
  PROVE  ImpactTold'
<1>1. ImpactTyped' BY DEF ImpactTold, ImpactTyped, IsTotal
<1>2. ASSUME NEW o \in impact.objects PROVE TotalTold(o)'
  BY DEF ImpactTold, TotalTold, Streamed, Key
<1> QED BY <1>1, <1>2 DEF ImpactTold, Key

\* What a page counted leaves of the counters
LEMMA CountsMove ==
  ASSUME CheckState
  PROVE  /\ Counted.bad = counts.bad /\ Counted.shortFiles = counts.shortFiles
         /\ [Counted EXCEPT !.bad = @ + 1].bad = counts.bad + 1
         /\ [Counted EXCEPT !.bad = @ + 1].shortFiles = counts.shortFiles
<1> DEFINE Rest == [checked |-> counts.checked, empty |-> counts.empty, noSum |-> counts.noSum,
                    bad |-> counts.bad, shortFiles |-> counts.shortFiles]
<1>1. counts = Rest BY DEF CheckState
<1>2. Counted.bad = counts.bad /\ Counted.shortFiles = counts.shortFiles
      /\ "bad" \in DOMAIN Counted
  BY <1>1 DEF Counted
<1> QED BY <1>2

\* Every step keeps the stream and the totals in agreement.
LEMMA CheckInvIsKept ==
  ASSUME CheckInv, [CheckNext]_checkVars
  PROVE  CheckInv'
<1> USE DEF CheckInv
<1>1. CheckState' BY StateIsKept
<1>2. CASE CheckSoundPage
  <2>1. /\ disks' = disks /\ report' = report /\ stream' = stream /\ impact' = impact
        /\ cursor' = [cursor EXCEPT !.page = @ + 1] /\ counts' = Counted /\ AtPage
        /\ ~IsDamaged(CheckedPage)
    BY <1>2 DEF CheckSoundPage, NextPage, IsDamaged
  <2>2. <<cursor.file, cursor.page>> \notin BadPlaces BY <2>1, AtPagePlace
  <2>3. counts'.bad = counts.bad /\ counts'.shortFiles = counts.shortFiles
    BY <2>1, CountsMove
  <2>4. StreamTold' BY <2>1, <2>2, <2>3, StreamStays
  <2>5. report.ended # "error" => ImpactTold' BY <2>1, <2>3, ImpactStays
  <2> QED BY <1>1, <2>1, <2>4, <2>5
<1>3. CASE ReportBadPage
  <2> DEFINE f == cursor.file
             n == cursor.page
             e == Entry(f, n)
  <2>1. /\ disks' = disks /\ AtPage /\ counts' = [Counted EXCEPT !.bad = @ + 1]
        /\ IsDamaged(CheckedPage)
    BY <1>3 DEF ReportBadPage, IsDamaged
  <2>2. counts'.bad = counts.bad + 1 /\ counts'.shortFiles = counts.shortFiles
    BY <2>1, CountsMove
  <2>3. <<f, n>> \in BadPlaces /\ CheckedPage = PageOf(f, n) BY <2>1, AtPagePlace
  <2>4. e \in Entries /\ e.file = f /\ e.page = n
        /\ e.object = Attribution(f, n, CheckedPage.storage)
    <3>1. e \in Entries BY <2>3 DEF Entries
    <3>2. e.file = f /\ e.page = n /\ e.object = Attribution(f, n, PageOf(f, n).storage)
      BY DEF Entry
    <3> QED BY <2>3, <3>1, <3>2
  <2>5. CASE report' = [ended |-> "error"] /\ stream' = stream /\ cursor' = cursor
    <3>1. StreamTold' BY <2>1, <2>2, <2>5, StreamStays
    <3> QED BY <1>1, <2>5, <3>1
  <2>6. CASE /\ stream' = Append(stream, e) /\ cursor' = [cursor EXCEPT !.page = @ + 1]
             /\ report' = report
    <3>1. impact' = Charged(e.object, f, n) BY <1>3, <2>4 DEF ReportBadPage
    <3> HIDE DEF e, f, n
    <3>2. StreamTold' BY <2>1, <2>2, <2>4, <2>6, StreamGrows DEF f, n
    <3>3. report.ended = "no" BY <2>1 DEF AtPage, Scanning
    <3>4. ImpactTold /\ stream \in Seq(Entries) /\ counts.bad \in Nat
      BY <3>3 DEF StreamTold, CheckState
    <3>5. ImpactTold' BY <2>1, <2>2, <2>4, <2>6, <3>1, <3>4, ImpactGrows
    <3> QED BY <1>1, <3>2, <3>5
  <2>7. \/ report' = [ended |-> "error"] /\ stream' = stream /\ cursor' = cursor
        \/ /\ stream' = Append(stream, e) /\ cursor' = [cursor EXCEPT !.page = @ + 1]
           /\ report' = report
    <3>1. e = [file |-> f, page |-> n, object |-> Attribution(f, n, CheckedPage.storage),
               kind |-> Corruption(CheckedPage)]
      BY <2>3 DEF Entry
    <3> HIDE DEF e
    <3> QED BY <1>3, <3>1 DEF ReportBadPage, NextPage
  <2> QED BY <2>5, <2>6, <2>7
<1>4. CASE LeaveFile
  <2>1. /\ disks' = disks /\ report' = report /\ stream' = stream /\ impact' = impact
        /\ cursor' = [file |-> cursor.file + 1, page |-> 1] /\ report.ended = "no"
        /\ counts' = [counts EXCEPT !.shortFiles =
             @ \cup {f \in {cursor.file} : ReadFault \/ DiskFiles[f].cut}]
        /\ ReadFault \/ (~AtPage /\ Scanning)
    BY <1>4 DEF LeaveFile, Scanning
  <2>2. /\ counts'.bad = counts.bad
        /\ counts'.shortFiles = counts.shortFiles
             \cup {f \in {cursor.file} : ReadFault \/ DiskFiles[f].cut}
    BY <2>1 DEF CheckState
  <2>3. \/ cursor.file \in counts'.shortFiles
        \/ cursor.page > Len(DiskFiles[cursor.file].pages)
    <3>1. CASE ReadFault BY <2>2, <3>1
    <3>2. CASE ~AtPage /\ Scanning
      <4>1. ~(cursor.page <= Len(DiskFiles[cursor.file].pages)) BY <3>2 DEF AtPage
      <4>2. cursor.file \in DOMAIN DiskFiles BY <3>2, FilesTyped DEF Scanning, CheckState
      <4>3. Len(DiskFiles[cursor.file].pages) \in Nat /\ cursor.page \in Nat
        BY <4>2, FilesTyped DEF CheckState
      <4> QED BY <4>1, <4>3
    <3> QED BY <2>1, <3>1, <3>2
  <2>4. /\ counts'.shortFiles \ {cursor.file} = counts.shortFiles \ {cursor.file}
        /\ counts.shortFiles \subseteq counts'.shortFiles
    BY <2>2
  <2>5. StreamTold' BY <2>1, <2>3, <2>4, StreamStays
  <2>6. report.ended # "error" => ImpactTold' BY <2>1, <2>2, ImpactStays
  <2> QED BY <1>1, <2>1, <2>5, <2>6
<1>5. CASE FinishCheck
  <2>1. /\ disks' = disks /\ stream' = stream /\ impact' = impact
        /\ cursor' = cursor /\ counts' = counts /\ report.ended = "no"
    BY <1>5 DEF FinishCheck
  <2>2. StreamTold' BY <2>1, StreamStays
  <2>3. ImpactTold' BY <2>1, ImpactStays
  <2> QED BY <1>1, <2>2, <2>3
<1>6. CASE UNCHANGED checkVars
  <2>1. /\ disks' = disks /\ stream' = stream /\ impact' = impact
        /\ cursor' = cursor /\ counts' = counts /\ report' = report
    BY <1>6 DEF checkVars
  <2>2. StreamTold' BY <2>1, StreamStays
  <2>3. report.ended # "error" => ImpactTold' BY <2>1, ImpactStays
  <2> QED BY <1>1, <2>1, <2>2, <2>3
<1> QED BY <1>2, <1>3, <1>4, <1>5, <1>6 DEF CheckNext

Owners(s) == {t \in Tables : s # 0 /\ s \in {t.storage} \cup t.assists}

\* A page that carries the id of one table's storage is charged to that table.
LEMMA OwnerIsCharged ==
  ASSUME CheckState, disks.used, NEW f, NEW n, NEW s, Cardinality(Owners(s)) = 1
  PROVE  Attribution(f, n, s).table = TheOne(Owners(s)).name
<1> DEFINE owners == Owners(s)
<1>0. owners = {t \in Tables : s # 0 /\ s \in {t.storage} \cup t.assists}
      /\ Cardinality(owners) = 1
  BY DEF Owners
<1> HIDE DEF owners
<1>1. IsFiniteSet(owners) BY <1>0, FilesTyped, FS_Subset
<1>2. PICK t : owners = {t} /\ t = TheOne(owners) BY <1>0, <1>1, OnlyOne
<1>3. t \in Tables /\ s # 0 /\ s \in {t.storage} \cup t.assists BY <1>0, <1>2
<1>4. \A u \in Tables : u.storage = s \/ s \in u.assists => u = t BY <1>0, <1>2, <1>3
<1> DEFINE main == [table |-> t.name, storage |-> s, type |-> "TABLE", by |-> "storage", sure |-> 2]
           assist == [table |-> t.name, storage |-> s, type |-> "ASSIST", by |-> "assist",
                      sure |-> 2]
<1>5. \E x : Objects(s) = {x} /\ x.table = t.name
  <2>1. CASE t.storage = s
    <3>1. {u \in Tables : s # 0 /\ u.storage = s} = {t} BY <1>3, <1>4, <2>1
    <3>2. {u \in Tables : s # 0 /\ s \in u.assists /\ s # u.storage} = {}
      BY <1>4, <2>1
    <3>3. Objects(s) = {main} BY <3>1, <3>2 DEF Objects
    <3>4. main.table = t.name OBVIOUS
    <3> QED BY <3>3, <3>4, Zenon
  <2>2. CASE t.storage # s
    <3>1. {u \in Tables : s # 0 /\ u.storage = s} = {} BY <1>4, <2>2
    <3>2. {u \in Tables : s # 0 /\ s \in u.assists /\ s # u.storage} = {t}
      BY <1>3, <1>4, <2>2
    <3>3. Objects(s) = {assist} BY <3>1, <3>2 DEF Objects
    <3>4. assist.table = t.name OBVIOUS
    <3> QED BY <3>3, <3>4, Zenon
  <2> QED BY <2>1, <2>2
<1>6. PICK x : Objects(s) = {x} /\ x.table = t.name BY <1>5
<1>7. Cardinality(Objects(s)) = 1 BY <1>6, FS_Singleton
<1>8. Attribution(f, n, s) = TheOne(Objects(s)) BY <1>7 DEF Attribution
<1>9. TheOne(Objects(s)) = x BY <1>6 DEF TheOne
<1> QED BY <1>2, <1>6, <1>8, <1>9 DEF owners

\* What the report promises follows.
LEMMA DamageIsTold == ASSUME CheckInv PROVE DamageAccounted
<1> USE DEF CheckInv
<1>1. ASSUME NEW i \in DOMAIN stream
      PROVE  /\ stream[i] \in Entries
             /\ <<stream[i].file, stream[i].page>> \in BadPlaces
             /\ stream[i].object = Attribution(stream[i].file, stream[i].page,
                                     PageOf(stream[i].file, stream[i].page).storage)
  <2>1. stream[i] \in Entries BY ElementOfSeq DEF StreamTold
  <2> QED BY <2>1, EntryOfPage
<1>2. ASSUME NEW i \in DOMAIN stream, disks.used, NEW p, NEW owners,
             p = DiskFiles[stream[i].file].pages[stream[i].page],
             owners = {t \in Tables : p.storage # 0 /\ p.storage \in {t.storage} \cup t.assists},
             Cardinality(owners) = 1
      PROVE  stream[i].object.table = TheOne(owners).name
  <2> DEFINE f == stream[i].file
             n == stream[i].page
  <2>1. stream[i].object = Attribution(f, n, p.storage) BY <1>1, <1>2 DEF PageOf
  <2> HIDE DEF f, n
  <2>2. Attribution(f, n, p.storage).table = TheOne(owners).name
    <3>1. owners = Owners(p.storage) BY <1>2 DEF Owners
    <3>2. CheckState /\ disks.used /\ Cardinality(Owners(p.storage)) = 1 BY <1>2, <3>1
    <3>3. Attribution(f, n, p.storage).table = TheOne(Owners(p.storage)).name
      <4> HIDE DEF CheckInv
      <4> QED BY <3>2, OwnerIsCharged, Zenon
    <3> QED BY <3>1, <3>3
  <2> QED BY <2>1, <2>2
<1>3. ASSUME report.ended = "ok", NEW f \in DOMAIN DiskFiles \ counts.shortFiles,
             NEW n \in DOMAIN DiskFiles[f].pages
      PROVE  DiskFiles[f].pages[n].harmed
               <=> \E i \in DOMAIN stream : stream[i].file = f /\ stream[i].page = n
  <2>1. DiskFiles[f].pages[n].harmed <=> IsDamaged(PageOf(f, n))
    BY CheckAssumption DEF CheckState, CheckAssumption, IsCheckWorld, DiskFiles, PageOf
  <2>2. f \in Nat /\ n \in Nat /\ f < cursor.file
    BY <1>3, FilesTyped DEF CheckState
  <2>3. <<f, n>> \in BadPlaces <=> IsDamaged(PageOf(f, n)) BY <2>2 DEF BadPlaces
  <2>4. ASSUME <<f, n>> \in BadPlaces
        PROVE  \E i \in DOMAIN stream : stream[i].file = f /\ stream[i].page = n
    BY <2>2, <2>4 DEF StreamTold
  <2> QED BY <1>1, <2>1, <2>3, <2>4
<1>4. report.ended # "error" =>
        /\ Len(stream) = counts.bad
        /\ impact.attributed + impact.unattributed = counts.bad
        /\ \A o \in impact.objects :
             /\ o.pages = Cardinality(Streamed(o.key)) /\ o.heads <= o.pages
             /\ \A i \in Streamed(o.key) : o.sure <= stream[i].object.sure
             /\ \E i \in Streamed(o.key) : o.sure = stream[i].object.sure
  BY DEF ImpactTold, TotalTold
<1>5. \A i \in DOMAIN stream, j \in DOMAIN stream :
        i < j => \/ stream[i].file < stream[j].file
                 \/ stream[i].file = stream[j].file /\ stream[i].page < stream[j].page
  BY DEF StreamTold, Earlier
<1>6. \A i \in DOMAIN stream :
        LET p == DiskFiles[stream[i].file].pages[stream[i].page]
            owners == {t \in Tables : p.storage # 0 /\ p.storage \in {t.storage} \cup t.assists}
        IN Cardinality(owners) = 1 /\ disks.used => stream[i].object.table = TheOne(owners).name
  BY <1>2
<1>7. report.ended = "ok" =>
        \A f \in DOMAIN DiskFiles \ counts.shortFiles :
          \A n \in DOMAIN DiskFiles[f].pages :
            DiskFiles[f].pages[n].harmed
              <=> \E i \in DOMAIN stream : stream[i].file = f /\ stream[i].page = n
  BY <1>3
<1> HIDE DEF CheckInv
<1> QED BY <1>4, <1>5, <1>6, <1>7, Zenon DEF DamageAccounted

\* As DamageAccounted says, of any number of files, pages and tables, whatever
\* is damaged, wherever a read fails and wherever the report cannot be written
\* (CheckPages, checkOnePageSource, pageImpactAccumulator.add).
THEOREM DamageIsAccounted == CheckSpec => []DamageAccounted
<1>1. CheckInit => CheckInv BY StateStarts, ImpactStarts DEF CheckInv
<1>2. CheckInv /\ [CheckNext]_checkVars => CheckInv' BY CheckInvIsKept
<1>3. CheckInv => DamageAccounted BY DamageIsTold
<1> QED BY <1>1, <1>2, <1>3, PTL DEF CheckSpec

\* The counters never tell of more pages than were read, and the list in memory
\* stays cut off at its limit, in whatever order pages are found damaged
\* (CheckPages).
THEOREM CheckTypesKept == CheckSpec => []CheckTypeOK
<1>1. CheckInit => CheckInv BY StateStarts, ImpactStarts DEF CheckInv
<1>2. CheckInv /\ [CheckNext]_checkVars => CheckInv' BY CheckInvIsKept
<1>3. CheckInv => CheckTypeOK
  <2> SUFFICES ASSUME CheckState PROVE CheckTypeOK BY DEF CheckInv
  <2>1. counts.bad <= counts.checked BY DEF CheckState
  <2>2. \A f \in DOMAIN kept : kept[f] <= MaxReported
    BY CheckAssumption DEF CheckState, CheckAssumption
  <2> QED BY <2>1, <2>2 DEF CheckState, CheckTypeOK
<1> QED BY <1>1, <1>2, <1>3, PTL DEF CheckSpec

-----------------------------------------------------------------------------

(* The load of the dictionary (SystemCatalog) *)

LEMMA VisitIs ==
  ASSUME NEW kind, NEW P, NEW v
  PROVE  v \in Visit(kind, P) <=>
           \E p \in P : \E x \in image.rows[p] : x.kind = kind /\ v = [page |-> p, row |-> x]
BY DEF Visit

LEMMA VisitRows ==
  ASSUME NEW kind, NEW P
  PROVE  {v.row : v \in Visit(kind, P)} = RowsOn(image, kind, P)
<1>1. ASSUME NEW v \in Visit(kind, P) PROVE v.row \in RowsOn(image, kind, P)
  BY VisitIs DEF RowsOn
<1>2. ASSUME NEW x \in RowsOn(image, kind, P)
      PROVE  \E v \in Visit(kind, P) : v.row = x
  <2>1. PICK p \in P : x \in image.rows[p] /\ x.kind = kind BY DEF RowsOn
  <2>2. [page |-> p, row |-> x] \in Visit(kind, P) BY <2>1, VisitIs
  <2> QED BY <2>2
<1> QED BY <1>1, <1>2

LEMMA VisitFinite ==
  ASSUME IsImage(image), NEW kind, NEW P \in SUBSET FilePages
  PROVE  /\ IsFiniteSet(Visit(kind, P))
         /\ \A v \in Visit(kind, P) : v.page \in Nat /\ v.row.slot \in Nat
         /\ kind = "SYSTEXTS" => \A v \in Visit(kind, P) : v.row.len \in Nat
<1> DEFINE On(p) == {[page |-> p, row |-> r] : r \in {x \in image.rows[p] : x.kind = kind}}
<1>1. ASSUME NEW p \in P PROVE IsFiniteSet(On(p))
  <2>1. IsFiniteSet(image.rows[p]) BY DEF IsImage, FilePages
  <2> DEFINE X == {x \in image.rows[p] : x.kind = kind}
             f == [r \in X |-> [page |-> p, row |-> r]]
  <2>2. IsFiniteSet(X) BY <2>1, FS_Subset
  <2>3. On(p) = {f[r] : r \in X} OBVIOUS
  <2>4. f \in Surjection(X, On(p)) BY <2>3 DEF Surjection
  <2> HIDE DEF X, f, On
  <2> QED BY <2>2, <2>4, FS_Surjection
<1>2. IsFiniteSet(P)
  <2>1. IsFiniteSet(1 .. image.pages) BY FS_Interval DEF IsImage
  <2> QED BY <2>1, FS_Subset DEF FilePages
<1> DEFINE All == {On(p) : p \in P}
<1>3. IsFiniteSet(All)
  <2> DEFINE f == [p \in P |-> On(p)]
  <2>1. f \in Surjection(P, All) BY DEF Surjection
  <2> HIDE DEF f, All
  <2> QED BY <1>2, <2>1, FS_Surjection
<1>4. IsFiniteSet(UNION All)
  <2>1. \A X \in All : IsFiniteSet(X) BY <1>1
  <2> HIDE DEF All
  <2> QED BY <1>3, <2>1, FS_UNION
<1>5. Visit(kind, P) = UNION All BY DEF Visit
<1>6. ASSUME NEW v \in Visit(kind, P)
      PROVE  /\ v.page \in Nat /\ v.row.slot \in Nat
             /\ kind = "SYSTEXTS" => v.row.len \in Nat
  <2>1. PICK p \in P : \E x \in image.rows[p] : x.kind = kind /\ v = [page |-> p, row |-> x]
    BY <1>6, VisitIs
  <2>2. PICK x \in image.rows[p] : x.kind = kind /\ v = [page |-> p, row |-> x] BY <2>1
  <2>3. image.pages \in Nat /\ p \in 1 .. image.pages BY DEF IsImage, FilePages
  <2>4. x.slot \in Nat /\ (x.kind = "SYSTEXTS" => x.len \in Nat) BY <2>2, <2>3 DEF IsImage
  <2> QED BY <2>2, <2>3, <2>4
<1> QED BY <1>4, <1>5, <1>6

\* What comes first of each id: every id is there, and where an id has one
\* row this row.
LEMMA FirstOfEachId ==
  ASSUME NEW V, IsFiniteSet(V), NEW R, NEW F,
         \A u, v, w \in V : <<u, v>> \in R /\ <<v, w>> \in R => <<u, w>> \in R,
         \A v \in V : <<v, v>> \notin R,
         F = {v.row : v \in {x \in V : \A y \in V : y.row.id = x.row.id => <<y, x>> \notin R}}
  PROVE  LET A == {v.row : v \in V} IN
         /\ F \subseteq A /\ IsFiniteSet(F)
         /\ Ids(F) = Ids(A)
         /\ (\A x, y \in A : x.id = y.id => x = y) => F = A
<1> DEFINE A == {v.row : v \in V}
<1>1. F \subseteq A OBVIOUS
<1>2. IsFiniteSet(F)
  <2> DEFINE f == [v \in V |-> v.row]
  <2>1. f \in Surjection(V, A) BY DEF Surjection
  <2> HIDE DEF f, A
  <2>2. IsFiniteSet(A) BY <2>1, FS_Surjection
  <2> QED BY <1>1, <2>2, FS_Subset
<1>3. ASSUME NEW a \in A PROVE \E x \in F : x.id = a.id
  <2> DEFINE Same == {v \in V : v.row.id = a.id}
  <2>1. IsFiniteSet(Same) BY FS_Subset
  <2>2. Same # {} OBVIOUS
  <2>3. \A u, v, w \in Same : <<u, v>> \in R /\ <<v, w>> \in R => <<u, w>> \in R OBVIOUS
  <2>4. \A v \in Same : <<v, v>> \notin R OBVIOUS
  <2>5. PICK v \in Same : \A u \in Same : <<u, v>> \notin R
    <3> HIDE DEF Same
    <3> QED BY <2>1, <2>2, <2>3, <2>4, FirstExists
  <2>6. v.row \in F /\ v.row.id = a.id BY <2>5
  <2> QED BY <2>6
<1>4. Ids(F) = Ids(A) BY <1>1, <1>3 DEF Ids
<1>5. ASSUME \A x, y \in A : x.id = y.id => x = y PROVE F = A
  <2>1. ASSUME NEW a \in A PROVE a \in F
    <3>1. PICK x \in F : x.id = a.id BY <1>3
    <3>2. x \in A BY <1>1
    <3> QED BY <1>5, <3>1, <3>2
  <2> QED BY <1>1, <2>1
<1> QED BY <1>1, <1>2, <1>4, <1>5

\* The rows of a kind, and what the readers keep of them
KeptOf(F, kind, P) ==
  /\ F \subseteq RowsOn(image, kind, P) /\ IsFiniteSet(F)
  /\ Ids(F) = Ids(RowsOn(image, kind, P))
  /\ (\A x, y \in RowsOn(image, kind, P) : x.id = y.id => x = y) =>
       F = RowsOn(image, kind, P)

LEMMA ObjectsKept ==
  ASSUME IsImage(image), NEW P \in SUBSET FilePages
  PROVE  KeptOf(ChainObjects(P), "object", P)
<1> DEFINE V == Visit("object", P)
           R == {ss \in V \X V : LowerInPage(ss[1], ss[2])}
<1>1. IsFiniteSet(V) /\ \A v \in V : v.page \in Nat /\ v.row.slot \in Nat BY VisitFinite
<1>2. {v.row : v \in V} = RowsOn(image, "object", P) BY VisitRows
<1> HIDE DEF V
<1>3. ChainObjects(P) =
        {v.row : v \in {x \in V : \A y \in V : y.row.id = x.row.id => <<y, x>> \notin R}}
  BY DEF ChainObjects, FirstOfEach, V
<1>4. \A u, v, w \in V : <<u, v>> \in R /\ <<v, w>> \in R => <<u, w>> \in R
  BY <1>1 DEF LowerInPage
<1>5. \A v \in V : <<v, v>> \notin R BY <1>1 DEF LowerInPage
<1> HIDE DEF R
<1> QED BY <1>1, <1>2, <1>3, <1>4, <1>5, FirstOfEachId DEF KeptOf

LEMMA ScannedKept ==
  ASSUME IsImage(image)
  PROVE  KeptOf(ScannedObjects, "object", FilePages)
<1> DEFINE V == Visit("object", FilePages)
           R == {ss \in V \X V : Sooner(ss[1], ss[2])}
<1>1. IsFiniteSet(V) /\ \A v \in V : v.page \in Nat /\ v.row.slot \in Nat BY VisitFinite
<1>2. {v.row : v \in V} = RowsOn(image, "object", FilePages) BY VisitRows
<1> HIDE DEF V
<1>3. ScannedObjects =
        {v.row : v \in {x \in V : \A y \in V : y.row.id = x.row.id => <<y, x>> \notin R}}
  BY DEF ScannedObjects, FirstOfEach, V
<1>4. \A u, v, w \in V : <<u, v>> \in R /\ <<v, w>> \in R => <<u, w>> \in R
  BY <1>1 DEF Sooner
<1>5. \A v \in V : <<v, v>> \notin R BY <1>1 DEF Sooner
<1> HIDE DEF R
<1> QED BY <1>1, <1>2, <1>3, <1>4, <1>5, FirstOfEachId DEF KeptOf

LEMMA IndexesKept ==
  ASSUME IsImage(image), NEW P \in SUBSET FilePages
  PROVE  KeptOf(IndexesOn(P), "index", P)
<1> DEFINE V == Visit("index", P)
           R == {ss \in V \X V : Sooner(ss[2], ss[1])}
<1>1. IsFiniteSet(V) /\ \A v \in V : v.page \in Nat /\ v.row.slot \in Nat BY VisitFinite
<1>2. {v.row : v \in V} = RowsOn(image, "index", P) BY VisitRows
<1> HIDE DEF V
<1>3. IndexesOn(P) =
        {v.row : v \in {x \in V : \A y \in V : y.row.id = x.row.id => <<y, x>> \notin R}}
  BY DEF IndexesOn, FirstOfEach, V
<1>4. \A u, v, w \in V : <<u, v>> \in R /\ <<v, w>> \in R => <<u, w>> \in R
  BY <1>1 DEF Sooner
<1>5. \A v \in V : <<v, v>> \notin R BY <1>1 DEF Sooner
<1> HIDE DEF R
<1> QED BY <1>1, <1>2, <1>3, <1>4, <1>5, FirstOfEachId DEF KeptOf

LEMMA IndexesApart ==
  ASSUME IsImage(image), NEW P \in SUBSET FilePages,
         NEW a \in IndexesOn(P), NEW b \in IndexesOn(P), a.id = b.id
  PROVE  a = b
<1> DEFINE V == Visit("index", P)
<1>1. \A v \in V : v.page \in Nat /\ v.row.slot \in Nat BY VisitFinite
<1>2. PICK v \in V : a = v.row /\ \A y \in V : y.row.id = v.row.id => ~Sooner(v, y)
  BY DEF IndexesOn, FirstOfEach
<1>3. PICK w \in V : b = w.row /\ \A y \in V : y.row.id = w.row.id => ~Sooner(w, y)
  BY DEF IndexesOn, FirstOfEach
<1>4. ~Sooner(v, w) /\ ~Sooner(w, v) BY <1>2, <1>3
<1>5. v.page = w.page /\ v.row.slot = w.row.slot BY <1>1, <1>4 DEF Sooner
<1>6. /\ v.page \in FilePages /\ v.row \in image.rows[v.page]
      /\ w.row \in image.rows[w.page]
  BY VisitIs
<1> HIDE DEF V
<1>7. v.row = w.row BY <1>5, <1>6 DEF IsImage, FilePages
<1> QED BY <1>2, <1>3, <1>7

LEMMA TakenKept ==
  ASSUME IsImage(image), NEW kind, NEW P \in SUBSET FilePages
  PROVE  /\ Taken(kind, P) \subseteq RowsOn(image, kind, P)
         /\ Ids(Taken(kind, P)) = Ids(RowsOn(image, kind, P))
         /\ kind = "SYSTEXTS" => KeptOf(Taken(kind, P), kind, P)
         /\ kind # "SYSTEXTS" => Taken(kind, P) = RowsOn(image, kind, P)
<1> DEFINE V == Visit(kind, P)
<1>1. {v.row : v \in V} = RowsOn(image, kind, P) BY VisitRows
<1>2. CASE kind # "SYSTEXTS" BY <1>1, <1>2 DEF Taken
<1>3. CASE kind = "SYSTEXTS"
  <2> DEFINE R == {ss \in V \X V : \/ ss[1].row.len > ss[2].row.len
                                   \/ ss[1].row.len = ss[2].row.len /\ Sooner(ss[1], ss[2])}
  <2>1. /\ IsFiniteSet(V)
        /\ \A v \in V : v.page \in Nat /\ v.row.slot \in Nat /\ v.row.len \in Nat
    BY <1>3, VisitFinite
  <2> HIDE DEF V
  <2>3. Taken(kind, P) =
          {v.row : v \in {x \in V : \A y \in V : y.row.id = x.row.id => <<y, x>> \notin R}}
    BY <1>3 DEF Taken, FirstOfEach, V
  <2>4. \A u, v, w \in V : <<u, v>> \in R /\ <<v, w>> \in R => <<u, w>> \in R
    BY <2>1 DEF Sooner
  <2>5. \A v \in V : <<v, v>> \notin R BY <2>1 DEF Sooner
  <2> HIDE DEF R
  <2>6. KeptOf(Taken(kind, P), kind, P)
    BY <1>1, <2>1, <2>3, <2>4, <2>5, FirstOfEachId DEF KeptOf
  <2> QED BY <1>3, <2>6 DEF KeptOf
<1> QED BY <1>2, <1>3

SystemTables == CatalogKinds \ {"object", "index"}
CurrentRows(kind) == RowsOn(image, kind, image.live[kind])
HasCurrent(kind) == Ids(CurrentRows(kind)) \subseteq Ids(known[kind])

ObjectsOfOneTree ==
  \E r \in DOMAIN image.tree : KeptOf(known["object"], "object", image.tree[r])

CatalogInv ==
  /\ image \in SystemFiles0
  /\ unreadable \subseteq FilePages
  /\ loadPhase \in {"objects", "indexes", "stage2", "scan_objects", "tables",
                    "windows", "loaded", "failed"}
  /\ DOMAIN known = CatalogKinds /\ DOMAIN plans = SystemTables
  /\ standard \in BOOLEAN /\ reported \in BOOLEAN
  /\ \A t \in SystemTables : plans[t] \in {{}, image.live[t]}
  /\ loadPhase \in {"objects", "indexes", "stage2", "scan_objects"} =>
       \A t \in SystemTables : plans[t] = {}
  /\ loadPhase \in {"objects", "indexes", "stage2"} => standard
  /\ loadPhase = "indexes" => ObjectsOfOneTree
  /\ loadPhase = "stage2" =>
       known["object"] = CurrentRows("object") /\ known["index"] = CurrentRows("index")
  /\ loadPhase = "scan_objects" => ~standard /\ reported
  /\ loadPhase = "tables" => at \in 1 .. Len(Reads) + 1
  /\ loadPhase \in {"tables", "windows", "loaded"} =>
       /\ HasCurrent("object")
       /\ standard =>
            known["object"] = CurrentRows("object") /\ known["index"] = CurrentRows("index")
       /\ ~standard => reported /\ \A t \in SystemTables : plans[t] = {}
       /\ \A t \in SystemTables : plans[t] = {} => reported
       /\ \A n \in DOMAIN Reads : (loadPhase = "tables" => n < at) =>
            /\ HasCurrent(Reads[n]) /\ HasCurrent("index")
            /\ ~reported => known[Reads[n]] = CurrentRows(Reads[n])

Short(s) == s.last - s.first <= LookaheadPages
Length(s) == s.last - s.first + 1

RoutinesInv ==
  /\ loadPhase \in {"objects", "indexes", "stage2", "scan_objects", "tables"} =>
       routines = [s \in image.sources |-> 0]
  /\ loadPhase \in {"windows", "loaded"} =>
       /\ at \in Nat
       /\ routines \in [image.sources -> Nat]
       /\ \A s \in image.sources : routines[s] <= Length(s)
       /\ \A s \in image.sources :
            s.first < at /\ Short(s) => routines[s] = Length(s)
  /\ loadPhase = "loaded" => at > image.pages

LEMMA NamesOfReads ==
  /\ SystemTables = {Reads[n] : n \in DOMAIN Reads}
  /\ CatalogKinds = {"object", "index"} \cup SystemTables
  /\ \A n \in DOMAIN Reads : Reads[n] \in SystemTables
  /\ Len(Reads) \in Nat \ {0} /\ DOMAIN Reads = 1 .. Len(Reads)
<1>1. Reads \in Seq(SystemTables) /\ Reads # <<>>
  BY CatalogAssumption DEF CatalogAssumption, SystemTables
<1>2. Len(Reads) \in Nat /\ DOMAIN Reads = 1 .. Len(Reads) BY <1>1
<1>3. ASSUME Len(Reads) = 0 PROVE FALSE BY <1>1, <1>3
<1>4. \A n \in DOMAIN Reads : Reads[n] \in SystemTables BY <1>1
<1>5. SystemTables = {Reads[n] : n \in DOMAIN Reads}
  BY <1>4 DEF SystemTables, CatalogKinds
<1> QED BY <1>2, <1>3, <1>4, <1>5 DEF SystemTables, CatalogKinds

LEMMA CatalogStarts == CatalogInit => CatalogInv /\ RoutinesInv
<1> SUFFICES ASSUME CatalogInit PROVE CatalogInv /\ RoutinesInv OBVIOUS
<1>1. DOMAIN plans = SystemTables BY NamesOfReads DEF CatalogInit
<1>2. DOMAIN known = CatalogKinds BY <1>1, NamesOfReads DEF CatalogInit
<1>3. \A t \in SystemTables : plans[t] = {} BY NamesOfReads DEF CatalogInit
<1> QED BY <1>1, <1>2, <1>3 DEF CatalogInit, CatalogInv, RoutinesInv

LEMMA ImageIs == CatalogInv => IsImage(image)
BY CatalogAssumption DEF CatalogInv, CatalogAssumption

LEMMA FailsKeeps ==
  ASSUME CatalogInv, RoutinesInv, LoadFails PROVE CatalogInv' /\ RoutinesInv'
<1>1. /\ CurrentRows("object")' = CurrentRows("object")
      /\ CurrentRows("index")' = CurrentRows("index")
  BY DEF LoadFails, CurrentRows, RowsOn
<1> QED BY DEF LoadFails, CatalogInv, RoutinesInv, FilePages

LEMMA ToScansKeeps ==
  ASSUME CatalogInv, RoutinesInv, GoToScans, loadPhase \in {"objects", "indexes"}
  PROVE  CatalogInv' /\ RoutinesInv'
BY DEF GoToScans, CatalogInv, RoutinesInv, FilePages

LEMMA PlanIs ==
  ASSUME NEW root
  PROVE  Plan(root) # {} => root \in DOMAIN image.tree /\ Plan(root) = image.tree[root]
BY DEF Plan

LEMMA NothingOnNothing == \A kind : RowsOn(image, kind, {}) = {}
BY DEF RowsOn

LEMMA CurrentUnchanged ==
  ASSUME image' = image PROVE \A k : CurrentRows(k)' = CurrentRows(k)
BY DEF CurrentRows, RowsOn

LEMMA OneTreeIs ==
  ASSUME NEW F, NEW r \in DOMAIN image.tree, KeptOf(F, "object", image.tree[r]),
         image' = image, known'["object"] = F
  PROVE  ObjectsOfOneTree'
BY DEF ObjectsOfOneTree, KeptOf

LEMMA AnchorObjectsKeeps ==
  ASSUME CatalogInv, RoutinesInv, AnchorObjects PROVE CatalogInv' /\ RoutinesInv'
<1> DEFINE r == image.anchors.objects
           found == ChainObjects(Plan(r))
<1>1. CASE found = {} BY <1>1, ToScansKeeps DEF AnchorObjects
<1>2. CASE found # {}
  <2>1. /\ known' = [known EXCEPT !["object"] = found]
        /\ loadPhase' = "indexes" /\ loadPhase = "objects"
        /\ UNCHANGED <<image, unreadable, plans, reported, standard, routines, at>>
    BY <1>2 DEF AnchorObjects
  <2>2. IsImage(image) BY ImageIs
  <2>3. Plan(r) # {}
    <3>1. ASSUME Plan(r) = {} PROVE FALSE
      <4>1. KeptOf(ChainObjects({}), "object", {}) BY <2>2, ObjectsKept
      <4>2. RowsOn(image, "object", {}) = {} BY NothingOnNothing
      <4> QED BY <1>2, <3>1, <4>1, <4>2 DEF KeptOf
    <3> QED BY <3>1
  <2>4. r \in DOMAIN image.tree /\ Plan(r) = image.tree[r] BY <2>3, PlanIs
  <2>5. image.tree[r] \in SUBSET FilePages BY <2>2, <2>4 DEF IsImage, FilePages
  <2>6. KeptOf(found, "object", image.tree[r]) BY <2>2, <2>4, <2>5, ObjectsKept
  <2> HIDE DEF found
  <2>7. "object" \in CatalogKinds BY NamesOfReads
  <2>8. known'["object"] = found /\ DOMAIN known' = CatalogKinds
    BY <2>1, <2>7 DEF CatalogInv
  <2>9. ObjectsOfOneTree'
    <3>1. PICK F : F = found OBVIOUS
    <3> QED BY <2>1, <2>4, <2>6, <2>8, <3>1, OneTreeIs
  <2>10. known' \in [CatalogKinds -> {known'[k] : k \in CatalogKinds}]
    BY <2>1, <2>7 DEF CatalogInv
  <2>11. CatalogInv' BY <2>1, <2>8, <2>9 DEF CatalogInv, FilePages
  <2>12. RoutinesInv' BY <2>1 DEF RoutinesInv
  <2> QED BY <2>11, <2>12
<1> QED BY <1>1, <1>2

LEMMA AnchorIndexesKeeps ==
  ASSUME CatalogInv, RoutinesInv, AnchorIndexes PROVE CatalogInv' /\ RoutinesInv'
<1> DEFINE r == image.anchors.indexes
           found == IndexesOn(Plan(r))
<1>1. CASE \/ found = {} \/ Cardinality(found) < 2 \/ ~HasRequired(known["object"])
  BY <1>1, ToScansKeeps DEF AnchorIndexes
<1>2. CASE ~(\/ found = {} \/ Cardinality(found) < 2 \/ ~HasRequired(known["object"]))
  <2>1. /\ known' = [known EXCEPT !["index"] = found]
        /\ loadPhase' = "stage2" /\ loadPhase = "indexes"
        /\ UNCHANGED <<image, unreadable, plans, reported, standard, routines, at>>
    BY <1>2 DEF AnchorIndexes
  <2>2. IsImage(image) BY ImageIs
  <2>3. Plan(r) # {}
    <3>1. ASSUME Plan(r) = {} PROVE FALSE
      <4>1. KeptOf(IndexesOn({}), "index", {}) BY <2>2, IndexesKept
      <4>2. RowsOn(image, "index", {}) = {} BY NothingOnNothing
      <4> QED BY <1>2, <3>1, <4>1, <4>2 DEF KeptOf
    <3> QED BY <3>1
  <2>4. r \in DOMAIN image.tree /\ Plan(r) = image.tree[r] BY <2>3, PlanIs
  <2>5. image.tree[r] \in SUBSET FilePages BY <2>2, <2>4 DEF IsImage, FilePages
  <2>6. KeptOf(found, "index", image.tree[r]) BY <2>2, <2>4, <2>5, IndexesKept
  <2>7. found # {} /\ ~(Cardinality(found) < 2) /\ HasRequired(known["object"])
    BY <1>2
  <2> HIDE DEF found
  <2>8. image.tree[r] = image.live["index"]
    <3>1. PICK x \in found : TRUE BY <2>7
    <3>2. PICK y \in found : y # x
      <4>1. ASSUME found \subseteq {x} PROVE FALSE
        <5>1. found = {x} BY <3>1, <4>1
        <5>2. Cardinality(found) = 1 BY <5>1, FS_Singleton
        <5> QED BY <2>7, <5>2
      <4> QED BY <4>1
    <3>3. x \in RowsOn(image, "index", image.tree[r]) /\ y \in RowsOn(image, "index", image.tree[r])
      BY <2>6, <3>1, <3>2 DEF KeptOf
    <3>4. x.id # y.id
      <4>1. x \in IndexesOn(image.tree[r]) /\ y \in IndexesOn(image.tree[r])
        BY <2>4, <3>1, <3>2 DEF found
      <4> QED BY <2>2, <2>5, <3>2, <4>1, IndexesApart
    <3> QED BY <2>2, <2>4, <3>3, <3>4 DEF IsImage
  <2>9. {"object", "index"} \subseteq CatalogKinds BY NamesOfReads
  <2>10. /\ known'["index"] = found /\ known'["object"] = known["object"]
         /\ DOMAIN known' = CatalogKinds
    BY <2>1, <2>9 DEF CatalogInv
  <2>11. found = CurrentRows("index")
    BY <2>2, <2>6, <2>8, <2>9 DEF IsImage, KeptOf, CurrentRows
  <2>12. known["object"] = CurrentRows("object")
    <3>1. PICK q \in DOMAIN image.tree : KeptOf(known["object"], "object", image.tree[q])
      BY <2>1 DEF CatalogInv, ObjectsOfOneTree
    <3>2. HasRequired(RowsOn(image, "object", image.tree[q]))
      BY <2>7, <3>1 DEF HasRequired, KeptOf
    <3>3. image.tree[q] = image.live["object"] BY <2>2, <3>2 DEF IsImage
    <3> QED BY <2>2, <2>9, <3>1, <3>3 DEF IsImage, KeptOf, CurrentRows
  <2>13. CatalogInv'
    <3>1. \A k : CurrentRows(k)' = CurrentRows(k) BY <2>1, CurrentUnchanged
    <3>2. (known["object"] = CurrentRows("object"))' /\ (known["index"] = CurrentRows("index"))'
      BY <2>10, <2>11, <2>12, <3>1
    <3> QED BY <2>1, <2>10, <3>2 DEF CatalogInv, FilePages
  <2>14. RoutinesInv' BY <2>1 DEF RoutinesInv
  <2> QED BY <2>13, <2>14
<1> QED BY <1>1, <1>2

LEMMA ScanObjectsKeeps ==
  ASSUME CatalogInv, RoutinesInv, ScanObjects PROVE CatalogInv' /\ RoutinesInv'
<1>1. CASE unreadable # {} BY <1>1, FailsKeeps DEF ScanObjects
<1>2. CASE unreadable = {}
  <2>1. /\ known' = [known EXCEPT !["object"] = ScannedObjects]
        /\ at' = 1 /\ loadPhase' = "tables" /\ loadPhase = "scan_objects"
        /\ UNCHANGED <<image, unreadable, plans, reported, standard, routines>>
    BY <1>2 DEF ScanObjects
  <2>2. IsImage(image) BY ImageIs
  <2>3. KeptOf(ScannedObjects, "object", FilePages) BY <2>2, ScannedKept
  <2>4. "object" \in CatalogKinds BY NamesOfReads
  <2>5. known'["object"] = ScannedObjects /\ DOMAIN known' = CatalogKinds
    BY <2>1, <2>4 DEF CatalogInv
  <2>6. Ids(CurrentRows("object")) \subseteq Ids(ScannedObjects)
    BY <2>2, <2>3, <2>4 DEF IsImage, KeptOf, CurrentRows, RowsOn, Ids, FilePages
  <2>7. HasCurrent("object")'
    <3>1. \A k : CurrentRows(k)' = CurrentRows(k) BY <2>1, CurrentUnchanged
    <3> QED BY <2>5, <2>6, <3>1 DEF HasCurrent, Ids
  <2>8. Len(Reads) \in Nat /\ DOMAIN Reads = 1 .. Len(Reads) BY NamesOfReads
  <2>9. CatalogInv' BY <2>1, <2>5, <2>7, <2>8 DEF CatalogInv, FilePages
  <2>10. RoutinesInv' BY <2>1 DEF RoutinesInv
  <2> QED BY <2>9, <2>10
<1> QED BY <1>1, <1>2

\* Of the storages of a table one is best; where one is clustered, so is the
\* best one.
LEMMA BestStorage ==
  ASSUME NEW table, StoragesOf(table) # {}, IsFiniteSet(known["index"]),
         \A i \in known["index"] : i.id \in Nat
  PROVE  /\ Storage(table) \in StoragesOf(table)
         /\ (\E i \in StoragesOf(table) : i.clustered) => Storage(table).clustered
<1> DEFINE S == StoragesOf(table)
           R == {ss \in S \X S : \/ Score(ss[1]) > Score(ss[2])
                                 \/ Score(ss[1]) = Score(ss[2]) /\ ss[1].id < ss[2].id}
<1>1. S \subseteq known["index"] BY DEF StoragesOf
<1>2. IsFiniteSet(S) BY <1>1, FS_Subset
<1>3. \A i \in S : Score(i) \in Int /\ i.id \in Nat BY <1>1 DEF Score
<1>4. S # {} OBVIOUS
<1>5. \A i : i.clustered => Score(i) >= 100 BY DEF Score
<1>6. \A i : ~i.clustered => Score(i) <= 30 BY DEF Score
<1>7. Storage(table) = CHOOSE i \in S : \A j \in S :
        Score(j) < Score(i) \/ (Score(j) = Score(i) /\ i.id <= j.id)
  BY DEF Storage
<1> HIDE DEF S
<1>8. \A u, v, w \in S : <<u, v>> \in R /\ <<v, w>> \in R => <<u, w>> \in R BY <1>3
<1>9. \A v \in S : <<v, v>> \notin R BY <1>3
<1>10. PICK b \in S : \A u \in S : <<u, b>> \notin R
  <2> HIDE DEF R
  <2> QED BY <1>2, <1>4, <1>8, <1>9, FirstExists
<1>11. \A j \in S : Score(j) < Score(b) \/ (Score(j) = Score(b) /\ b.id <= j.id)
  <2>1. ASSUME NEW j \in S
        PROVE  Score(j) < Score(b) \/ (Score(j) = Score(b) /\ b.id <= j.id)
    <3>1. ~(Score(j) > Score(b) \/ (Score(j) = Score(b) /\ j.id < b.id)) BY <1>10
    <3>2. Score(j) \in Int /\ Score(b) \in Int /\ j.id \in Nat /\ b.id \in Nat BY <1>3
    <3> QED BY ONLY <3>1, <3>2
  <2> QED BY <2>1
<1>12. /\ Storage(table) \in S
       /\ \A j \in S : \/ Score(j) < Score(Storage(table))
                       \/ Score(j) = Score(Storage(table)) /\ Storage(table).id <= j.id
  BY <1>7, <1>11
<1>13. ASSUME NEW i \in S, i.clustered, ~Storage(table).clustered PROVE FALSE
  <2>1. Score(i) >= 100 /\ Score(Storage(table)) <= 30 BY <1>5, <1>6, <1>13
  <2> QED BY <1>3, <1>12, <2>1
<1> QED BY <1>12, <1>13 DEF S

LEMMA Stage2PlanIs ==
  ASSUME IsImage(image), NEW name \in SystemTables,
         known["object"] = CurrentRows("object"), known["index"] = CurrentRows("index")
  PROVE  Stage2Plan(name) \in {{}, image.live[name]}
<1> DEFINE tables == {o \in known["object"] : o.class = "system" /\ o.name = name}
<1>1. CASE tables = {} \/ (\A t \in tables : StoragesOf(t) = {})
  BY <1>1 DEF Stage2Plan
<1>2. CASE ~(tables = {} \/ (\A t \in tables : StoragesOf(t) = {}))
  <2> DEFINE t == CHOOSE u \in tables : TRUE
  <2>1. t \in tables BY <1>2
  <2>2. Stage2Plan(name) = Plan(Storage(t).root) BY <1>2 DEF Stage2Plan
  <2> HIDE DEF t
  <2>3. t \in CurrentRows("object") /\ t.class = "system" /\ t.name = name BY <2>1
  <2>4. name \in CatalogKinds BY NamesOfReads
  <2>5. \A u \in tables : u = t BY <2>3, <2>4 DEF IsImage, CurrentRows
  <2>6. StoragesOf(t) # {} BY <1>2, <2>5
  <2>7. StoragesOf(t) = LiveStorages(image, t)
    BY DEF StoragesOf, LiveStorages, CurrentRows
  <2>8. \E i \in LiveStorages(image, t) : i.clustered
    BY <2>3, <2>4, <2>6, <2>7 DEF IsImage, CurrentRows
  <2>9. image.live["index"] \in SUBSET FilePages
    BY NamesOfReads DEF IsImage, FilePages
  <2>10. IsFiniteSet(known["index"]) /\ \A i \in known["index"] : i.id \in Nat
    <3>1. KeptOf(IndexesOn(image.live["index"]), "index", image.live["index"])
      BY <2>9, IndexesKept
    <3>2. "index" \in CatalogKinds BY NamesOfReads
    <3>3. \A x, y \in RowsOn(image, "index", image.live["index"]) : x.id = y.id => x = y
      BY <3>2 DEF IsImage
    <3>4. IsFiniteSet(known["index"]) BY <3>1, <3>3 DEF KeptOf, CurrentRows
    <3>5. ASSUME NEW i \in known["index"] PROVE i.id \in Nat
      <4>1. PICK p \in image.live["index"] : i \in image.rows[p] /\ i.kind = "index"
        BY <3>5 DEF CurrentRows, RowsOn
      <4> QED BY <2>9, <4>1 DEF IsImage, FilePages
    <3> QED BY <3>4, <3>5
  <2>11. Storage(t) \in LiveStorages(image, t) /\ Storage(t).clustered
    BY <2>6, <2>7, <2>8, <2>10, BestStorage
  <2>12. Storage(t).root \in DOMAIN image.tree =>
           image.tree[Storage(t).root] = image.live[name]
    BY <2>3, <2>4, <2>11 DEF IsImage, CurrentRows
  <2> QED BY <2>2, <2>12, PlanIs
<1> QED BY <1>1, <1>2

LEMMA Stage2Keeps ==
  ASSUME CatalogInv, RoutinesInv, Stage2Plans PROVE CatalogInv' /\ RoutinesInv'
<1>1. /\ plans' = [t \in SystemTables |-> Stage2Plan(t)]
      /\ reported' = (reported \/ \E t \in SystemTables : plans'[t] = {})
      /\ at' = 1 /\ loadPhase' = "tables" /\ loadPhase = "stage2"
      /\ UNCHANGED <<image, unreadable, known, standard, routines>>
  BY DEF Stage2Plans, CatalogInv
<1>2. IsImage(image) BY ImageIs
<1>3. known["object"] = CurrentRows("object") /\ known["index"] = CurrentRows("index")
  BY <1>1 DEF CatalogInv
<1>4. \A t \in SystemTables : plans'[t] \in {{}, image.live[t]}
  BY <1>1, <1>2, <1>3, Stage2PlanIs
<1>5. DOMAIN plans' = SystemTables BY <1>1
<1>6. Len(Reads) \in Nat /\ DOMAIN Reads = 1 .. Len(Reads) BY NamesOfReads
<1>7. \A k : CurrentRows(k)' = CurrentRows(k) BY <1>1, CurrentUnchanged
<1>8. HasCurrent("object")' /\ (known["object"] = CurrentRows("object"))'
      /\ (known["index"] = CurrentRows("index"))'
  BY <1>1, <1>3, <1>7 DEF HasCurrent
<1>9. CatalogInv'
  <2>1. standard' /\ standard' \in BOOLEAN /\ reported' \in BOOLEAN
    BY <1>1 DEF CatalogInv
  <2>2. \A t \in SystemTables : plans'[t] = {} => reported' BY <1>1
  <2>3. \A n \in DOMAIN Reads : ~(n < at') BY <1>1, <1>6
  <2>4. at' \in 1 .. Len(Reads) + 1 BY <1>1, <1>6
  <2>5. /\ image' \in SystemFiles0 /\ unreadable' \subseteq FilePages'
        /\ DOMAIN known' = CatalogKinds /\ loadPhase' = "tables"
        /\ \A t \in SystemTables : plans'[t] \in {{}, image'.live[t]}
    BY <1>1, <1>4 DEF CatalogInv, FilePages
  <2> QED BY <1>5, <1>8, <2>1, <2>2, <2>3, <2>4, <2>5 DEF CatalogInv
<1>10. RoutinesInv' BY <1>1 DEF RoutinesInv
<1> QED BY <1>9, <1>10

LEMMA ScanHasCurrent ==
  ASSUME IsImage(image), NEW k \in CatalogKinds, NEW F,
         Ids(F) = Ids(RowsOn(image, k, FilePages))
  PROVE  Ids(CurrentRows(k)) \subseteq Ids(F)
<1>1. image.live[k] \subseteq FilePages BY DEF IsImage, FilePages
<1>2. CurrentRows(k) \subseteq RowsOn(image, k, FilePages)
  BY <1>1 DEF CurrentRows, RowsOn
<1> QED BY <1>2 DEF Ids

LEMMA PlannedIsCurrent ==
  ASSUME IsImage(image), NEW k \in SystemTables
  PROVE  Taken(k, image.live[k]) = CurrentRows(k)
<1>1. k \in CatalogKinds BY NamesOfReads
<1>2. image.live[k] \in SUBSET FilePages BY <1>1 DEF IsImage, FilePages
<1>3. CASE k = "SYSTEXTS"
  <2>1. \A x, y \in RowsOn(image, k, image.live[k]) : x.id = y.id => x = y
    BY <1>1, <1>3 DEF IsImage
  <2> QED BY <1>2, <1>3, <2>1, TakenKept DEF KeptOf, CurrentRows
<1>4. CASE k # "SYSTEXTS" BY <1>2, <1>4, TakenKept DEF CurrentRows
<1> QED BY <1>3, <1>4

LEMMA ReadTableKeeps ==
  ASSUME CatalogInv, RoutinesInv, ReadTable PROVE CatalogInv' /\ RoutinesInv'
<1>0. PICK name : name = Reads[at] OBVIOUS
<1>1. loadPhase = "tables" /\ at <= Len(Reads) /\ at \in 1 .. Len(Reads) + 1
  BY DEF ReadTable, CatalogInv
<1>2. Len(Reads) \in Nat /\ DOMAIN Reads = 1 .. Len(Reads) BY NamesOfReads
<1>3. at \in DOMAIN Reads /\ at + 1 \in 1 .. Len(Reads) + 1 BY <1>1, <1>2
<1>4. name \in SystemTables /\ name \in CatalogKinds /\ name \notin {"object", "index"}
  BY <1>0, <1>3, NamesOfReads DEF SystemTables
<1>5. IsImage(image) BY ImageIs
<1>6. ASSUME NEW n \in DOMAIN Reads, n < at + 1, Reads[n] # name PROVE n < at
  <2>1. n # at BY <1>0, <1>6
  <2>2. n \in Nat /\ at \in Nat BY <1>2, <1>3
  <2> QED BY <1>6, <2>1, <2>2
<1>7. {"object", "index"} \subseteq CatalogKinds /\ DOMAIN known = CatalogKinds
  BY NamesOfReads DEF CatalogInv
<1>8. CASE plans[name] # {} /\ \E p \in plans[name] : ~Sound(p)
  BY <1>0, <1>8, FailsKeeps DEF ReadTable
<1>9. CASE plans[name] # {} /\ ~(\E p \in plans[name] : ~Sound(p))
  <2>1. /\ known' = [known EXCEPT ![name] = Taken(name, plans[name])]
        /\ at' = at + 1
        /\ UNCHANGED <<image, unreadable, plans, reported, standard, routines, loadPhase>>
    BY <1>0, <1>9 DEF ReadTable
  <2>2. plans[name] = image.live[name] BY <1>4, <1>9 DEF CatalogInv
  <2>3. standard BY <1>1, <1>4, <1>9 DEF CatalogInv
  <2>4. known["object"] = CurrentRows("object") /\ known["index"] = CurrentRows("index")
    BY <1>1, <2>3 DEF CatalogInv
  <2>5. known'[name] = CurrentRows(name)
    BY <1>4, <1>5, <1>7, <2>1, <2>2, PlannedIsCurrent
  <2>6. DOMAIN known' = CatalogKinds /\ \A k \in CatalogKinds \ {name} : known'[k] = known[k]
    BY <1>7, <2>1
  <2>7. known'["object"] = known["object"] /\ known'["index"] = known["index"]
    BY <1>4, <1>7, <2>6
  <2>8. \A k : CurrentRows(k)' = CurrentRows(k) BY <2>1, CurrentUnchanged
  <2>9. \A k : known'[k] = CurrentRows(k) => HasCurrent(k)' BY <2>8 DEF HasCurrent
  <2>10. \A k \in CatalogKinds \ {name} : HasCurrent(k) => HasCurrent(k)'
    BY <2>6, <2>8 DEF HasCurrent
  <2>11. ASSUME NEW n \in DOMAIN Reads, n < at'
         PROVE  /\ HasCurrent(Reads[n])'
                /\ ~reported' => known'[Reads[n]] = CurrentRows(Reads[n])'
    <3>1. CASE Reads[n] = name BY <2>5, <2>8, <2>9, <3>1
    <3>2. CASE Reads[n] # name
      <4>1. n < at BY <1>6, <2>1, <2>11, <3>2
      <4>2. Reads[n] \in CatalogKinds \ {name} BY <3>2, NamesOfReads
      <4>3. HasCurrent(Reads[n]) /\ (~reported => known[Reads[n]] = CurrentRows(Reads[n]))
        BY <1>1, <4>1 DEF CatalogInv
      <4> QED BY <2>1, <2>6, <2>8, <2>10, <4>2, <4>3
    <3> QED BY <3>1, <3>2
  <2>12. /\ HasCurrent("object")' /\ HasCurrent("index")'
         /\ (known["object"] = CurrentRows("object"))' /\ (known["index"] = CurrentRows("index"))'
    BY <2>4, <2>7, <2>8, <2>9
  <2>13. CatalogInv'
    <3>1. /\ image' = image /\ unreadable' = unreadable /\ plans' = plans
          /\ reported' = reported /\ standard' = standard /\ loadPhase' = "tables"
      BY <1>1, <2>1
    <3>2. at' \in 1 .. Len(Reads) + 1 BY <1>3, <2>1
    <3>3. /\ image \in SystemFiles0 /\ unreadable \subseteq FilePages /\ DOMAIN plans = SystemTables
          /\ standard \in BOOLEAN /\ reported \in BOOLEAN
          /\ \A t \in SystemTables : plans[t] \in {{}, image.live[t]}
          /\ ~standard => reported /\ \A t \in SystemTables : plans[t] = {}
          /\ \A t \in SystemTables : plans[t] = {} => reported
      BY <1>1 DEF CatalogInv
    <3> QED BY <2>6, <2>11, <2>12, <3>1, <3>2, <3>3 DEF CatalogInv, FilePages
  <2>14. RoutinesInv' BY <1>1, <2>1 DEF RoutinesInv
  <2> QED BY <2>13, <2>14
<1>10. CASE plans[name] = {} /\ unreadable # {}
  BY <1>0, <1>10, FailsKeeps DEF ReadTable
<1>11. CASE plans[name] = {} /\ unreadable = {}
  <2> DEFINE indexes == IF standard THEN known["index"] ELSE IndexesOn(FilePages)
  <2>1. /\ known' = [known EXCEPT ![name] = Taken(name, FilePages),
                        !["index"] = IF standard THEN @ ELSE IndexesOn(FilePages)]
        /\ reported' = TRUE /\ at' = at + 1
        /\ UNCHANGED <<image, unreadable, plans, standard, routines, loadPhase>>
    BY <1>0, <1>11 DEF ReadTable
  <2>2. /\ known'[name] = Taken(name, FilePages) /\ known'["index"] = indexes
        /\ DOMAIN known' = CatalogKinds
        /\ \A k \in CatalogKinds \ {name, "index"} : known'[k] = known[k]
    BY <1>4, <1>7, <2>1
  <2>3. \A k : CurrentRows(k)' = CurrentRows(k) BY <2>1, CurrentUnchanged
  <2>4. HasCurrent(name)'
    <3>1. Ids(Taken(name, FilePages)) = Ids(RowsOn(image, name, FilePages))
      BY <1>5, TakenKept
    <3>2. Ids(CurrentRows(name)) \subseteq Ids(Taken(name, FilePages))
      BY <1>4, <1>5, <3>1, ScanHasCurrent
    <3> QED BY <2>2, <2>3, <3>2 DEF HasCurrent
  <2>5. HasCurrent("index")'
    <3>1. CASE standard
      <4>1. known["index"] = CurrentRows("index") BY <1>1, <3>1 DEF CatalogInv
      <4> QED BY <2>2, <2>3, <3>1, <4>1 DEF HasCurrent
    <3>2. CASE ~standard
      <4>1. Ids(IndexesOn(FilePages)) = Ids(RowsOn(image, "index", FilePages))
        BY <1>5, IndexesKept DEF KeptOf
      <4>2. Ids(CurrentRows("index")) \subseteq Ids(IndexesOn(FilePages))
        BY <1>5, <1>7, <4>1, ScanHasCurrent
      <4> QED BY <2>2, <2>3, <3>2, <4>2 DEF HasCurrent
    <3> QED BY <3>1, <3>2
  <2>6. \A k \in CatalogKinds \ {name, "index"} : HasCurrent(k) => HasCurrent(k)'
    BY <2>2, <2>3 DEF HasCurrent
  <2>7. HasCurrent("object")'
    <3>1. "object" \in CatalogKinds \ {name, "index"} BY <1>4, <1>7
    <3>2. HasCurrent("object") BY <1>1 DEF CatalogInv
    <3> QED BY <2>6, <3>1, <3>2
  <2>8. standard => /\ (known["object"] = CurrentRows("object"))'
                    /\ (known["index"] = CurrentRows("index"))'
    <3>1. "object" \in CatalogKinds \ {name, "index"} BY <1>4, <1>7
    <3>2. known'["object"] = known["object"] BY <2>2, <3>1
    <3>3. standard => known["object"] = CurrentRows("object") /\ known["index"] = CurrentRows("index")
      BY <1>1 DEF CatalogInv
    <3> QED BY <2>2, <2>3, <3>2, <3>3
  <2>9. ASSUME NEW n \in DOMAIN Reads, n < at' PROVE HasCurrent(Reads[n])'
    <3>1. CASE Reads[n] = name BY <2>4, <3>1
    <3>2. CASE Reads[n] # name
      <4>1. n < at BY <1>6, <2>1, <2>9, <3>2
      <4>2. Reads[n] \in CatalogKinds \ {name, "index"}
        BY <3>2, NamesOfReads DEF SystemTables
      <4>3. HasCurrent(Reads[n]) BY <1>1, <4>1 DEF CatalogInv
      <4> QED BY <2>6, <4>2, <4>3
    <3> QED BY <3>1, <3>2
  <2>10. CatalogInv'
    <3>1. /\ image' = image /\ unreadable' = unreadable /\ plans' = plans
          /\ reported' = TRUE /\ standard' = standard /\ loadPhase' = "tables"
      BY <1>1, <2>1
    <3>2. at' \in 1 .. Len(Reads) + 1 BY <1>3, <2>1
    <3>3. /\ image \in SystemFiles0 /\ unreadable \subseteq FilePages /\ DOMAIN plans = SystemTables
          /\ standard \in BOOLEAN
          /\ \A t \in SystemTables : plans[t] \in {{}, image.live[t]}
          /\ ~standard => \A t \in SystemTables : plans[t] = {}
      BY <1>1 DEF CatalogInv
    <3> QED BY <2>2, <2>5, <2>7, <2>8, <2>9, <3>1, <3>2, <3>3 DEF CatalogInv, FilePages
  <2>11. RoutinesInv' BY <1>1, <2>1 DEF RoutinesInv
  <2> QED BY <2>10, <2>11
<1> QED BY <1>8, <1>9, <1>10, <1>11

\* A window holds no more of a text than there is, and the whole of one that
\* begins in its chunk and is no longer than the lookahead.
LEMMA PieceIs ==
  ASSUME IsImage(image), NEW s \in image.sources, NEW first \in Nat
  PROVE  /\ Piece(s, first) \in Nat /\ Piece(s, first) <= Length(s)
         /\ first <= s.first /\ s.first < first + ChunkPages /\ Short(s) =>
              Piece(s, first) = Length(s)
<1>1. /\ image.pages \in Nat /\ s.first \in 1 .. s.last /\ s.last \in 1 .. image.pages
      /\ ChunkPages \in Nat \ {0} /\ LookaheadPages \in Nat
  BY CatalogAssumption DEF CatalogAssumption, IsImage
<1> DEFINE pages == image.pages
           low == s.first
           high == s.last
           last == first + ChunkPages + LookaheadPages - 1
           end == WindowEnd(first)
<1>2. last \in Int /\ pages \in Nat /\ high \in 1 .. pages /\ low \in 1 .. high BY <1>1
<1>3. end = IF pages <= last THEN pages ELSE last BY <1>2, LesserOf DEF WindowEnd
<1>4. end \in Int BY <1>2, <1>3
<1>5. Piece(s, first) = IF low < first \/ low > end THEN 0
                        ELSE (IF high <= end THEN high ELSE end) - low + 1
  BY <1>2, <1>4, LesserOf DEF Piece
<1>6. Length(s) = high - low + 1 /\ (Short(s) <=> high - low <= LookaheadPages)
  BY DEF Length, Short
<1> HIDE DEF pages, low, high, end
<1>7. ChunkPages \in Nat \ {0} /\ LookaheadPages \in Nat /\ first \in Nat BY <1>1
<1>8. /\ Piece(s, first) \in Nat /\ Piece(s, first) <= Length(s)
      /\ first <= low /\ low < first + ChunkPages /\ Short(s) =>
           Piece(s, first) = Length(s)
  <2>1. CASE low < first \/ low > end BY ONLY <1>2, <1>3, <1>5, <1>6, <1>7, <2>1
  <2>2. CASE ~(low < first \/ low > end) /\ high <= end
    BY ONLY <1>2, <1>3, <1>5, <1>6, <1>7, <2>2
  <2>3. CASE ~(low < first \/ low > end) /\ ~(high <= end)
    BY ONLY <1>2, <1>3, <1>5, <1>6, <1>7, <2>3
  <2> QED BY <2>1, <2>2, <2>3
<1> QED BY <1>8 DEF low

LEMMA StartWindowsKeeps ==
  ASSUME CatalogInv, RoutinesInv, StartWindows PROVE CatalogInv' /\ RoutinesInv'
<1>1. /\ loadPhase = "tables" /\ at = Len(Reads) + 1
      /\ loadPhase' = "windows" /\ at' = 1
      /\ UNCHANGED <<image, unreadable, plans, known, reported, standard, routines>>
  BY DEF StartWindows
<1>2. Len(Reads) \in Nat /\ DOMAIN Reads = 1 .. Len(Reads) BY NamesOfReads
<1>3. \A n \in DOMAIN Reads : n < at BY <1>1, <1>2
<1>4. \A k : CurrentRows(k)' = CurrentRows(k) BY <1>1, CurrentUnchanged
<1>5. \A k : HasCurrent(k) => HasCurrent(k)' BY <1>1, <1>4 DEF HasCurrent
<1>6. CatalogInv'
  <2>1. /\ image \in SystemFiles0 /\ unreadable \subseteq FilePages /\ DOMAIN plans = SystemTables
        /\ standard \in BOOLEAN /\ reported \in BOOLEAN /\ DOMAIN known = CatalogKinds
        /\ \A t \in SystemTables : plans[t] \in {{}, image.live[t]}
        /\ ~standard => reported /\ \A t \in SystemTables : plans[t] = {}
        /\ \A t \in SystemTables : plans[t] = {} => reported
        /\ HasCurrent("object")
        /\ standard =>
             known["object"] = CurrentRows("object") /\ known["index"] = CurrentRows("index")
        /\ \A n \in DOMAIN Reads : /\ HasCurrent(Reads[n]) /\ HasCurrent("index")
                                   /\ ~reported => known[Reads[n]] = CurrentRows(Reads[n])
    BY <1>1, <1>3 DEF CatalogInv
  <2> QED BY <1>1, <1>4, <1>5, <2>1 DEF CatalogInv, FilePages
<1>7. RoutinesInv'
  <2>1. IsImage(image) BY ImageIs
  <2>2. \A s \in image.sources : s.first \in 1 .. s.last /\ s.last \in Nat
    BY <2>1 DEF IsImage
  <2>3. routines = [s \in image.sources |-> 0] BY <1>1 DEF RoutinesInv
  <2>4. \A s \in image.sources : 0 <= Length(s) /\ ~(s.first < 1)
    BY <2>2 DEF Length
  <2> QED BY <1>1, <2>3, <2>4 DEF RoutinesInv, Length
<1> QED BY <1>6, <1>7

\* Steps that change neither what is known nor the plans
LEMMA CatalogStays ==
  ASSUME CatalogInv, loadPhase \in {"windows", "loaded"}, loadPhase' \in {"windows", "loaded"},
         UNCHANGED <<image, unreadable, plans, known, reported, standard>>
  PROVE  CatalogInv'
<1>1. \A k : CurrentRows(k)' = CurrentRows(k) BY CurrentUnchanged
<1>2. \A k : HasCurrent(k) => HasCurrent(k)' BY <1>1 DEF HasCurrent
<1> QED BY <1>1, <1>2 DEF CatalogInv, FilePages

LEMMA ScanWindowKeeps ==
  ASSUME CatalogInv, RoutinesInv, ScanWindow PROVE CatalogInv' /\ RoutinesInv'
<1>1. CASE unreadable \cap (at .. WindowEnd(at)) # {}
  BY <1>1, FailsKeeps DEF ScanWindow
<1>2. CASE unreadable \cap (at .. WindowEnd(at)) = {}
  <2>1. /\ routines' = [s \in image.sources |-> Max({routines[s], Piece(s, at)})]
        /\ at' = at + ChunkPages /\ loadPhase = "windows" /\ loadPhase' = "windows"
        /\ UNCHANGED <<image, unreadable, plans, known, reported, standard>>
    BY <1>2 DEF ScanWindow
  <2>2. CatalogInv' BY <2>1, CatalogStays
  <2>3. IsImage(image) BY ImageIs
  <2>4. at \in Nat /\ routines \in [image.sources -> Nat] BY <2>1 DEF RoutinesInv
  <2>5. ChunkPages \in Nat \ {0} BY CatalogAssumption DEF CatalogAssumption
  <2>6. ASSUME NEW s \in image.sources
        PROVE  /\ routines'[s] \in Nat /\ routines'[s] <= Length(s)
               /\ s.first < at' /\ Short(s) => routines'[s] = Length(s)
    <3> DEFINE old == routines[s]
               new == Piece(s, at)
    <3>1. new \in Nat /\ new <= Length(s)
          /\ (at <= s.first /\ s.first < at + ChunkPages /\ Short(s) => new = Length(s))
      BY <2>3, <2>4, PieceIs
    <3>2. old \in Nat /\ old <= Length(s) /\ (s.first < at /\ Short(s) => old = Length(s))
      BY <2>1, <2>4 DEF RoutinesInv
    <3>3. s.first \in Nat /\ Length(s) \in Int BY <2>3 DEF IsImage, Length
    <3>4. routines'[s] = Max({old, new}) BY <2>1
    <3> HIDE DEF old, new
    <3>5. routines'[s] = IF old >= new THEN old ELSE new BY <3>1, <3>2, <3>4, GreaterOf
    <3> QED BY ONLY <2>1, <2>4, <2>5, <3>1, <3>2, <3>3, <3>5
  <2>7. RoutinesInv'
    <3>1. image'.sources = image.sources /\ at' \in Nat BY <2>1, <2>4, <2>5
    <3>2. routines' \in [image.sources -> Nat] BY <2>1, <2>6
    <3> QED BY <2>1, <2>6, <3>1, <3>2 DEF RoutinesInv, Length, Short
  <2> QED BY <2>2, <2>7
<1> QED BY <1>1, <1>2

LEMMA CatalogStep ==
  CatalogInv /\ RoutinesInv /\ [CatalogNext]_catalogVars => CatalogInv' /\ RoutinesInv'
<1> SUFFICES ASSUME CatalogInv, RoutinesInv, [CatalogNext]_catalogVars
             PROVE  CatalogInv' /\ RoutinesInv'
  OBVIOUS
<1>1. CASE AnchorObjects BY <1>1, AnchorObjectsKeeps
<1>2. CASE AnchorIndexes BY <1>2, AnchorIndexesKeeps
<1>3. CASE Stage2Plans BY <1>3, Stage2Keeps
<1>4. CASE ScanObjects BY <1>4, ScanObjectsKeeps
<1>5. CASE ReadTable BY <1>5, ReadTableKeeps
<1>6. CASE StartWindows BY <1>6, StartWindowsKeeps
<1>7. CASE ScanWindow BY <1>7, ScanWindowKeeps
<1>8. CASE CatalogLoaded
  <2>1. CatalogInv' BY <1>8, CatalogStays DEF CatalogLoaded
  <2>2. RoutinesInv' BY <1>8 DEF CatalogLoaded, RoutinesInv, Length, Short
  <2> QED BY <2>1, <2>2
<1>9. CASE PageLost \/ UNCHANGED catalogVars
  <2>1. /\ UNCHANGED <<image, plans, known, reported, standard, routines, at, loadPhase>>
        /\ unreadable' \subseteq FilePages
    BY <1>9 DEF PageLost, catalogVars, CatalogInv
  <2>2. \A k : CurrentRows(k)' = CurrentRows(k) BY <2>1, CurrentUnchanged
  <2>3. \A k : HasCurrent(k) => HasCurrent(k)' BY <2>1, <2>2 DEF HasCurrent
  <2>4. ObjectsOfOneTree => ObjectsOfOneTree' BY <2>1, OneTreeIs DEF ObjectsOfOneTree
  <2>5. CatalogInv' BY <2>1, <2>2, <2>3, <2>4 DEF CatalogInv, FilePages
  <2>6. RoutinesInv' BY <2>1 DEF RoutinesInv, Length, Short
  <2> QED BY <2>5, <2>6
<1> QED BY <1>1, <1>2, <1>3, <1>4, <1>5, <1>6, <1>7, <1>8, <1>9 DEF CatalogNext

LEMMA CatalogHolds == CatalogSpec => [](CatalogInv /\ RoutinesInv)
BY CatalogStarts, CatalogStep, PTL DEF CatalogSpec

LEMMA CatalogTypes == CatalogInv => CatalogTypeOK
<1> SUFFICES ASSUME CatalogInv PROVE CatalogTypeOK OBVIOUS
<1>1. IsImage(image) BY ImageIs
<1>2. \A t \in SystemTables : image.live[t] \subseteq FilePages
  BY <1>1, NamesOfReads DEF IsImage, FilePages
<1> QED BY <1>2 DEF CatalogInv, CatalogTypeOK

THEOREM CatalogTypeCorrect == CatalogSpec => []CatalogTypeOK
BY CatalogHolds, CatalogTypes, PTL

LEMMA CurrentIs == \A k : Current(k) = CurrentRows(k)
BY VisitRows DEF Current, CurrentRows

LEMMA LoadedIsFaithful == CatalogInv /\ RoutinesInv => LoadedFaithfully
<1> SUFFICES ASSUME CatalogInv, RoutinesInv, loadPhase = "loaded"
             PROVE  /\ \A k \in DOMAIN known : Ids(Current(k)) \subseteq Ids(known[k])
                    /\ ~reported => \A k \in DOMAIN known : known[k] = Current(k)
                    /\ \A s \in image.sources :
                         s.last - s.first <= LookaheadPages =>
                           routines[s] = s.last - s.first + 1
  BY DEF LoadedFaithfully
<1>1. DOMAIN known = {"object", "index"} \cup {Reads[n] : n \in DOMAIN Reads}
  BY DEF CatalogInv, CatalogKinds
<1>2. 1 \in DOMAIN Reads BY NamesOfReads
<1>3. \A k \in DOMAIN known : HasCurrent(k) BY <1>1, <1>2 DEF CatalogInv
<1>4. ~reported => \A k \in DOMAIN known : known[k] = CurrentRows(k)
  BY <1>1 DEF CatalogInv
<1>5. ASSUME NEW s \in image.sources, Short(s) PROVE routines[s] = Length(s)
  <2>1. s.first \in 1 .. s.last /\ s.last \in 1 .. image.pages /\ image.pages \in Nat
    BY ImageIs DEF IsImage
  <2>2. at \in Nat /\ at > image.pages BY DEF RoutinesInv
  <2>3. s.first < at BY <2>1, <2>2
  <2> QED BY <1>5, <2>3 DEF RoutinesInv
<1> QED BY <1>3, <1>4, <1>5, CurrentIs DEF HasCurrent, Short, Length

THEOREM LoadIsFaithful == CatalogSpec => []LoadedFaithfully
BY CatalogHolds, LoadedIsFaithful, PTL

-----------------------------------------------------------------------------

(* The plan of the leaves of a unit (PagePlan) *)

Validated(r) ==
  LET p == PageAt(r) IN
    p.read = "ok" /\ p.self = r /\ p.storage = Unit /\ p.kind = "leaf"

\* What holds of the leaves gathered while the planner is under way: those of
\* the finished chains are closed under their links, those of the current
\* chain lead on to the page about to be visited.
Gathered ==
  /\ \A r \in plan \cup chain : Validated(r)
  /\ pc # "done" =>
       /\ \A r \in plan : PageAt(r).next \in plan \cup {Null}
       /\ \A r \in chain : PageAt(r).next \in chain \cup {current}

Unstarted ==
  /\ pc = "open" => seen = {} /\ plan = {}
  /\ pc \in {"open", "descend"} => chain = {} /\ plan = {}
  /\ pc # "done" => reason = "none"

DepthKept ==
  /\ Cardinality(seen) \in Nat
  /\ pc = "walk" => Cardinality(seen) < MaxDepth
  /\ pc = "descend" => Cardinality(seen) <= MaxDepth

PlanIInv == TypeOK /\ Gathered /\ Unstarted /\ DepthKept
                /\ PlanClosed /\ CyclesRecognised

\* A chain of leaves that were read is never longer than the files.
LEMMA StepsSuffice == PlanIInv => ~Exhausted
  <1> SUFFICES ASSUME PlanIInv PROVE ~Exhausted
    OBVIOUS
  <1> DEFINE Inside == {r \in Refs : PageAt(r).read # "absent"}
  <1>1. chain \subseteq Inside
    BY DEF PlanIInv, TypeOK, Gathered, Validated
  <1>2. IsFiniteSet(Inside)
    <2>1. Inside \subseteq Refs
      OBVIOUS
    <2> QED
      BY <2>1, FS_Subset, PlanAssumption DEF PlanAssumption
  <1>3. /\ IsFiniteSet(chain)
        /\ Cardinality(chain) <= Cardinality(Inside)
    BY <1>1, <1>2, FS_Subset
  <1>4. Cardinality(chain) \in Nat /\ Cardinality(Inside) \in Nat
    BY <1>2, <1>3, FS_CardinalityType
  <1>5. PageCount = Cardinality(Inside)
    BY DEF PageCount
  <1> QED
    BY <1>3, <1>4, <1>5 DEF Exhausted, MaxSteps

LEMMA InitInv == Init => PlanIInv
  <1> SUFFICES ASSUME Init PROVE PlanIInv
    OBVIOUS
  <1> USE DEF Init
  <1>1. layout \in Layout /\ layout.root \in Refs
    BY PlanAssumption DEF PlanAssumption, Layout
  <1>2. TypeOK
    BY <1>1 DEF TypeOK, Reasons
  <1>3. Cardinality(seen) = 0
    BY FS_EmptySet
  <1>4. Gathered /\ Unstarted /\ DepthKept
    BY <1>3 DEF Gathered, Unstarted, DepthKept
  <1>5. PlanClosed /\ CyclesRecognised
    BY DEF PlanClosed, CyclesRecognised, Complete
  <1> QED
    BY <1>2, <1>4, <1>5 DEF PlanIInv

LEMMA StepInv == PlanIInv /\ [Next]_vars => PlanIInv'
  <1> SUFFICES ASSUME PlanIInv, [Next]_vars PROVE PlanIInv'
    OBVIOUS
  <1> USE PlanAssumption DEF PlanAssumption
  <1>t. /\ TypeOK /\ Gathered /\ Unstarted /\ DepthKept
        /\ PlanClosed /\ CyclesRecognised
    BY DEF PlanIInv
  <1>p. \A r \in Refs : PageAt(r) \in Page
    BY <1>t DEF TypeOK, Layout, PageAt
  <1>r. layout.root \in Refs
    BY <1>t DEF TypeOK, Layout
  <1>1. CASE UNCHANGED vars
    BY <1>1, <1>t DEF vars, PlanIInv, TypeOK, Gathered, Unstarted, DepthKept,
      PlanClosed, CyclesRecognised, Complete, Validated, PageAt
  <1>2. ASSUME NEW why \in Reasons \ {"none"}, Fail(why), pc # "done",
               why = "limit" => Cardinality(seen) = MaxDepth
        PROVE PlanIInv'
    BY <1>2, <1>t DEF Fail, PlanIInv, TypeOK, Gathered, Unstarted, DepthKept,
      PlanClosed, CyclesRecognised, Complete, Validated, PageAt, Reasons
  <1>3. CASE OpenInvalid
    BY <1>2, <1>3 DEF OpenInvalid, Reasons
  <1>4. CASE OpenTree
    <2> USE <1>4 DEF OpenTree
    <2>1. TypeOK'
      BY <1>t DEF TypeOK
    <2>2. Gathered' /\ Unstarted'
      BY <1>t DEF Gathered, Unstarted, Validated, PageAt
    <2>3. DepthKept'
      BY <1>t, FS_EmptySet DEF DepthKept, Unstarted
    <2>4. PlanClosed' /\ CyclesRecognised'
      BY <1>t DEF PlanClosed, CyclesRecognised, Complete
    <2> QED
      BY <2>1, <2>2, <2>3, <2>4 DEF PlanIInv
  <1>5. CASE OpenHeap
    <2> USE <1>5 DEF OpenHeap
    <2>1. Branches \subseteq Refs
      BY <1>p, <1>r DEF Branches, Page
    <2>2. TypeOK'
      BY <2>1, <1>t DEF TypeOK
    <2>3. Gathered' /\ Unstarted'
      BY <1>t DEF Gathered, Unstarted, Validated, PageAt
    <2>4. DepthKept'
      BY <1>t, FS_EmptySet DEF DepthKept, Unstarted
    <2>5. PlanClosed' /\ CyclesRecognised'
      BY <1>t DEF PlanClosed, CyclesRecognised, Complete
    <2> QED
      BY <2>2, <2>3, <2>4, <2>5 DEF PlanIInv
  <1>6. CASE OpenRootOnly
    <2> USE <1>6 DEF OpenRootOnly
    <2>1. TypeOK'
      BY <1>t, <1>r DEF TypeOK, Reasons
    <2>2. Validated(layout.root)
      BY DEF Validated, OurLeaf, Ours
    <2>3. plan' \subseteq {layout.root} /\ chain' = {}
      BY <1>t DEF Unstarted
    <2>4. Gathered' /\ Unstarted' /\ DepthKept'
      BY <2>2, <2>3, <1>t DEF Gathered, Unstarted, DepthKept, Validated, PageAt
    <2>5. PlanClosed'
      <3> SUFFICES ASSUME Complete' PROVE PlanClosed'
        BY DEF PlanClosed
      <3>1. plan' = {layout.root} /\ layout' = layout
        BY <1>t DEF Complete, Unstarted
      <3> QED
        BY <3>1, <2>2 DEF PlanClosed, Validated, PageAt
    <2>6. CyclesRecognised'
      BY <1>t DEF CyclesRecognised, Unstarted
    <2> QED
      BY <2>1, <2>4, <2>5, <2>6 DEF PlanIInv
  <1>7. CASE DescentFails
    <2> DEFINE why == IF Cardinality(seen) >= MaxDepth THEN "limit"
                      ELSE IF current \in seen THEN "cycle" ELSE "invalid"
    <2>1. why \in Reasons \ {"none"} /\ Fail(why) /\ pc # "done"
      BY <1>7 DEF DescentFails, Reasons
    <2>2. why = "limit" => Cardinality(seen) = MaxDepth
      BY <1>7, <1>t DEF DescentFails, DepthKept
    <2> QED
      BY <2>1, <2>2, <1>2
  <1>8. CASE LeafFound
    <2> USE <1>8 DEF LeafFound
    <2>1. TypeOK' /\ Gathered' /\ Unstarted'
      BY <1>t DEF TypeOK, Gathered, Unstarted, Validated, PageAt
    <2>2. DepthKept'
      BY <1>t DEF DepthKept, TooDeep
    <2>3. PlanClosed' /\ CyclesRecognised'
      BY <1>t DEF PlanClosed, CyclesRecognised, Complete
    <2> QED
      BY <2>1, <2>2, <2>3 DEF PlanIInv
  <1>9. ASSUME pc = "descend", ~TooDeep(current), pc' = pc,
               seen' = seen \cup {current}, current' \in Refs,
               bypassed' \in BOOLEAN,
               UNCHANGED <<layout, chain, plan, branches, reason>>
        PROVE PlanIInv'
    <2>1. TypeOK'
      BY <1>9, <1>t DEF TypeOK
    <2>2. Gathered' /\ Unstarted'
      BY <1>9, <1>t DEF Gathered, Unstarted, Validated, PageAt
    <2>3. DepthKept'
      <3>1. IsFiniteSet(seen)
        BY <1>t, FS_Subset DEF TypeOK
      <3>2. Cardinality(seen \cup {current}) = Cardinality(seen) + 1
        BY <3>1, <1>9, FS_AddElement DEF TooDeep
      <3> QED
        BY <3>2, <1>9, <1>t DEF DepthKept, TooDeep
    <2>4. PlanClosed' /\ CyclesRecognised'
      BY <1>9 DEF PlanClosed, CyclesRecognised, Complete
    <2> QED
      BY <2>1, <2>2, <2>3, <2>4 DEF PlanIInv
  <1>10. CASE ToChild
    <2>1. current \in Refs
      BY <1>t DEF TypeOK
    <2>2. PageAt(current).child \in Refs
      BY <2>1, <1>10, <1>p DEF ToChild, ChildOK, Page
    <2> QED
      BY <2>2, <1>10, <1>9, <1>t DEF ToChild, TypeOK
  <1>11. CASE ToSibling
    BY <1>11, <1>9 DEF ToSibling
  <1>12. CASE NoSibling
    BY <1>2, <1>12 DEF NoSibling, Reasons
  <1>13. CASE WalkFails
    <2> DEFINE why == IF Exhausted THEN "limit"
                      ELSE IF current \in chain THEN "cycle" ELSE "invalid"
    <2>1. why \in Reasons \ {"none"} /\ Fail(why) /\ pc # "done"
      BY <1>13 DEF WalkFails, Reasons
    <2>2. why # "limit"
      BY StepsSuffice
    <2> QED
      BY <2>1, <2>2, <1>2
  <1>14. CASE WalkOn
    <2> USE <1>14 DEF WalkOn
    <2>1. TypeOK'
      BY <1>t DEF TypeOK
    <2>2. Validated(current)
      BY DEF Validated, OurLeaf, Ours
    <2>3. Gathered'
      BY <2>2, <1>t DEF Gathered, Validated, PageAt
    <2>4. Unstarted' /\ DepthKept' /\ PlanClosed' /\ CyclesRecognised'
      BY <1>t DEF Unstarted, DepthKept, PlanClosed, CyclesRecognised, Complete
    <2> QED
      BY <2>1, <2>3, <2>4 DEF PlanIInv
  <1>15. CASE WalkEnds
    <2> USE <1>15 DEF WalkEnds
    <2> DEFINE whole == plan \cup chain \cup {current}
    <2>1. /\ \A r \in whole : Validated(r)
          /\ \A r \in whole : PageAt(r).next \in whole \cup {Null}
      BY <1>t DEF Gathered, Validated, OurLeaf, Ours, Ends
    <2>2. CASE branches = {}
      <3>1. Finish(whole)
        BY <2>2
      <3>2. TypeOK' /\ Gathered' /\ Unstarted' /\ DepthKept'
        BY <3>1, <2>1, <1>t DEF Finish, TypeOK, Gathered, Unstarted, DepthKept,
          Validated, PageAt
      <3>3. PlanClosed' /\ CyclesRecognised'
        BY <3>1, <2>1, <1>t DEF Finish, PlanClosed, CyclesRecognised, Complete,
          Unstarted, Validated, PageAt
      <3> QED
        BY <3>2, <3>3 DEF PlanIInv
    <2>3. CASE branches # {}
      <3>1. /\ plan' = whole
            /\ chain' = {}
            /\ UNCHANGED <<layout, pc, seen, reason>>
        BY <2>3
      <3>2. TypeOK'
        BY <2>3, <1>t DEF TypeOK
      <3>3. Gathered'
        BY <3>1, <2>1 DEF Gathered, Validated, PageAt
      <3>4. Unstarted' /\ DepthKept' /\ PlanClosed' /\ CyclesRecognised'
        BY <3>1, <1>t DEF Unstarted, DepthKept, PlanClosed, CyclesRecognised,
          Complete
      <3> QED
        BY <3>2, <3>3, <3>4 DEF PlanIInv
    <2> QED
      BY <2>2, <2>3
  <1>16. CASE Done
    BY <1>16, <1>1 DEF Done
  <1> QED
    BY <1>1, <1>3, <1>4, <1>5, <1>6, <1>7, <1>8, <1>10, <1>11, <1>12, <1>13,
      <1>14, <1>15, <1>16 DEF Next, Open, Descend, Walk

THEOREM Invariance == SafeSpec => []PlanIInv
  BY InitInv, StepInv, PTL DEF SafeSpec

\* However the files are damaged, a plan reported as complete names validated
\* leaves of the unit, and holds the rest of every chain it enters
\* (buildStoragePagePlanDetailed, walkLeafChainDetailed).
THEOREM PlansAreClosed == SafeSpec => []PlanClosed
  <1>1. PlanIInv => PlanClosed
    BY DEF PlanIInv
  <1> QED
    BY <1>1, Invariance, PTL

\* The step limit of walkLeafChainDetailed, twice the pages of all files, never
\* fires: only the descent to the first leaf can run into a limit.
THEOREM CyclesAreRecognised == SafeSpec => []CyclesRecognised
  <1>1. PlanIInv => CyclesRecognised
    BY DEF PlanIInv
  <1> QED
    BY <1>1, Invariance, PTL

\* Whatever the files hold, the planner's variables keep their types.
THEOREM PlanTypesKept == SafeSpec => []TypeOK
  <1>1. PlanIInv => TypeOK
    BY DEF PlanIInv
  <1> QED
    BY <1>1, Invariance, PTL

(***************************************************************************)
(* No leaf is dropped: a planner that passed nothing by has met the first  *)
(* leaf of the tree, or every branch of the heap, and a complete plan is   *)
(* closed under the links that lead from there.                            *)
(***************************************************************************)
Closed(s) == \A r \in s : PageAt(r).next \in s \cup {Null}

Listed == PageAt(layout.root).branches

Met == plan \cup chain \cup {current}

OnThePath ==
  pc = "descend" => ~layout.nobranch /\ current \in layout.spine

FirstLeafMet ==
  pc = "walk" =>
    IF layout.nobranch
    THEN /\ OurLeaf(layout.root)
         /\ Listed # {} /\ Listed \subseteq Met \cup branches
    ELSE /\ branches = {}
         /\ \E r \in layout.spine : OurLeaf(r) /\ r \in Met

FirstLeafPlanned ==
  Complete =>
    IF layout.nobranch
    THEN /\ OurLeaf(layout.root)
         /\ \/ Listed = {} /\ plan = {layout.root}
            \/ Listed # {} /\ Listed \subseteq plan /\ Closed(plan)
    ELSE /\ Closed(plan)
         /\ \E r \in layout.spine : OurLeaf(r) /\ r \in plan

Rooted ==
  /\ layout \in Layouts
  /\ pc = "open" => current = layout.root
  /\ layout.nobranch \/ branches = {}
  /\ ~bypassed => OnThePath /\ FirstLeafMet /\ FirstLeafPlanned

LEMMA GenuineLeaf == ASSUME NEW r PROVE OurLeaf(r) <=> Genuine(layout, r, "leaf")
  BY DEF OurLeaf, Ours, Genuine, PageAt

LEMMA RootedInit == Init => Rooted
  BY DEF Init, Rooted, OnThePath, FirstLeafMet, FirstLeafPlanned, Complete

LEMMA RootedFail ==
  ASSUME Rooted, NEW why \in Reasons \ {"none"}, Fail(why) PROVE Rooted'
  BY DEF Rooted, Fail, OnThePath, FirstLeafMet, FirstLeafPlanned, Complete

LEMMA RootedStep == PlanIInv /\ Rooted /\ [Next]_vars => Rooted'
  <1> SUFFICES ASSUME PlanIInv, Rooted, [Next]_vars PROVE Rooted'
    OBVIOUS
  <1>t. TypeOK /\ Gathered /\ Unstarted
    BY DEF PlanIInv
  <1>l. layout \in Layouts
    BY DEF Rooted
  <1>d. layout.nobranch \/ SpineTrue(layout)
    BY <1>l, RecordAssumption
  <1>1. CASE UNCHANGED vars
    BY <1>1 DEF vars, Rooted, OnThePath, FirstLeafMet, FirstLeafPlanned, Complete,
      Listed, Met, Closed, OurLeaf, Ours, PageAt
  <1>2. CASE OpenInvalid
    BY <1>2, RootedFail DEF OpenInvalid, Reasons
  <1>3. CASE OpenTree
    <2>1. layout.root \in layout.spine
      BY <1>d, <1>3 DEF OpenTree, SpineTrue
    <2>2. PageAt(layout.root).kind # "leaf" \/ OurLeaf(layout.root)
      BY <1>3 DEF OpenTree, OurTreePage, OurLeaf
    <2>3. UNCHANGED <<layout, current, chain, plan, branches, bypassed>>
      BY <1>3 DEF OpenTree
    <2>4. /\ ~layout.nobranch
          /\ pc' = IF PageAt(layout.root).kind = "leaf" THEN "walk" ELSE "descend"
          /\ current = layout.root
      BY <1>3 DEF OpenTree, Rooted
    <2> QED
      BY <2>1, <2>2, <2>3, <2>4 DEF Rooted, OnThePath, FirstLeafMet,
        FirstLeafPlanned, Complete, Met, OurLeaf, Ours, PageAt
  <1>4. CASE OpenHeap
    <2>1. ~bypassed' => Listed = Branches /\ Listed # {}
      BY <1>4 DEF OpenHeap, Listed
    <2>2. ~bypassed' => Listed \subseteq {current'} \cup branches'
      BY <1>4, <2>1 DEF OpenHeap
    <2>3. layout.nobranch /\ OurLeaf(layout.root) /\ layout' = layout /\ pc' = "walk"
      BY <1>4 DEF OpenHeap
    <2> QED
      BY <2>1, <2>2, <2>3, <1>l DEF Rooted, OnThePath, FirstLeafMet,
        FirstLeafPlanned, Complete, Met, Listed, OurLeaf, Ours, PageAt
  <1>5. CASE OpenRootOnly
    <2>1. layout.nobranch /\ OurLeaf(layout.root) /\ layout' = layout /\ pc' = "done"
      BY <1>5 DEF OpenRootOnly
    <2>2. ~bypassed' => Listed = {}
      BY <1>5 DEF OpenRootOnly, Listed
    <2>3. reason' = "none" => plan' = {layout.root}
      BY <1>5, <1>t DEF OpenRootOnly
    <2> QED
      BY <2>1, <2>2, <2>3, <1>l DEF Rooted, OnThePath, FirstLeafMet,
        FirstLeafPlanned, Complete, Listed, OurLeaf, Ours, PageAt
  <1>6. CASE DescentFails
    BY <1>6, RootedFail DEF DescentFails, Reasons
  <1>7. CASE LeafFound
    <2>1. /\ OurLeaf(current) /\ pc = "descend" /\ pc' = "walk"
          /\ UNCHANGED <<layout, current, chain, plan, branches, bypassed>>
      BY <1>7 DEF LeafFound
    <2> QED
      BY <2>1 DEF Rooted, OnThePath, FirstLeafMet, FirstLeafPlanned, Complete,
        Met, OurLeaf, Ours, PageAt
  <1>8. CASE ToChild
    <2>1. /\ pc = "descend" /\ pc' = pc /\ current' = PageAt(current).child
          /\ UNCHANGED <<layout, branches, bypassed>>
      BY <1>8 DEF ToChild
    <2>2. Genuine(layout, current, "root") /\ PageAt(current).child # Null
      BY <1>8 DEF ToChild, Ours, ChildOK, Genuine, PageAt
    <2>3. ~bypassed => ~layout.nobranch /\ current' \in layout.spine
      BY <2>1, <2>2, <1>d DEF Rooted, OnThePath, SpineTrue, PageAt
    <2> QED
      BY <2>1, <2>3, <1>l DEF Rooted, OnThePath, FirstLeafMet, FirstLeafPlanned,
        Complete
  <1>9. CASE ToSibling
    BY <1>9 DEF ToSibling, Rooted
  <1>10. CASE NoSibling
    BY <1>10, RootedFail DEF NoSibling, Reasons
  <1>11. CASE WalkFails
    BY <1>11, RootedFail DEF WalkFails, Reasons
  <1>12. CASE WalkOn
    <2>1. /\ pc = "walk" /\ pc' = pc /\ chain' = chain \cup {current}
          /\ UNCHANGED <<layout, plan, branches, bypassed>>
      BY <1>12 DEF WalkOn
    <2>2. Met \subseteq Met'
      BY <2>1 DEF Met
    <2> QED
      BY <2>1, <2>2 DEF Rooted, OnThePath, FirstLeafMet, FirstLeafPlanned,
        Complete, Listed, OurLeaf, Ours, PageAt
  <1>13. CASE WalkEnds
    <2>1. /\ pc = "walk" /\ OurLeaf(current) /\ Ends(current)
          /\ UNCHANGED <<layout, reason, bypassed>> /\ plan' = Met
      BY <1>13 DEF WalkEnds, Finish, Met
    <2>2. Closed(Met)
      BY <2>1, <1>t DEF Closed, Met, Gathered, Ends
    <2>3. CASE branches = {}
      <3>1. pc' = "done" /\ branches' = branches
        BY <1>13, <2>3 DEF WalkEnds, Finish
      <3> QED
        BY <2>1, <2>2, <2>3, <3>1 DEF Rooted, OnThePath, FirstLeafMet,
          FirstLeafPlanned, Complete, Listed, Closed, OurLeaf, Ours, PageAt
    <2>4. CASE branches # {}
      <3>1. /\ pc' = "walk" /\ chain' = {}
            /\ branches \subseteq branches' \cup {current'}
        BY <1>13, <2>4, <2>1 DEF WalkEnds
      <3>2. layout.nobranch
        BY <2>4 DEF Rooted
      <3>3. ~bypassed => OurLeaf(layout.root) /\ Listed # {} /\ Listed \subseteq Met \cup branches
        BY <2>1, <3>2 DEF Rooted, FirstLeafMet
      <3>4. Met \cup branches \subseteq Met' \cup branches'
        BY <2>1, <3>1 DEF Met
      <3> QED
        BY <2>1, <3>1, <3>2, <3>3, <3>4 DEF Rooted, OnThePath, FirstLeafMet,
          FirstLeafPlanned, Complete, Listed, OurLeaf, Ours, PageAt
    <2> QED
      BY <2>3, <2>4
  <1>14. CASE Done
    BY <1>14, <1>1 DEF Done
  <1> QED
    BY <1>1, <1>2, <1>3, <1>4, <1>5, <1>6, <1>7, <1>8, <1>9, <1>10, <1>11, <1>12,
      <1>13, <1>14 DEF Next, Open, Descend, Walk

\* A closed plan that holds the pages in s holds all they lead to.
LEMMA ClosedHoldsAll ==
  ASSUME TypeOK, Closed(plan), NEW s, s \subseteq plan, LeadToAll(layout, s)
  PROVE  layout.leaves \subseteq plan
  <1> DEFINE t == plan \cap layout.leaves
  <1>1. layout.leaves \subseteq Refs /\ Null \notin Refs
    BY PlanAssumption DEF TypeOK, Layout, PlanAssumption
  <1>2. t \in SUBSET layout.leaves /\ s \cap layout.leaves \subseteq t
    OBVIOUS
  <1>3. \A r \in t : layout.page[r].next \in layout.leaves => layout.page[r].next \in t
    BY <1>1 DEF Closed, PageAt
  <1>4. t = layout.leaves
    BY <1>2, <1>3 DEF LeadToAll
  <1> QED
    BY <1>4

LEMMA PlanHoldsLeaves == PlanIInv /\ Rooted => NoLeafDropped
  <1> SUFFICES ASSUME PlanIInv, Rooted, Complete, ~bypassed
               PROVE  layout.leaves \subseteq plan
    BY DEF NoLeafDropped
  <1>1. TypeOK /\ FirstLeafPlanned /\ layout \in Layouts
    BY DEF PlanIInv, Rooted
  <1>2. CASE layout.nobranch
    <2>1. BranchesTrue(layout) /\ Genuine(layout, layout.root, "leaf")
      BY <1>1, <1>2, RecordAssumption, GenuineLeaf DEF FirstLeafPlanned
    <2>2. CASE Listed = {}
      BY <2>1, <2>2, <1>1, <1>2 DEF BranchesTrue, FirstLeafPlanned, Listed, PageAt
    <2>3. CASE Listed # {}
      <3>1. LeadToAll(layout, Listed)
        BY <2>1, <2>3 DEF BranchesTrue, Listed, PageAt
      <3>2. Listed \subseteq plan /\ Closed(plan)
        BY <2>3, <1>1, <1>2 DEF FirstLeafPlanned
      <3> QED
        BY <3>1, <3>2, <1>1, ClosedHoldsAll
    <2> QED
      BY <2>2, <2>3
  <1>3. CASE ~layout.nobranch
    <2>1. SpineTrue(layout)
      BY <1>1, <1>3, RecordAssumption
    <2>2. Closed(plan) /\ \E r \in layout.spine : OurLeaf(r) /\ r \in plan
      BY <1>1, <1>3 DEF FirstLeafPlanned
    <2>3. PICK r \in layout.spine : OurLeaf(r) /\ r \in plan
      BY <2>2
    <2>4. LeadToAll(layout, {r})
      BY <2>1, <2>3, GenuineLeaf DEF SpineTrue
    <2> QED
      BY <2>2, <2>3, <2>4, <1>1, ClosedHoldsAll
  <1> QED
    BY <1>2, <1>3

\* A page that cannot be read or validated never shortens a plan unnoticed:
\* for any files, a complete plan that passed no page by holds every leaf of
\* the unit (descendLeftmostLeafDetailed, noBranchChildPageRefs,
\* walkLeafChainDetailed).
THEOREM LeavesAreKept == SafeSpec => []NoLeafDropped
  <1>1. Init => PlanIInv /\ Rooted
    BY InitInv, RootedInit
  <1>2. PlanIInv /\ Rooted /\ [Next]_vars => (PlanIInv /\ Rooted)'
    BY StepInv, RootedStep
  <1> QED
    BY <1>1, <1>2, PlanHoldsLeaves, PTL DEF SafeSpec
=============================================================================
