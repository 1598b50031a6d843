------------------------------ MODULE HugeTable -----------------------------
(***************************************************************************)
(* Export of a HUGE table (data_huge.go and its companions): the rows of   *)
(* the HFS sections that $AUX lists, column file by column file, then the  *)
(* rows of $RAUX not moved into a section yet, both without the ranges of  *)
(* $DAUX and with the values of $UAUX put in.                              *)
(*                                                                         *)
(* What a column file holds of a section is a record: the fields of its    *)
(* header that are compared, and either cells of one width with a bit per  *)
(* row, or offsets into bytes.                                             *)
(***************************************************************************)
EXTENDS Integers, Sequences, FiniteSets, SequencesExt, FiniteSetsExt, Selection

CONSTANTS
  HugeTables,   \* stored tables TLC tries
  SectionRows,  \* hugeSectionRows
  NullOffset,   \* the offset that marks a NULL
  Undecodable   \* bytes the decoder of the column refuses

AuxTables == <<"AUX", "RAUX", "DAUX", "UAUX">>

-----------------------------------------------------------------------------
(* The column files *)

\* loadHugeColumnSections: a row out of range refuses the table.  (The other
\* numbers have 32 bits there.)
AuxRow ==
  [col : Int, section : Int, file : Int, count : Int, length : Int, nulls : Int,
   known : BOOLEAN, packed : BOOLEAN]
AuxInRange(a) ==
  /\ a.col >= 0 /\ a.col < 65536 /\ a.section >= 0 /\ a.file >= -1
  /\ a.count >= 0 /\ a.length >= 0 /\ a.nulls \in 0 .. a.count
AllInRange(rows) == \A n \in DOMAIN rows : AuxInRange(rows[n])

Listed(rows) == {n \in DOMAIN rows : rows[n].file >= 0 /\ rows[n].count > 0}
SectionIds(rows) == {rows[n].section : n \in Listed(rows)}
\* Of several $AUX rows for a section of a column the last one counts.
SectionOf(rows, sec, col) ==
  LET ns == {n \in Listed(rows) : rows[n].section = sec /\ rows[n].col = col}
  IN IF ns = {} THEN <<>> ELSE <<rows[Max(ns)]>>
CountOf(rows, sec, cols) == SectionOf(rows, sec, Min(cols))[1].count

\* The sections are checked before the first row is written: every column has
\* the section, with the same number of rows, in a layout known.
SectionsAgree(rows, cols) ==
  \A sec \in SectionIds(rows) :
    /\ \A c \in cols : SectionOf(rows, sec, c) # <<>> /\ SectionOf(rows, sec, c)[1].known
    /\ Cardinality({SectionOf(rows, sec, c)[1].count : c \in cols}) = 1

\* resolveHugeColumnFiles: the file of that name in each directory, if its
\* header names the table, the column and the whole file id
Sequence(file) == file % 256   \* the part of a file id that is in the name
FilesNamed(w, col, file) ==
  {d \in DOMAIN w.dirs : <<col, Sequence(file)>> \in DOMAIN w.dirs[d]}
HfsFile(w, d, col, file) == w.dirs[d][<<col, Sequence(file)>>]
Identified(w, col, file) ==
  {d \in FilesNamed(w, col, file) :
     HfsFile(w, d, col, file).names = <<w.table, col, file>>}
FilesWanted(rows) == {<<rows[n].col, rows[n].file>> : n \in Listed(rows)}
FilesResolve(w, rows) ==
  \A k \in FilesWanted(rows) :
    /\ \A d \in FilesNamed(w, k[1], k[2]) : HfsFile(w, d, k[1], k[2]).regular
    /\ Cardinality(Identified(w, k[1], k[2])) = 1

\* openHugeColumnSection, prepareCompressedSection, initFixedNulls and
\* initVariable: what must agree before a value is read
Packed(s, a) == (s.packed = "no" /\ ~a.packed) \/ (s.packed = "yes" /\ a.packed)
NullCells(s) == Cardinality({n \in DOMAIN s.present : ~s.present[n]})
SectionOpens(s, a, type) ==
  /\ s.magic /\ s.fits /\ s.type \in {"any", type}
  /\ a.length \in {0, s.length}
  /\ Packed(s, a)
  /\ IF type = "fixed"
     THEN Len(s.cells) >= a.count /\ (s.present # <<>> \/ a.nulls = 0)
          /\ (s.present # <<>> => NullCells(s) = a.nulls)
     ELSE LET values == {n \in 1 .. a.count : s.offsets[n] # NullOffset}
              first == IF values = {} THEN s.offsets[a.count + 1] ELSE s.offsets[Min(values)]
          IN /\ Len(s.offsets) = a.count + 1 /\ s.offsets[a.count + 1] \in Nat
             /\ first <= s.offsets[a.count + 1]
             /\ s.offsets[a.count + 1] <= Len(s.bytes)

\* hugeColumnSectionReader.next: <<>> for an error.  A value ends where the
\* next one that is not NULL starts.
Cell(v) == <<v>>
VariableCell(s, n) ==
  LET later == {m \in n + 1 .. Len(s.offsets) : s.offsets[m] # NullOffset}
      before == {m \in 1 .. n - 1 : s.offsets[m] # NullOffset}
      end == s.offsets[Min(later)]
  IN IF s.offsets[n] = NullOffset THEN Cell(NullOffset)
     ELSE IF later = {} \/ end < s.offsets[n] \/ end > Len(s.bytes)
             \/ \E m \in before : s.offsets[m] > s.offsets[n] THEN <<>>
     ELSE Cell(SubSeq(s.bytes, s.offsets[n] + 1, end))
FixedCell(s, n) ==
  IF s.present # <<>> /\ ~s.present[n] THEN Cell(NullOffset)
  ELSE IF s.cells[n] = Undecodable THEN <<>> ELSE Cell(s.cells[n])
ReadCell(s, type, n) == IF type = "fixed" THEN FixedCell(s, n) ELSE VariableCell(s, n)

\* loadHugeUpdates: no update is taken unless all can be
UpdatesSound(rows, cols) ==
  \A n \in DOMAIN rows : rows[n].col \in cols /\ rows[n].id > 0 /\ rows[n].value # Undecodable

-----------------------------------------------------------------------------
(* The stored tables *)

\* The numbers of S in their order
InOrder(S) == Sorted(S, {ss \in S \X S : ss[1] < ss[2]})

\* A section as the server writes it: cells of one width and a bit for each, or
\* offsets that never decrease, each value from its own to the next one
FixedStored(s, a, values) ==
  /\ Len(s.cells) >= a.count
  /\ \A n \in 1 .. a.count : values[n] # NullOffset =>
       s.cells[n] = values[n] /\ values[n] # Undecodable
  /\ IF s.present = <<>> THEN a.nulls = 0 /\ \A n \in 1 .. a.count : values[n] # NullOffset
     ELSE /\ DOMAIN s.present = 1 .. a.count
          /\ \A n \in 1 .. a.count : s.present[n] = (values[n] # NullOffset)
          /\ a.nulls = Cardinality({n \in 1 .. a.count : values[n] = NullOffset})
VariableStored(s, a, values) ==
  LET places == {n \in 1 .. a.count + 1 : s.offsets[n] # NullOffset}
  IN /\ Len(s.bytes) \in Nat /\ Len(s.offsets) = a.count + 1 /\ a.count + 1 \in places
     /\ \A n \in places : s.offsets[n] \in 0 .. Len(s.bytes)
     /\ \A n \in 1 .. a.count : n \in places <=> values[n] # NullOffset
     /\ \A m, n \in places : m < n =>
          /\ s.offsets[m] <= s.offsets[n]
          /\ (\A k \in m + 1 .. n - 1 : k \notin places) =>
               values[m] = SubSeq(s.bytes, s.offsets[m] + 1, s.offsets[n])
SectionStored(s, a, type, values) ==
  /\ s.magic /\ s.fits /\ s.type \in {"any", type} /\ a.length \in {0, s.length} /\ Packed(s, a)
  /\ IF type = "fixed" THEN FixedStored(s, a, values) ELSE VariableStored(s, a, values)

\* A damaged one is not opened, or what is read of it is what was written.
SectionTells(s, a, type, values) ==
  SectionOpens(s, a, type) =>
    \A n \in 1 .. a.count : ReadCell(s, type, n) \in {<<>>, Cell(values[n])}

SectionsTell(w, aux) ==
  \A sec \in SectionIds(aux), c \in DOMAIN w.type :
    LET a == SectionOf(aux, sec, c)[1]
        values == [n \in 1 .. a.count |-> w.written[sec * SectionRows + n][c]]
    IN \A d \in Identified(w, c, a.file) :
         LET s == HfsFile(w, d, c, a.file).sections[sec]
         IN /\ SectionTells(s, a, w.type[c], values)
            /\ w.sound => SectionStored(s, a, w.type[c], values)

\* The rows of an auxiliary table as far as they can be read
StoredRows(w, t) ==
  IF t \in w.tables /\ w.own[t] \in DOMAIN w.stored THEN w.stored[w.own[t]].rows ELSE <<>>
WholeIn(w, t) == w.own[t] \in DOMAIN w.stored /\ ~w.stored[w.own[t]].broken

\* The ids of the rows in sections, and the last of them
InSections(w) ==
  LET aux == StoredRows(w, "AUX")
  IN UNION {{sec * SectionRows + n : n \in 1 .. CountOf(aux, sec, DOMAIN w.type)} :
              sec \in SectionIds(aux)}
LastInSections(w) == IF InSections(w) = {} THEN 0 ELSE Max(InSections(w))

\* The rows left, in the order of their ids, with their values of today
LiveOf(w) ==
  LET left == InOrder({i \in DOMAIN w.written : i \notin w.gone})
  IN [n \in DOMAIN left |-> [c \in DOMAIN w.type |->
        IF <<left[n], c>> \in DOMAIN w.changed THEN w.changed[<<left[n], c>>]
        ELSE w.written[left[n]][c]]]

\* What a stored table may be.  Ids count the rows of the sections, then those of
\* $RAUX; the rows of $RAUX carry their id, or count from the end of the sections
\* where that cannot be mistaken.  Damage shows where it is read.
IsHugeTable(w) ==
  LET cols == DOMAIN w.type
      ids == DOMAIN w.written
      aux == StoredRows(w, "AUX")
      raux == StoredRows(w, "RAUX")
      daux == StoredRows(w, "DAUX")
      uaux == StoredRows(w, "UAUX")
      full == LastInSections(w)
  IN /\ cols # {} /\ cols \subseteq Nat /\ IsFiniteSet(cols) /\ w.maxRows \in Nat
     /\ ids \subseteq Nat \ {0} /\ IsFiniteSet(ids)
     /\ w.live = LiveOf(w)
     /\ \A t \in w.tables \cup {"AUX"} :
          /\ StoredRows(w, t) \in Seq(Range(StoredRows(w, t)))
          /\ w.own[t] \in Nat \ {0} /\ w.assistId[t] \in Nat
          /\ w.assists[t] # <<>> => Last(w.assists[t]) = w.own[t]
          /\ w.assists[t] = <<>> /\ w.assistId[t] # 0 => w.assistId[t] = w.own[t]
          /\ w.assists[t] = <<>> /\ w.assistId[t] = 0 => t # "AUX" /\
               \E k \in DOMAIN AuxTables :
                 AuxTables[k] = t /\ w.own[t] = w.own["AUX"] + k - 1
     /\ WholeIn(w, "AUX") /\ aux = <<>> => ids = {}
     /\ \A n \in DOMAIN aux : aux[n] \in AuxRow
     /\ AllInRange(aux) /\ SectionsAgree(aux, cols) =>
          /\ {i \in ids : i <= full} = InSections(w)
          /\ \A sec \in SectionIds(aux) : CountOf(aux, sec, cols) <= SectionRows
          /\ SectionsTell(w, aux)
          /\ full + 1 .. full + Len(raux) \subseteq ids
          /\ "RAUX" \notin w.tables \/ WholeIn(w, "RAUX") =>
               {i \in ids : i > full} = full + 1 .. full + Len(raux)
          /\ \A n \in DOMAIN raux :
               /\ raux[n].values = w.written[full + n]
               /\ raux[n].id \in {full + n} \cup IF n <= full \/ full = 0 THEN {0, n} ELSE {}
     /\ \A n \in DOMAIN daux : daux[n].start \in Int /\ daux[n].count \in Int
     /\ "DAUX" \notin w.tables \/ WholeIn(w, "DAUX") =>
          \A i \in ids : i \in w.gone <=>
            \E n \in DOMAIN daux : daux[n].start > 0 /\ i \in daux[n].start .. daux[n].start + daux[n].count - 1
     /\ "UAUX" \notin w.tables \/ (WholeIn(w, "UAUX") /\ UpdatesSound(uaux, cols)) =>
          /\ DOMAIN w.changed = {<<uaux[n].id, uaux[n].col>> : n \in DOMAIN uaux}
          /\ \A n \in DOMAIN uaux :
               (\A m \in DOMAIN uaux : m > n => <<uaux[m].id, uaux[m].col>> # <<uaux[n].id, uaux[n].col>>)
                 => w.changed[<<uaux[n].id, uaux[n].col>>] = uaux[n].value
     /\ w.sound =>
          /\ "AUX" \in w.tables /\ \A t \in w.tables : WholeIn(w, t)
          /\ AllInRange(aux) /\ SectionsAgree(aux, cols) /\ FilesResolve(w, aux)
          /\ Listed(aux) # {} => w.dirs # <<>>
          /\ UpdatesSound(uaux, cols)

ASSUME HugeAssumption ==
  /\ SectionRows \in Nat \ {0} /\ NullOffset \notin Nat
  /\ \A w \in HugeTables : IsHugeTable(w)

VARIABLES
  huge,        \* the stored table
  auxRows,     \* the $AUX rows: sections
  colFiles,    \* columnFiles: <<column, file id>> to a directory
  deletes,     \* merged ranges [from, to), in order
  updates,     \* <<row id, column>> to a value
  sectionAt,   \* <<section, rows done>> of the section being read
  fullRows,    \* fullRowCount
  rauxAt,      \* RAUX rows done
  hugeRows,    \* the rows written
  hugePhase

hugeVars == <<huge, auxRows, colFiles, deletes, updates, sectionAt, fullRows, rauxAt,
              hugeRows, hugePhase>>

-----------------------------------------------------------------------------
(* The auxiliary tables, which are stored like ordinary ones *)

\* ensureHugeAuxStorageMappings: the newest storage of the table, its own
\* index by the usual number, or the one next to the storage of $AUX.
OwnStorage(t) ==
  IF huge.assists[t] # <<>> THEN Last(huge.assists[t]) ELSE huge.assistId[t]
AuxStorage(t) ==
  IF OwnStorage(t) # 0 \/ OwnStorage("AUX") = 0 THEN OwnStorage(t)
  ELSE OwnStorage("AUX") + (CHOOSE n \in DOMAIN AuxTables : AuxTables[n] = t) - 1

\* walkHugeAuxRows: along the plan, or by a scan, which must meet a page.  Of
\* a broken storage the rows before the first bad page are visited.
HasAux(t) == t \in huge.tables
AuxFound(t) == AuxStorage(t) \in DOMAIN huge.stored
AuxReadable(t) == AuxFound(t) /\ ~huge.stored[AuxStorage(t)].broken
AuxContent(t) == IF AuxFound(t) THEN huge.stored[AuxStorage(t)].rows ELSE <<>>

Columns == DOMAIN huge.type
StoredSection(col, a) ==
  HfsFile(huge, colFiles[<<col, a.file>>], col, a.file).sections[a.section]

-----------------------------------------------------------------------------
(* Deleted and updated rows *)

\* loadHugeDeleteRanges: sorted, and merged where they touch
RangeStarts(rs) == {r[1] : r \in rs}
Covered(rs) == UNION {r[1] .. (r[2] - 1) : r \in rs}
MergedRanges(rows) ==
  LET rs == {<<rows[n].start, rows[n].start + rows[n].count>> :
               n \in {m \in DOMAIN rows : rows[m].start > 0 /\ rows[m].count > 0}}
      ids == Covered(rs)
      starts == {i \in ids : i - 1 \notin ids}
      EndOf(i) == Min({j \in {k + 1 : k \in ids} : j > i /\ j \notin ids})
  IN [n \in 1 .. Cardinality(starts) |->
        LET i == InOrder(starts)[n] IN <<i, EndOf(i)>>]

\* hugeRowDeleted: the first range that ends after the row
Deleted(id) ==
  LET after == {n \in DOMAIN deletes : deletes[n][2] > id}
  IN after # {} /\ deletes[Min(after)][1] <= id

\* loadHugeUpdates: the last value of a column of a row counts
UpdatesOf(rows) ==
  [k \in {<<rows[n].id, rows[n].col>> : n \in DOMAIN rows} |->
     rows[Max({n \in DOMAIN rows : <<rows[n].id, rows[n].col>> = k})].value]

\* applyHugeRowUpdates
Updated(id, values) ==
  [c \in Columns |-> IF <<id, c>> \in DOMAIN updates THEN updates[<<id, c>>] ELSE values[c]]

\* What writeHugeLogicalRow adds, and when the limit of rows is reached
WithRow(id, values) ==
  IF Deleted(id) THEN hugeRows ELSE Append(hugeRows, Updated(id, values))
HugeLimit(rows) == huge.maxRows > 0 /\ Len(rows) >= huge.maxRows

-----------------------------------------------------------------------------

HugeInit ==
  /\ huge \in HugeTables
  /\ auxRows = <<>> /\ colFiles = <<>> /\ deletes = <<>> /\ updates = <<>>
  /\ sectionAt = <<0, 0>> /\ fullRows = 0 /\ rauxAt = 0 /\ hugeRows = <<>>
  /\ hugePhase = "sections"

HugeFails ==
  /\ hugePhase' = "error"
  /\ UNCHANGED <<huge, auxRows, colFiles, deletes, updates, sectionAt, fullRows, rauxAt, hugeRows>>

\* loadHugeColumnSections; no section is taken for an empty table.
LoadSections ==
  /\ hugePhase = "sections"
  /\ IF ~HasAux("AUX") \/ ~AuxReadable("AUX") \/ ~AllInRange(AuxContent("AUX")) THEN HugeFails
     ELSE /\ auxRows' = AuxContent("AUX")
          /\ hugePhase' = IF AuxContent("AUX") = <<>> THEN "done" ELSE "files"
          /\ UNCHANGED <<huge, colFiles, deletes, updates, sectionAt, fullRows, rauxAt, hugeRows>>

ResolveColumnFiles ==
  /\ hugePhase = "files"
  /\ IF (Listed(auxRows) # {} /\ huge.dirs = <<>>) \/ ~FilesResolve(huge, auxRows) THEN HugeFails
     ELSE /\ colFiles' = [k \in FilesWanted(auxRows) |->
                            CHOOSE d \in Identified(huge, k[1], k[2]) : TRUE]
          /\ hugePhase' = "delta"
          /\ UNCHANGED <<huge, auxRows, deletes, updates, sectionAt, fullRows, rauxAt, hugeRows>>

LoadDelta ==
  /\ hugePhase = "delta"
  /\ IF \E t \in {"DAUX", "UAUX"} : HasAux(t) /\ ~AuxReadable(t) THEN HugeFails
     ELSE IF HasAux("UAUX") /\ ~UpdatesSound(AuxContent("UAUX"), Columns) THEN HugeFails
     ELSE /\ deletes' = IF HasAux("DAUX") THEN MergedRanges(AuxContent("DAUX")) ELSE <<>>
          /\ updates' = IF HasAux("UAUX") THEN UpdatesOf(AuxContent("UAUX")) ELSE <<>>
          /\ hugePhase' = "check"
          /\ UNCHANGED <<huge, auxRows, colFiles, sectionAt, fullRows, rauxAt, hugeRows>>

CheckSections ==
  /\ hugePhase = "check"
  /\ IF ~SectionsAgree(auxRows, Columns) THEN HugeFails
     ELSE /\ hugePhase' = IF SectionIds(auxRows) = {} THEN "raux" ELSE "rows"
          /\ sectionAt' = IF SectionIds(auxRows) = {} THEN sectionAt ELSE <<Min(SectionIds(auxRows)), 0>>
          /\ UNCHANGED <<huge, auxRows, colFiles, deletes, updates, fullRows, rauxAt, hugeRows>>

\* One row of the section at hand; all columns are opened before the first.
\* After the last row the next section follows, unless the limit is reached.
ReadHugeRow ==
  /\ hugePhase = "rows"
  /\ LET sec == sectionAt[1]
         aux(c) == SectionOf(auxRows, sec, c)[1]
         part(c) == StoredSection(c, aux(c))
         n == sectionAt[2] + 1
         cells == [c \in Columns |-> ReadCell(part(c), huge.type[c], n)]
         id == sec * SectionRows + n
         rows == WithRow(id, [c \in Columns |-> cells[c][1]])
         later == {s \in SectionIds(auxRows) : s > sec}
         ends == n = CountOf(auxRows, sec, Columns)
     IN IF \E c \in Columns : ~SectionOpens(part(c), aux(c), huge.type[c]) THEN HugeFails
        ELSE IF \E c \in Columns : cells[c] = <<>> THEN HugeFails
        ELSE /\ hugeRows' = rows
             /\ sectionAt' = IF ~ends THEN <<sec, n>>
                             ELSE IF later = {} THEN sectionAt ELSE <<Min(later), 0>>
             /\ fullRows' = Max({fullRows, IF ends THEN id ELSE 0})
             /\ hugePhase' = IF HugeLimit(rows) THEN "done"
                             ELSE IF ~ends \/ later # {} THEN "rows" ELSE "raux"
             /\ UNCHANGED <<huge, auxRows, colFiles, deletes, updates, rauxAt>>

\* Fault: a row numbered within $RAUX keeps its number.
RauxIdAsStored(row, n) == IF row.id = 0 THEN n ELSE row.id

\* One row of $RAUX: its row id is one of the table, or counts from the end of
\* the sections, or its place does.
RauxId(row, n) ==
  LET own == IF row.id = 0 THEN n ELSE row.id
  IN IF own <= fullRows THEN fullRows + own ELSE own
ReadRaux ==
  /\ hugePhase = "raux"
  /\ LET n == rauxAt + 1
         row == AuxContent("RAUX")[n]
         rows == WithRow(RauxId(row, n), row.values)
     IN IF ~HasAux("RAUX") \/ (AuxReadable("RAUX") /\ n > Len(AuxContent("RAUX")))
        THEN /\ hugePhase' = "done"
             /\ UNCHANGED <<huge, auxRows, colFiles, deletes, updates, sectionAt, fullRows,
                            rauxAt, hugeRows>>
        ELSE IF n > Len(AuxContent("RAUX")) THEN HugeFails
        ELSE /\ rauxAt' = n /\ hugeRows' = rows
             /\ hugePhase' = IF HugeLimit(rows) THEN "done" ELSE "raux"
             /\ UNCHANGED <<huge, auxRows, colFiles, deletes, updates, sectionAt, fullRows>>

HugeNext ==
  \/ LoadSections \/ ResolveColumnFiles \/ LoadDelta \/ CheckSections
  \/ ReadHugeRow \/ ReadRaux

HugeSpec == HugeInit /\ [][HugeNext]_hugeVars
-----------------------------------------------------------------------------

HugeTypeOK ==
  /\ DOMAIN colFiles \subseteq FilesWanted(auxRows)
  /\ sectionAt \in Nat \X Nat /\ fullRows \in Nat /\ rauxAt \in Nat
  /\ \A n \in DOMAIN hugeRows : DOMAIN hugeRows[n] = Columns
  /\ hugePhase \in {"sections", "files", "delta", "check", "rows", "raux", "done", "error"}

\* The rows written are the live rows of the table in order, wherever they
\* are stored: in a section, in $RAUX, deleted in $DAUX or changed in $UAUX.
\* Up to an error they are the first ones, and an error is met only when a
\* part of the table is damaged (exportHugeTableData; docs/huge-tables.md,
\* section 2, "merge the HFS rows, the RAUX rows, the DAUX ranges and the UAUX
\* values", and section 5, "do not decode what cannot be proved").
HugeRowsExact ==
  /\ IsPrefix(hugeRows, huge.live)
  /\ hugePhase = "done" /\ ~HugeLimit(hugeRows) => hugeRows = huge.live
  /\ hugePhase = "error" => ~huge.sound
=============================================================================
