-------------------------------- MODULE RowPage ------------------------------
(***************************************************************************)
(* A row page: where its slot directory ends, whether the rows and the     *)
(* directory agree, and the rows it holds -- those the directory points    *)
(* to, and, when a table is recovered, those a walk over the row area      *)
(* meets (data_row.go, page_check.go, checkRowPageStructure).              *)
(*                                                                         *)
(* word[o] is the length and status word at offset o, where one can be     *)
(* read: the head of a row, or bytes inside a row that look like one.  A   *)
(* page with sector protection keeps the bytes before every 4 KiB boundary *)
(* in its tail, so its directory ends earlier, and a row whose head        *)
(* straddles a boundary cannot be decoded before they are put back.        *)
(* Pages that carry a hash of their own are not in the model, nor are the  *)
(* bytes a page without protection gets wrong when it is wrongly taken for *)
(* a protected one.                                                        *)
(***************************************************************************)
EXTENDS Integers, Sequences, FiniteSets, FiniteSetsExt

CONSTANTS
  RowPages,      \* pages TLC tries: records [slots, records, level, freeEnd,
                 \* word, straddling, heads, layout]
  RowAreaStart,  \* dataRowAreaStart
  MinSlotOffset, \* dmMinSlotOffset
  BoundaryKeys,  \* dmBoundaryKeySlotOffsets
  MaxSlots,      \* 2048 in the code: a count that is not plausible
  HeadSize,      \* a row has at least that many bytes
  Sectors        \* 4 KiB sectors of a page

-----------------------------------------------------------------------------
(* What a page can be *)

\* decodeDataRowHeader: what makes an offset the head of a row
IsRowOn(p, off) ==
  /\ off \in DOMAIN p.word
  /\ p.word[off].length >= HeadSize
  /\ off + p.word[off].length <= p.freeEnd

\* The rows lie one after another from the start of the row area, and a slot
\* may point anywhere.  The other place a directory could be at holds words of
\* this one and some of the bytes beside it, which point to no row a second time,
\* and to none at all from the tail of a protected page; nor do they look like
\* four slots of page keys.
IsRowPage(p) ==
  LET words(t) == p.slots[t]
      keys(t) == {n \in DOMAIN words(t) : words(t)[n] \in BoundaryKeys}
      EndOf(o) == o + p.word[o].length
  IN /\ words("base") \in Seq(Nat) /\ words("protected") \in Seq(Nat)
     /\ Len(words("base")) = Len(words("protected"))
     /\ Len(words("base")) < MaxSlots
     /\ p.layout \in {"base", "protected"}
     /\ p.records \in Nat /\ p.level \in Nat
     /\ p.freeEnd \in Nat /\ p.freeEnd >= RowAreaStart
     /\ IsFiniteSet(DOMAIN p.word)
     /\ DOMAIN p.word \in SUBSET (Nat \ (BoundaryKeys \cup {0}))
     /\ \A o \in DOMAIN p.word : p.word[o].length \in Nat
     /\ p.heads \in SUBSET DOMAIN p.word
     /\ \A o \in p.heads : RowAreaStart <= o /\ o < p.freeEnd
     /\ p.heads # {} => RowAreaStart \in p.heads
     /\ \A o \in p.heads : IsRowOn(p, o) =>
          /\ EndOf(o) \in p.heads \cup {p.freeEnd}
          /\ \A q \in p.heads : q <= o \/ EndOf(o) <= q
     /\ p.straddling \in SUBSET p.heads /\ Cardinality(p.straddling) <= Sectors - 1
     /\ p.layout = "base" => p.straddling = {}
     /\ p.layout = "protected" => Sectors > 1
     /\ \A t \in {"base", "protected"} : \A n, m \in DOMAIN words(t) :
          n # m /\ IsRowOn(p, words(t)[n]) => words(t)[n] # words(t)[m]
     /\ p.layout = "protected" => \A n \in DOMAIN words("base") :
          IsRowOn(p, words("base")[n]) =>
            \E m \in DOMAIN words("protected") : words("protected")[m] = words("base")[n]
     /\ p.layout = "base" =>
          Cardinality(keys("protected")) <= Cardinality(keys("base")) + 3

ASSUME RowPageAssumption ==
  /\ RowAreaStart \in Nat \ {0} /\ MaxSlots \in Nat
  /\ MinSlotOffset \in Nat /\ MinSlotOffset <= RowAreaStart
  /\ BoundaryKeys \in SUBSET (Nat \ {0})
  /\ HeadSize \in Nat \ {0} /\ Sectors \in Nat \ {0}
  /\ \A p \in RowPages : IsRowPage(p)

-----------------------------------------------------------------------------

VARIABLES
  rowPage, recovering,  \* the page, and whether its table is recovered
  broken,               \* rows whose head is still in the tail of the page
  layout,               \* where the slot directory was found to be
  located, verdict      \* the rows, and what the check says

pageVars == <<rowPage, recovering, broken, layout, located, verdict>>

RowWord(off) == rowPage.word[off]
IsRow(off) == IsRowOn(rowPage, off)

Magnitude(n) == IF n < 0 THEN -n ELSE n

\* The first slot with this offset
First(words, n) == \A m \in 1 .. n - 1 : words[m] # words[n]
\* Fault: the slots of the page keys are taken for rows.
UnusedZero(word) == word = 0
Unused(word) == word \in BoundaryKeys \cup {0}
InArea(word) == word >= MinSlotOffset /\ word < rowPage.freeEnd

\* What speaks for the directory being where this layout has it
Evidence(where) ==
  LET words == rowPage.slots[where]
      used == {n \in DOMAIN words : ~Unused(words[n])}
      placed == {n \in used : InArea(words[n]) /\ First(words, n)}
      rows == {n \in placed : IsRow(words[n]) /\ words[n] \notin broken}
      again == {n \in used : InArea(words[n]) /\ ~First(words, n)}
      outside == {n \in used : ~InArea(words[n])}
      keys == {n \in DOMAIN words : words[n] \in BoundaryKeys}
      empty == {n \in DOMAIN words : words[n] = 0}
      delta == Magnitude(Cardinality(rows) - rowPage.records)
  IN [rows |-> Cardinality(rows),
      invalid |-> Cardinality(used \ rows),
      delta |-> delta,
      score |-> 12 * Cardinality(keys) + 3 * Cardinality(empty) + 16 * Cardinality(rows)
                - 24 * Cardinality(outside) - 16 * Cardinality(again)
                - 12 * Cardinality(placed \ rows)
                - 8 * delta + (IF delta = 0 THEN 32 ELSE 0)]

SlotCount == Len(rowPage.slots.base)

\* inferDMPageProtectionTrailerLen
Speaks(base, protected) ==
  LET recoverable == /\ protected.rows > 0 /\ protected.invalid <= Sectors - 1
                     /\ protected.rows + protected.invalid = rowPage.records
  IN /\ protected.invalid = 0 \/ recoverable
     /\ \/ protected.delta = 0 /\ (base.invalid > 0 \/ base.delta # 0)
        \/ recoverable /\ (base.delta # 0 \/ base.invalid > protected.invalid)
        \/ protected.delta <= base.delta /\ protected.score >= base.score + 32
LooksProtected ==
  /\ Sectors > 1
  /\ SlotCount \in 1 .. MaxSlots - 1
  /\ rowPage.records \in 1 .. SlotCount
  /\ rowPage.freeEnd >= RowAreaStart
  /\ Speaks(Evidence("base"), Evidence("protected"))

SlotWords == rowPage.slots[layout]
RowDecodable(off) == IsRow(off) /\ off \notin broken

\* The slots, when their number is plausible
Slotted == IF Len(SlotWords) < MaxSlots THEN DOMAIN SlotWords ELSE {}
SlotRows == {n \in Slotted :
  RowDecodable(SlotWords[n]) /\ (recovering \/ ~RowWord(SlotWords[n]).deleted)}

\* The offsets met by going from row to row through the row area
Walk ==
  LET reached[n \in Nat] == IF n = 0 THEN RowAreaStart
                            ELSE IF reached[n - 1] = 0 \/ ~RowDecodable(reached[n - 1]) THEN 0
                            ELSE reached[n - 1] + RowWord(reached[n - 1]).length
  IN {reached[n] : n \in 0 .. Cardinality(DOMAIN rowPage.word)} \ {0}

RowAt(off, slot) ==
  [slot |-> slot, offset |-> off, length |-> RowWord(off).length,
   deleted |-> RowWord(off).deleted]

PageRows ==
  LET slotted == {SlotWords[n] : n \in SlotRows}
  IN {RowAt(SlotWords[n], n) : n \in SlotRows}
     \cup IF recovering
          THEN {RowAt(o, 0) : o \in {w \in Walk \ slotted : RowDecodable(w)}} ELSE {}

\* checkRowPageStructure
RowsOverlap(starts) ==
  \E o \in starts, p \in starts : o < p /\ p < o + RowWord(o).length
CheckRowPage ==
  LET used == {n \in DOMAIN SlotWords : ~Unused(SlotWords[n])}
      good == {n \in used : InArea(SlotWords[n]) /\ RowDecodable(SlotWords[n])
                 /\ \A m \in used : m < n => SlotWords[m] # SlotWords[n]}
      live == {n \in good : ~RowWord(SlotWords[n]).deleted}
      doubtful == good # used
  IN IF SlotCount >= MaxSlots \/ rowPage.records > SlotCount
           \/ rowPage.freeEnd < RowAreaStart THEN "damaged"
     ELSE IF rowPage.level # 0 \/ rowPage.records = 0 THEN "sound"
     ELSE IF RowsOverlap({SlotWords[n] : n \in good}) THEN "damaged"
     ELSE IF \/ Cardinality(live) = rowPage.records
             \/ /\ ~doubtful /\ Cardinality(live) <= rowPage.records
                /\ rowPage.records <= Cardinality(good)
          THEN "sound" ELSE "damaged"

RowPageInit ==
  /\ rowPage \in RowPages /\ recovering \in BOOLEAN
  /\ broken = rowPage.straddling
  /\ layout = "unknown" /\ located = <<>> /\ verdict = "none"

\* restoreUserDataPageProtectionBytes puts the bytes back where the layout
\* shows that there are some; the layout is then looked for again.
RestoreBytes ==
  /\ layout = "unknown"
  /\ broken' = IF LooksProtected THEN {} ELSE broken
  /\ layout' = "restored"
  /\ UNCHANGED <<rowPage, recovering, located, verdict>>

FindLayout ==
  /\ layout = "restored"
  /\ layout' = IF LooksProtected THEN "protected" ELSE "base"
  /\ UNCHANGED <<rowPage, recovering, broken, located, verdict>>

LocateRows ==
  /\ layout \in {"base", "protected"} /\ located = <<>>
  /\ located' = <<PageRows>>
  /\ verdict' = CheckRowPage
  /\ UNCHANGED <<rowPage, recovering, broken, layout>>

RowPageNext == RestoreBytes \/ FindLayout \/ LocateRows
RowPageSpec == RowPageInit /\ [][RowPageNext]_pageVars
-----------------------------------------------------------------------------

\* Slots may be stale and point into the middle of a row, rows may have lost
\* their slot, and a row inside the area may be damaged.  Wherever the directory
\* of a page that holds together is, its rows are all found and the page is not
\* called damaged; every row with a slot is found once; outside of a recovery no
\* deleted one is found; and a recovery finds every row up to the first damaged
\* one, and none twice (points 6 and 7 of docs/row-page-format.md).  A page whose
\* every row straddles a boundary is the exception: nothing then shows that it
\* is protected.
RowsLocatedOnce ==
  located # <<>> =>
    LET rows == located[1]
        found == {r.offset : r \in rows}
        slotted == {rowPage.slots[rowPage.layout][n] : n \in DOMAIN SlotWords}
        whole == \A o \in rowPage.heads : IsRow(o)
        before == {o \in rowPage.heads : \A p \in rowPage.heads : p <= o => IsRow(p)}
        intact == /\ whole /\ slotted \ BoundaryKeys \subseteq rowPage.heads \cup {0}
                  /\ Cardinality(slotted \cap rowPage.heads) = rowPage.records
                  /\ ~(rowPage.heads \cap slotted \subseteq rowPage.straddling)
        live == {o \in slotted \cap rowPage.heads : ~RowWord(o).deleted}
    IN /\ intact => live \subseteq found /\ verdict = "sound"
       /\ layout = rowPage.layout =>
            \A o \in slotted \cap rowPage.heads :
              IsRow(o) /\ ~RowWord(o).deleted => o \in found
       /\ ~recovering => \A r \in rows : ~r.deleted
       /\ recovering /\ broken = {} => before \subseteq found
       /\ Cardinality(found) = Cardinality(rows)
=============================================================================
