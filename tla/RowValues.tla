------------------------------- MODULE RowValues -----------------------------
(***************************************************************************)
(* From the bytes of a row to its values (parseDataRowValues in            *)
(* data_row.go, data_variable.go, data_lob.go): by the column states in    *)
(* the row, else by trying offsets, else with fewer columns.               *)
(*                                                                         *)
(* A row is a sequence of bytes, positions are counted from 0 as in the    *)
(* code.  A column is a record [id, type, nullable, default], default      *)
(* saying whether it has one: "int" stands for the types of fixed size,    *)
(* "char" for the variable ones and "clob" for those that may be out of    *)
(* line.  The value of an int or a char is its bytes.                      *)
(***************************************************************************)
EXTENDS Selection

CONSTANTS
  RowCases,   \* rows TLC tries: records [bytes, columns, historical, unknown,
              \* stored, away, places], stored and away what was written in and
              \* out of line, places where each of all columns begins
  LobStores,  \* functions from a lob id to where it can be read
  Null        \* the value of a column that is NULL

IntSize == 4           \* size of the fixed columns
LocatorSize == 21
EnvelopeSize == 13

\* Where a value out of line can be read
LobPages == -1
LongRowPages == -2
Nowhere == 0

VARIABLES
  rowCase, lobs,  \* the row, and where its values out of line can be read
  trying,         \* the columns it is taken to have
  rowPhase,       \* the way to read it that is tried next
  parsed          \* empty until the result is known

rowVars == <<rowCase, lobs, trying, rowPhase, parsed>>

Error == [ok |-> FALSE, refused |-> FALSE]
Refusal == [ok |-> FALSE, refused |-> TRUE]   \* errUnsupportedRowMetadataState
Value(v, next) == [ok |-> TRUE, value |-> v, next |-> next]

Byte(row, pos) == row[pos + 1]
Slice(row, from, to) == SubSeq(row, from + 1, to)   \* row[from:to]
Little(bytes) == FoldRight(LAMBDA b, n : b + 256 * n, bytes, 0)
Big(row, pos) == 256 * Byte(row, pos) + Byte(row, pos + 1)

-----------------------------------------------------------------------------
(* Values of variable length and out of line *)

\* readShortDataBytesWithMarker: 0x80 is the empty value, a lower byte starts
\* a length of two bytes, a higher one is a length by itself.
Bytes(row, from, n) ==
  IF from + n > Len(row) THEN Error ELSE Value(Slice(row, from, from + n), from + n)
ShortBytes(row, pos) ==
  IF pos >= Len(row) THEN Error
  ELSE LET marker == Byte(row, pos) IN
    CASE marker = 128 -> Value(<<>>, pos + 1)
      [] marker < 128 -> IF pos + 2 > Len(row) \/ Big(row, pos) = 0 THEN Error
                         ELSE Bytes(row, pos + 2, Big(row, pos))
      [] marker \in 129 .. 254 -> Bytes(row, pos + 1, marker - 128)
      [] OTHER -> Error

\* decode and containsBadControl: no control character, and no byte that no
\* character set has.
Decodable(raw) ==
  \A n \in DOMAIN raw : raw[n] \in {9, 10, 13} \cup (32 .. 254)
Text(raw, next) == IF Decodable(raw) THEN Value(raw, next) ELSE Error

\* parseDMLOBLocatorRaw
Locator(raw) ==
  /\ Len(raw) = LocatorSize /\ raw[1] = 2
  /\ \A f \in {<<2, 5>>, <<14, 17>>, <<18, 21>>} : \E n \in f[1] .. f[2] : raw[n] # 0
LobId(raw) == Little(SubSeq(raw, 2, 5))

\* lazyLOBValue, then readLongRowPayload; readTextLOBOrLongRowPayload
OutOfLine(raw, next) ==
  IF Locator(raw) /\ LobId(raw) \in DOMAIN lobs /\ lobs[LobId(raw)] # Nowhere
  THEN Value(<<lobs[LobId(raw)], LobId(raw)>>, next) ELSE Error

\* unwrapInlineLOBPayload
Enveloped(raw) ==
  /\ Len(raw) >= EnvelopeSize /\ raw[1] = 1 /\ raw[3] \in {3, 4}
  /\ Little(SubSeq(raw, 10, EnvelopeSize)) = Len(raw) - EnvelopeSize

\* readVariableDataValue, readInlineTextLOB
Held(col, short) ==
  IF ~short.ok THEN Error
  ELSE CASE col.type = "clob" /\ Enveloped(short.value) ->
              Text(SubSeq(short.value, EnvelopeSize + 1, Len(short.value)), short.next)
         [] ~(col.type = "clob" /\ Enveloped(short.value)) /\ Locator(short.value) ->
              OutOfLine(short.value, short.next)
         [] OTHER -> Text(short.value, short.next)

Fixed(col) == col.type = "int"
InRow(col, row, pos) ==
  IF Fixed(col) THEN Bytes(row, pos, IntSize) ELSE Held(col, ShortBytes(row, pos))

\* readOutOfLineDataValue: a bare locator, for which there is no fixed type
BareLocator(col, raw) ==
  IF Fixed(col) \/ ~raw.ok THEN Error ELSE OutOfLine(raw.value, raw.next)
OrElse(v, w) == IF v.ok THEN v ELSE w

\* canOmitTrailingNullVars: a guess that only the control tail is left
MayOmit(row, pos, cols) ==
  /\ pos < Len(row) /\ cols # <<>>
  /\ \A n \in DOMAIN cols : cols[n].nullable
  /\ Len(row) - pos \in 8 .. 64
  /\ Byte(row, pos) < 128

-----------------------------------------------------------------------------
(* The two ways to read a row *)

\* dataStorageColumns, rowMetadataLength, decodeRowColumnStates
FixedOnes(columns) == {c \in ToSet(columns) : Fixed(c)}
StorageOrder(columns) ==
  Kept(columns, FixedOnes(columns)) \o Kept(columns, ToSet(columns) \ FixedOnes(columns))
MetaLength(n) == (n + 3) \div 4
State(row, n) == (Byte(row, 2 + (n - 1) \div 4) \div 4 ^ ((n - 1) % 4)) % 4

\* Where reading stands after some columns: the position and the values
Parsing(pos, values) == [ok |-> TRUE, next |-> pos, values |-> values]
With(p, col, v) ==
  IF v.ok THEN Parsing(v.next, Append(p.values, <<col.id, v.value>>)) ELSE v
AllNull(p, cols) ==
  Parsing(p.next, p.values \o [n \in DOMAIN cols |-> <<cols[n].id, Null>>])

\* Fault: NULL takes no room in any column.
NoRoom(col) == 0
\* The bytes of a column that is NULL
NullRoom(col) == IF Fixed(col) THEN IntSize ELSE 0

\* One column whose state is 0 .. 3
StateValue(col, row, pos, state) ==
  CASE state = 3 -> IF pos + NullRoom(col) > Len(row) THEN Error
                    ELSE Value(Null, pos + NullRoom(col))
    [] state = 2 -> Refusal
    [] state = 1 -> OrElse(InRow(col, row, pos), BareLocator(col, Bytes(row, pos, LocatorSize)))
    [] OTHER -> InRow(col, row, pos)

\* One column more: when it cannot be read, the rest may count as omitted.
Advance(row, p, cols, n, v, omissible) ==
  LET rest == SubSeq(cols, n, Len(cols))
  IN IF ~v.ok /\ omissible /\ ~Fixed(cols[n]) /\ MayOmit(row, p.next, rest)
     THEN AllNull(p, rest) ELSE With(p, cols[n], v)

\* What is left after the last column is the control tail.
Ending(row, p, left) == IF p.ok /\ Len(row) - p.next \notin left THEN Error ELSE p

\* parseDataRowValuesWithMetadata
WithMetadata(row, columns) ==
  LET cols == StorageOrder(columns)
      start == 2 + MetaLength(Len(cols))
      read[n \in 0 .. Len(cols)] ==
        IF n = 0 THEN Parsing(start, <<>>)
        ELSE LET p == read[n - 1] IN
          IF ~p.ok \/ Len(p.values) >= n THEN p
          ELSE Advance(row, p, cols, n, StateValue(cols[n], row, p.next, State(row, n)),
                       State(row, n) = 0)
  IN IF Len(row) < start THEN Error ELSE Ending(row, read[Len(cols)], 0 .. 64)

\* One attempt of parseDataRowValuesHeuristic
Attempt(row, columns, start) ==
  LET cols == StorageOrder(columns)
      read[n \in 0 .. Len(cols)] ==
        IF n = 0 THEN Parsing(start, <<>>)
        ELSE LET p == read[n - 1] IN
          IF ~p.ok \/ Len(p.values) >= n THEN p
          ELSE Advance(row, p, cols, n, InRow(cols[n], row, p.next), TRUE)
  IN Ending(row, read[Len(cols)], {0} \cup (8 .. 64))

\* markTrailingNullableZeroFixedValues: once values were taken to be omitted,
\* zeros before them are taken for NULL, too.
ZerosToNull(p, columns) ==
  LET fixed == Kept(columns, FixedOnes(columns))
      Zero(n) == fixed[n].nullable /\ p.values[n][2] = <<0, 0, 0, 0>>
      Omitted == \E n \in DOMAIN p.values : ~(n \in DOMAIN fixed) /\ p.values[n][2] = Null
  IN [p EXCEPT !.values = [n \in DOMAIN p.values |->
        IF Omitted /\ n \in DOMAIN fixed /\ \A m \in n .. Len(fixed) : Zero(m)
        THEN <<p.values[n][1], Null>> ELSE p.values[n]]]

\* The attempt with the fewest bytes left over wins, an early start counting
\* four bytes.
Best(row, columns, attempts) ==
  LET good == {s \in DOMAIN attempts : attempts[s].ok}
      score(s) == 100 - (Len(row) - attempts[s].next) - 4 * s
      best == CHOOSE s \in good : \A t \in good :
                score(t) < score(s) \/ (score(t) = score(s) /\ s <= t)
  IN IF good = {} THEN Error ELSE ZerosToNull(attempts[best], columns)
Heuristic(row, columns) ==
  LET last == IF Len(row) < 16 THEN Len(row) - 1 ELSE 15
  IN Best(row, columns, [s \in 3 .. last |-> Attempt(row, columns, s)])

\* historicalColumnPrefixes: columns may be missing from the end as long as
\* they could have been added later: a NULL or a default stands for them.
OlderColumns(columns) ==
  {SubSeq(columns, 1, n) : n \in {m \in 1 .. Len(columns) - 1 :
     \A k \in m + 1 .. Len(columns) : columns[k].nullable \/ columns[k].default}}

-----------------------------------------------------------------------------
(* What a row can be *)

\* A short value from a position up to another, by its marker, and what it is
ShortFits(row, from, to) ==
  LET marker == Byte(row, from)
  IN /\ from < to /\ to <= Len(row)
     /\ \/ marker \in 128 .. 254 /\ to = from + 1 + (marker - 128)
        \/ marker < 128 /\ from + 2 < to /\ to = from + 2 + Big(row, from)
ShortAt(row, from, to) == Slice(row, IF Byte(row, from) < 128 THEN from + 2 ELSE from + 1, to)
Inner(col, raw) ==
  IF col.type = "clob" /\ Enveloped(raw) THEN SubSeq(raw, EnvelopeSize + 1, Len(raw)) ELSE raw
\* A group has no number of four full bytes, and an id does not begin like an envelope
LocatorOf(raw) == Locator(raw) /\ raw[17] = 0 /\ ~(raw[3] = 1 /\ raw[5] \in {3, 4})

\* One column as the server writes it, from its position up to the next: NULL,
\* in the row, with a locator in its place, or in a state nobody knows
ColumnWritten(c, col, state, from, to) ==
  LET row == c.bytes
      raw == ShortAt(row, from, to)
  IN \/ /\ state = 3 /\ to = from + IF Fixed(col) THEN IntSize ELSE 0
        /\ to <= Len(row) /\ <<col.id, Null>> \in c.stored
     \/ state = 2 /\ c.unknown
     \/ /\ state = 1 /\ ~Fixed(col) /\ to = from + LocatorSize /\ to <= Len(row)
        /\ LocatorOf(Slice(row, from, to)) /\ <<col.id, LobId(Slice(row, from, to))>> \in c.away
     \/ /\ state = 0 /\ Fixed(col) /\ to = from + IntSize /\ to <= Len(row)
        /\ <<col.id, Slice(row, from, to)>> \in c.stored
     \/ /\ state = 0 /\ ~Fixed(col) /\ ShortFits(row, from, to)
        /\ \/ LocatorOf(raw) /\ <<col.id, LobId(raw)>> \in c.away
           \/ Decodable(Inner(col, raw)) /\ <<col.id, Inner(col, raw)>> \in c.stored

\* A row with a value for each column has them one after another.  Of other rows,
\* those of a table with fewer columns, nothing is said.
IsRowCase(c) ==
  LET cols == StorageOrder(c.columns)
      written == c.stored \cup c.away
  IN /\ c.columns \in Seq([id : Nat, type : {"int", "char", "clob"}, nullable : BOOLEAN,
                          default : BOOLEAN])
     /\ c.bytes \in Seq(0 .. 255) /\ c.unknown \in BOOLEAN
     /\ \A a \in c.away : \A l \in LobStores : a[2] \in DOMAIN l
     /\ {w[1] : w \in written} = {x.id : x \in ToSet(c.columns)} =>
          /\ c.places \in Seq(0 .. Len(c.bytes)) /\ Len(c.places) = Len(cols) + 1
          /\ c.places[1] = 2 + MetaLength(Len(cols))
          /\ \A n \in DOMAIN cols :
               ColumnWritten(c, cols[n], State(c.bytes, n), c.places[n], c.places[n + 1])
          /\ c.unknown => \E n \in DOMAIN cols : State(c.bytes, n) = 2
          /\ Len(c.bytes) - Last(c.places) \in 0 .. 64
          /\ \A v, w \in c.stored : v[1] = w[1] => v = w
          /\ \A v, w \in c.away : v[1] = w[1] => v = w
          /\ \A v \in c.stored, w \in c.away : v[1] # w[1]
          /\ \A w \in written : w = <<w[1], w[2]>>

ASSUME RowAssumption == \A c \in RowCases : IsRowCase(c)

-----------------------------------------------------------------------------

RowInit ==
  /\ rowCase \in RowCases
  /\ lobs \in LobStores
  /\ trying = rowCase.columns /\ rowPhase = "states" /\ parsed = <<>>

\* A state nobody knows ends the parse, unless fewer columns are tried already.
Settle(p, next) ==
  /\ IF p.ok \/ (p.refused /\ trying = rowCase.columns)
     THEN parsed' = <<p>> /\ rowPhase' = "done"
     ELSE rowPhase' = (IF p.refused THEN "older" ELSE next) /\ UNCHANGED parsed
  /\ UNCHANGED <<rowCase, lobs, trying>>

\* parseDataRowValuesForColumns
ByStates ==
  rowPhase = "states" /\ Settle(WithMetadata(rowCase.bytes, trying), "offsets")
ByOffsets ==
  rowPhase = "offsets" /\ Settle(Heuristic(rowCase.bytes, trying), "older")

\* parseDataRowValues: longer prefixes before shorter ones
FewerColumns ==
  LET shorter == {c \in OlderColumns(rowCase.columns) :
                    rowCase.historical /\ Len(c) < Len(trying)}
  IN /\ rowPhase = "older"
     /\ IF shorter = {}
        THEN parsed' = <<Error>> /\ rowPhase' = "done" /\ UNCHANGED trying
        ELSE /\ trying' = CHOOSE c \in shorter : \A d \in shorter : Len(d) <= Len(c)
             /\ rowPhase' = "states" /\ UNCHANGED parsed
     /\ UNCHANGED <<rowCase, lobs>>

RowNext == ByStates \/ ByOffsets \/ FewerColumns
RowSpec == RowInit /\ [][RowNext]_rowVars

-----------------------------------------------------------------------------

\* What was written: pairs of a column and its value
Meant == rowCase.stored \cup {<<a[1], <<lobs[a[2]], a[2]>>>> : a \in rowCase.away}
MeantIds == {m[1] : m \in Meant}
Lost == \E a \in rowCase.away : lobs[a[2]] = Nowhere
Whole == MeantIds = {c.id : c \in ToSet(rowCase.columns)}

\* A row of the present columns whose values out of line can be read is
\* exported with exactly the values stored, whatever its bytes look like; one
\* in an unknown state is refused (parseDataRowValuesForColumns, and point 8
\* of docs/row-page-format.md, "current parsing path").
PresentRowsExact ==
  parsed # <<>> /\ Whole /\ ~Lost =>
    IF rowCase.unknown THEN ~parsed[1].ok
    ELSE parsed[1].ok /\ ToSet(parsed[1].values) = Meant

\* Whatever is exported of a row is what was written in it, and NULL is
\* exported for a column only when its state says NULL or the row lacks it
\* (docs/row-page-format.md, "NULL is expressed by the column metadata").
RowsExact ==
  parsed # <<>> /\ parsed[1].ok =>
    \A v \in ToSet(parsed[1].values) :
      v \in Meant \/ (v[2] = Null /\ v[1] \notin MeantIds)
=============================================================================
