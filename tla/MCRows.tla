------------------------------- MODULE MCRows --------------------------------
(* Row pages, rows, out-of-line values and HUGE tables as TLC tries them. *)
EXTENDS RowPage, RowValues, LobChain, HugeTable, TLC

(* Row pages: rows of lengths l one after another from offset 6; the words w
   where layout t has its slots, and in the other layout the same words read one
   place off, with j where they end. *)
RowLengths == {<<3>>, <<3, 4>>, <<3, 3, 3>>}
HeadsOfRows(l) ==
  [n \in DOMAIN l |-> 6 + (IF n = 1 THEN 0 ELSE l[1]) + (IF n = 3 THEN l[2] ELSE 0)]
BackupWords == {0, 8, 60}

\* Row st straddles a sector, row bad has no length that fits, row del is deleted,
\* m: the bytes one past a head happen to look like a row
PageCase(l, w, t, j, st, bad, del, m) ==
  LET h  == HeadsOfRows(l)
      hs == Range(h)
  IN [slots      |-> [base      |-> IF t = "base" THEN w ELSE Tail(w) \o <<j>>,
                      protected |-> IF t = "protected" THEN w ELSE <<j>> \o Front(w)],
      records    |-> Cardinality(Range(w) \cap hs),
      level      |-> 0,
      freeEnd    |-> h[Len(l)] + l[Len(l)],
      layout     |-> t,
      heads      |-> hs,
      straddling |-> IF t = "protected" /\ st # 0 THEN {h[st]} ELSE {},
      word       |-> [o \in hs \cup (IF m THEN {h[1] + 1} ELSE {}) |->
         [length  |-> IF bad # 0 /\ o = h[bad] THEN 60
                      ELSE IF o \notin hs THEN 3
                      ELSE l[CHOOSE n \in DOMAIN h : h[n] = o],
          deleted |-> del # 0 /\ o = h[del]]]]
SlotWordsOf(l) ==
  LET h == HeadsOfRows(l)
  IN CASE Len(l) = 1 -> {<<h[1]>>, <<4, h[1]>>, <<h[1], h[1] + 1>>}
       [] Len(l) = 2 -> {<<h[1], h[2]>>, <<h[2], h[1]>>, <<h[1]>>, <<4, h[1], h[2]>>,
                         <<h[2], h[1] + 1>>}
       [] OTHER      -> {<<h[1], h[2], h[3]>>, <<h[3], h[1]>>, <<4, h[2], h[1], h[3]>>}
MCRowPages == UNION {UNION {
   {PageCase(l, w, t, j, h[1], h[2], h[3], m) :
      t \in {"base", "protected"}, j \in BackupWords, m \in BOOLEAN,
      h \in {x \in (0 .. Len(l)) \X (0 .. Len(l)) \X (0 .. Len(l)) : 0 \in {x[1], x[2]}}}
   : w \in SlotWordsOf(l)} : l \in RowLengths}
-----------------------------------------------------------------------------

(* Rows: each column's value as the server may have written it, the metadata
   bytes before them and the control tail after them. *)
Col(id, type, nullable) == [id |-> id, type |-> type, nullable |-> nullable, default |-> id = 3]
ControlTail(rowid) ==
  <<rowid, 0, 0, 0, 0, 0, 255, 255, 255, 255, 127, 255, 255, 9, 0, 0, 0, 0, 0>>
LocatorBytes(id) == <<2, id, 0, 0, 0, 0, 0, 0, 0, 4, 0, 0, 0, 5, 0, 0, 0, 77, 0, 0, 0>>
LobEnvelope(v) == <<1, 0, 3, 0, 0, 0, 0, 0, 0, Len(v), 0, 0, 0>> \o v
Letters(n) == [k \in 1 .. n |-> 65]

Inline(v, b) == [state |-> 0, bytes |-> b, value |-> {v}, away |-> {}]
\* A state the code does not know
Unclear == [state |-> 2, bytes |-> <<129, 97>>, value |-> {<<97>>}, away |-> {}]
NullOf(b) == [state |-> 3, bytes |-> b, value |-> {Null}, away |-> {}]
LocatedAt(id) == {[state |-> 0, bytes |-> <<149>> \o LocatorBytes(id), value |-> {}, away |-> {id}],
                  [state |-> 1, bytes |-> LocatorBytes(id), value |-> {}, away |-> {id}]}
FormsOf ==
  [int  |-> {Inline(b, b) : b \in {<<0, 0, 0, 0>>, <<1, 0, 0, 0>>, <<131, 97, 0, 0>>}}
            \cup {NullOf(<<0, 0, 0, 0>>)},
   char |-> {Inline(b, <<128 + Len(b)>> \o b) : b \in {<<>>, <<97>>, <<97, 98, 99>>, Letters(21)}}
            \cup {Inline(Letters(130), <<0, 130>> \o Letters(130)), NullOf(<<>>), Unclear}
            \cup LocatedAt(7),
   clob |-> {Inline(b, <<141 + Len(b)>> \o LobEnvelope(b)) : b \in {<<97, 98>>}}
            \cup {NullOf(<<>>)} \cup LocatedAt(8)]

\* Four states of two bits to a metadata byte
MetaByte(ws, k) ==
  LET s(n) == IF n <= Len(ws) THEN ws[n].state ELSE 0
  IN s(4*k - 3) + 4 * s(4*k - 2) + 16 * s(4*k - 1) + 64 * s(4*k)
RowBytes(ws, rowid) ==
  LET body == [k \in 1 .. MetaLength(Len(ws)) |-> MetaByte(ws, k)]
                \o FlattenSeq([n \in DOMAIN ws |-> ws[n].bytes]) \o ControlTail(rowid)
  IN <<(Len(body) + 2) \div 256, (Len(body) + 2) % 256>> \o body

RowsOf(cols, written, hist, ids) ==
  {[bytes |-> RowBytes(ws, r), columns |-> cols, historical |-> hist,
    unknown |-> \E n \in DOMAIN ws : ws[n].state = 2,
    places |-> [n \in 1 .. Len(ws) + 1 |-> 2 + MetaLength(Len(ws))
                  + Len(FlattenSeq([m \in 1 .. n - 1 |-> ws[m].bytes]))],
    stored |-> UNION {{<<cols[n].id, v>> : v \in ws[n].value} : n \in DOMAIN cols},
    away |-> UNION {{<<cols[n].id, v>> : v \in ws[n].away} : n \in DOMAIN cols}] :
   ws \in written, r \in ids}

Schema(n) == <<Col(1, "int", n), Col(2, "char", TRUE), Col(3, "clob", n)>>
MayHold(n) == {w \in FormsOf.int \X FormsOf.char \X FormsOf.clob :
                 n \/ Null \notin w[1].value \cup w[3].value}
\* Five columns need two bytes for their states
Wide == [k \in 1 .. 5 |-> Col(k, IF k < 5 THEN "int" ELSE "char", TRUE)]
WideRows == {<<v, w, v, w, x>> : v \in FormsOf.int, w \in FormsOf.int, x \in FormsOf.char}
MCRowCases == RowsOf(Wide, WideRows, TRUE, {1})
              \cup UNION {RowsOf(Schema(n), MayHold(n), h, {1, 133}) : n \in BOOLEAN, h \in BOOLEAN}
MCRowLobs == {(7 :> LobPages) @@ (8 :> LongRowPages), (7 :> Nowhere) @@ (8 :> LobPages)}
-----------------------------------------------------------------------------

(* A value on three pages, the second in another file of the group, beside the
   pages of another value; and a value in a long row. *)
LobPageOf(l, p, n) == [read |-> TRUE, mine |-> TRUE, kind |-> "lob", lob |-> l, payload |-> p,
                       record |-> <<>>, next |-> n]
LobContent == <<1, 2, 3, 4, 5>>
ValuePages == <<0, 5>> :> LobPageOf(7, <<1, 2>>, <<1, 9>>) @@
              <<1, 9>> :> LobPageOf(7, <<3>>, <<0, 6>>) @@
              <<0, 6>> :> LobPageOf(7, <<4, 5>>, <<9, 9>>) @@
              <<1, 5>> :> LobPageOf(8, <<21, 22>>, <<1, 6>>) @@
              <<1, 6>> :> LobPageOf(8, <<23>>, NoPage)
ValueAt == <<<<0, 5>>, <<1, 9>>, <<0, 6>>>>
LobHurt(p) ==
  {p, [p EXCEPT !.read = FALSE], [p EXCEPT !.mine = FALSE], [p EXCEPT !.kind = "row"],
   [p EXCEPT !.lob = 8], [p EXCEPT !.payload = <<>>]}
  \cup {[p EXCEPT !.next = r] : r \in DOMAIN ValuePages \cup {NoPage, <<5, 5>>}}
LobWorld(c, a, s) ==
  [page |-> c, files |-> {0, 1}, lob |-> 7, first |-> 5, content |-> LobContent,
   at |-> a, cut |-> IF a = <<>> THEN <<0>> ELSE <<0, 2, 3, 5>>, sound |-> s]
LongRowPage(l) == [LobPageOf(0, <<>>, NoPage) EXCEPT !.kind = "long", !.record = l]
MCLobWorlds ==
  UNION {{LobWorld([ValuePages EXCEPT ![r] = h], ValueAt, h = ValuePages[r]) :
            h \in LobHurt(ValuePages[r])} : r \in {<<0, 5>>, <<1, 9>>, <<0, 6>>}}
  \cup {LobWorld(<<0, 5>> :> LongRowPage(l) @@ <<1, 5>> :> ValuePages[<<1, 5>>], <<>>,
                    l = LobContent) :
           l \in {LobContent, <<>>}}
-----------------------------------------------------------------------------

(* A HUGE table of a fixed and a variable column: k full sections, r rows in $RAUX,
   the row ids there numbered as num says, deletes d, updates u. *)
Original(i) == <<IF i = 2 THEN NullOffset ELSE 10 + i,
                 CASE i = 3 -> NullOffset [] i = 1 -> <<>> [] OTHER -> <<20 + i, 20 + i>>>>
FixedPart(lo, n) ==
  [magic |-> TRUE, length |-> 8, type |-> "fixed", fits |-> TRUE, packed |-> "no",
   cells |-> [i \in 1 .. n |-> IF Original(lo + i)[1] = NullOffset THEN 0 ELSE Original(lo + i)[1]],
   present |-> [i \in 1 .. n |-> Original(lo + i)[1] # NullOffset], offsets |-> <<>>, bytes |-> <<>>]
VarBytes(lo, n) ==
  FlattenSeq([i \in 1 .. n |-> IF Original(lo + i)[2] = NullOffset THEN <<>> ELSE Original(lo + i)[2]])
VarPart(lo, n) ==
  [magic |-> TRUE, length |-> 9, type |-> "var", fits |-> TRUE, packed |-> "yes",
   cells |-> <<>>, present |-> <<>>, bytes |-> VarBytes(lo, n),
   offsets |-> [i \in 1 .. n + 1 |-> IF i <= n /\ Original(lo + i)[2] = NullOffset THEN NullOffset
                                     ELSE Len(VarBytes(lo, i - 1))]]
HugeFile(s, col) ==
  [regular |-> TRUE, names |-> <<77, col, 256 * s>>,
   sections |-> s :> IF col = 1 THEN FixedPart(s * SectionRows, SectionRows)
                     ELSE VarPart(s * SectionRows, SectionRows)]
HugeDir(s) == [k \in {<<1, 0>>, <<2, 0>>} |-> HugeFile(s, k[1])]
Aux(s, col) ==
  [col |-> col, section |-> s, file |-> 256 * s, count |-> SectionRows, known |-> TRUE,
   length |-> IF col = 1 THEN 8 ELSE 0, packed |-> col = 2,
   nulls |-> IF col = 1 THEN NullCells(FixedPart(s * SectionRows, SectionRows)) ELSE 0]
AuxOf(k) == IF k = 0 THEN <<[Aux(0, 1) EXCEPT !.file = -1]>>
            ELSE [n \in 1 .. 2 * k |-> Aux((n - 1) \div 2, 1 + ((n - 1) % 2))]

\* The rows of ids 1 .. n that are left, with the values of U put in
HugeLive(n, D, U) ==
  LET left == SelectSeq([i \in 1 .. n |-> i], LAMBDA i : i \notin D)
  IN [j \in DOMAIN left |-> [c \in 1 .. 2 |->
        IF <<left[j], c>> \in DOMAIN U THEN U[<<left[j], c>>] ELSE Original(left[j])[c]]]
HugeStored(rows) == [broken |-> FALSE, rows |-> rows]
RauxRows(k, r, num) ==
  [j \in 1 .. r |-> [values |-> Original(k * SectionRows + j),
     id |-> CASE num = "table" -> k * SectionRows + j [] num = "own" -> j [] OTHER -> 0]]
HugeRanges(d) == [n \in DOMAIN d |-> [start |-> d[n][1], count |-> d[n][2]]]
\* <<the deleted row ids, the ranges of $DAUX that say so>>
DelCases == {<<{}, <<>>>>, <<{1}, <<<<1, 1>>>>>>, <<{2, 3, 4}, <<<<3, 2>>, <<2, 1>>, <<3, 1>>>>>>,
             <<{1, 4}, <<<<4, 1>>, <<1, 1>>, <<0, 1>>>>>>, <<{1, 2, 3, 4}, <<<<1, 4>>, <<2, 1>>>>>>,
             <<{5}, <<<<5, 1>>>>>>}
UpCases == {<<>>, <<<<2, 1, 99>>>>, <<<<5, 2, <<7>>>>, <<5, 2, NullOffset>>, <<3, 1, 88>>>>}
UpRows(u) == [n \in DOMAIN u |-> [id |-> u[n][1], col |-> u[n][2], value |-> u[n][3]]]
HugeBase(k, r, num, d, u, lim, how) ==
  LET n == k * SectionRows + r
      all == {"AUX", "RAUX", "DAUX", "UAUX"}
  IN [table |-> 77, type |-> <<"fixed", "var">>, tables |-> all,
      assists |-> [t \in all |-> CASE t = "AUX" -> <<30, 40>>
                                   [] t = "RAUX" /\ how = "assist" -> <<31, 41>>
                                   [] OTHER -> <<>>],
      assistId |-> [t \in all |-> IF t = "DAUX" THEN 42 ELSE 0],
      stored |-> 30 :> HugeStored(<<>>) @@ 31 :> HugeStored(RauxRows(k, 1, "own")) @@
                 40 :> HugeStored(IF n = 0 THEN <<>> ELSE AuxOf(k)) @@
                 41 :> HugeStored(RauxRows(k, r, num)) @@ 42 :> HugeStored(HugeRanges(d[2])) @@
                 43 :> HugeStored(UpRows(u)),
      dirs |-> [s \in 1 .. k |-> HugeDir(s - 1)],
      own |-> "AUX" :> 40 @@ "RAUX" :> 41 @@ "DAUX" :> 42 @@ "UAUX" :> 43,
      written |-> [i \in 1 .. n |-> Original(i)], gone |-> d[1], changed |-> UpdatesOf(UpRows(u)),
      live |-> HugeLive(n, d[1], UpdatesOf(UpRows(u))), maxRows |-> lim, sound |-> TRUE]

\* What may be wrong with a section, and with a table of two sections
Unsound(w) == [w EXCEPT !.sound = FALSE]
HurtSection(s) ==
  {[s EXCEPT !.magic = FALSE], [s EXCEPT !.fits = FALSE], [s EXCEPT !.type = "other"],
   [s EXCEPT !.packed = "odd"]}
  \cup IF s.type = "fixed"
       THEN {[s EXCEPT !.cells[2] = Undecodable], [s EXCEPT !.cells = <<1>>],
             [s EXCEPT !.present[1] = FALSE], [s EXCEPT !.length = 5]}
       ELSE {[s EXCEPT !.offsets[3] = 9], [s EXCEPT !.offsets = <<0, 1>>]}
HurtColumn(w, d, c) ==
  {[w EXCEPT !.dirs[d][<<c, 0>>].sections = (d - 1) :> h] :
     h \in HurtSection(w.dirs[d][<<c, 0>>].sections[d - 1])}
HugeHurt(w) ==
  {[w EXCEPT !.dirs = w.dirs \o <<[f \in {<<1, 0>>} |-> [w.dirs[1][f] EXCEPT !.names[1] = 78]]>>],
   [w EXCEPT !.stored[40].rows = <<[Aux(0, 1) EXCEPT !.file = 512, !.count = 0, !.nulls = 0]>> \o @]}
  \cup {Unsound(x) : x \in
     HurtColumn(w, 1, 1) \cup HurtColumn(w, 2, 2)
     \cup {[w EXCEPT !.dirs = ds] : ds \in {<<>>, <<w.dirs[1]>>, Append(w.dirs, w.dirs[2])}}
     \cup {[w EXCEPT !.stored[s].broken = TRUE] : s \in 40 .. 43}
     \cup {[w EXCEPT !.dirs[1][<<1, 0>>].regular = FALSE],
           [w EXCEPT !.stored[40].rows = Tail(@)],
           [w EXCEPT !.stored[40].rows[2].known = FALSE],
           [w EXCEPT !.stored[40].rows[2].count = 1],
           [w EXCEPT !.stored[40].rows[2].file = -2],
           [w EXCEPT !.stored[40].rows = Append(@, [Aux(0, 1) EXCEPT !.section = -1])],
           [w EXCEPT !.stored[40].rows = Append(@, [Aux(0, 1) EXCEPT !.count = -1])],
           [w EXCEPT !.stored[40].rows[1].nulls = SectionRows + 1],
           [w EXCEPT !.stored[43].rows = <<[id |-> 1, col |-> 9, value |-> 1]>>]}}
MCHugeTables ==
  {HugeBase(k, r, num, d, u, lim, how) :
     k \in 0 .. 2, r \in 0 .. 2, num \in {"table", "own", "place"}, d \in DelCases, u \in UpCases,
     lim \in {0, 2}, how \in {"assist", "next"}}
  \cup HugeHurt(HugeBase(2, 1, "table", <<{1}, <<<<1, 1>>>>>>, <<>>, 0, "next"))
=============================================================================
