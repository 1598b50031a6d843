------------------------------ MODULE MCSystem -------------------------------
(* Contents of SYSTEM.DBF, probed files, checked files and raw files as TLC
   tries them. *)
EXTENDS SystemCatalog, PageGeometry, PageCheck, StorageRescue, OfflineCopy, OutputFiles, TLC

(* SYSTEM.DBF: pages 1 and 2 hold the objects, 3 the indexes, 4 and 5 the columns, 6
   the texts, 7 is abandoned and holds older rows, 8 is of a secondary index. *)
CatObject(id, slot, class, name, parent) ==
  [kind |-> "object", id |-> id, slot |-> slot, class |-> class, name |-> name, parent |-> parent]
CatIndex(id, slot, root, cl) ==
  [kind |-> "index", id |-> id, slot |-> slot, root |-> root, clustered |-> cl,
   keys |-> IF cl THEN 0 ELSE 1, plain |-> ~cl]
CatRow(kind, id, slot, len) == [kind |-> kind, id |-> id, slot |-> slot, len |-> len]
CatBase ==
  [pages |-> 8, misfiled |-> {},
   rows |-> <<
     {CatObject(0, 1, "system", "SYSOBJECTS", 9), CatObject(2, 2, "system", "SYSCOLUMNS", 9),
      CatObject(5, 3, "system", "SYSTEXTS", 9)},
     {CatObject(20, 1, "index", "", 2), CatObject(21, 2, "index", "", 2),
      CatObject(22, 3, "index", "", 5), CatObject(30, 4, "user", "T", 9)},
     {CatIndex(20, 1, 4, TRUE), CatIndex(21, 2, 8, FALSE), CatIndex(22, 3, 6, TRUE)},
     {CatRow("SYSCOLUMNS", 1, 1, 0)},
     {CatRow("SYSCOLUMNS", 2, 1, 0)},
     {CatRow("SYSTEXTS", 1, 1, 2), CatRow("SYSTEXTS", 2, 2, 1)},
     {CatRow("SYSCOLUMNS", 3, 1, 0), CatRow("SYSTEXTS", 1, 2, 3),
      CatObject(30, 4, "user", "OLD", 9), CatIndex(22, 9, 7, TRUE)},
     {}>>,
   tree |-> 1 :> {1, 2} @@ 3 :> {3} @@ 4 :> {4, 5} @@ 6 :> {6} @@ 8 :> {8} @@ 7 :> {7},
   anchors |-> [objects |-> 1, indexes |-> 3],
   live |-> [object |-> {1, 2}, index |-> {3}, SYSCOLUMNS |-> {4, 5}, SYSTEXTS |-> {6}],
   sources |-> {[first |-> 2, last |-> 4], [first |-> 3, last |-> 4], [first |-> 4, last |-> 7],
                [first |-> 8, last |-> 8]}]
MCFiles0 ==
  {CatBase} \cup {[CatBase EXCEPT !.misfiled = {p}] : p \in 1 .. 8}
  \cup {[CatBase EXCEPT !.anchors.objects = p] : p \in 0 .. 8}
  \cup {[CatBase EXCEPT !.anchors.indexes = p] : p \in {0, 1, 2, 4, 5, 6, 8}}
  \cup {[CatBase EXCEPT !.rows[1] = {r \in @ : r.id # i}] : i \in {0, 2, 5}}
  \cup {[CatBase EXCEPT !.rows[2] = {r \in @ : r.id # i}] : i \in {21, 22, 30}}
MCReads == <<"SYSCOLUMNS", "SYSTEXTS">>
MCRequired == {<<0, "SYSOBJECTS">>, <<2, "SYSCOLUMNS">>}
-----------------------------------------------------------------------------

(* A probed file of four pages after its header: those of D hold what none of x does *)
GoodPage(m) == [number |-> m, key |-> "own", verified |-> TRUE]
OddPages == {[m \in 1 .. 4 |-> [GoodPage(m) EXCEPT !.verified = FALSE]],
             [m \in 1 .. 4 |-> [GoodPage(m) EXCEPT !.number = 2 * m]],
             [m \in 1 .. 4 |-> [GoodPage(m) EXCEPT !.number = 0]]}
ProbePages == {[m \in 1 .. 4 |-> IF m \in D THEN x[m] ELSE GoodPage(m)] :
                 D \in {{}, {1}, {2, 3}, 1 .. 4}, x \in OddPages}
MCProbed ==
  {f \in [truth : {1, 2}, header : {0, 1, 2, 4}, units : {2, 10}, pages : ProbePages,
          old : {{}, {<<1, 5>>, <<1, 7>>}, {<<1, 3>>, <<1, 5>>, <<1, 7>>}}, bad : {{}, {3}}] :
     f.truth = 2 \/ f.old = {}}
-----------------------------------------------------------------------------

(* Checked files: pages that are free, sound, or damaged in one way each *)
CheckPg(k, h, b, s, snd, st, hm) ==
  [kind |-> k, head |-> h, blank |-> b, sum |-> s, sound |-> snd, storage |-> st, harmed |-> hm]
FreePage == CheckPg("zero", "zero", TRUE, TRUE, TRUE, 0, FALSE)
WipedPage == CheckPg("zero", "own", TRUE, TRUE, TRUE, 0, TRUE)
TornRow(s) == CheckPg("row", "own", FALSE, TRUE, FALSE, s, TRUE)
HarmedPages == {WipedPage, TornRow(9), TornRow(3), CheckPg("row", "other", FALSE, FALSE, TRUE, 1, TRUE),
                CheckPg("row", "own", FALSE, FALSE, TRUE, 2, TRUE)}
CheckPages == {FreePage, CheckPg("row", "own", FALSE, TRUE, TRUE, 1, FALSE),
               CheckPg("metadata", "own", FALSE, FALSE, TRUE, 0, FALSE),
               CheckPg("other", "fill", TRUE, FALSE, TRUE, 0, FALSE)} \cup HarmedPages
TableOf(n, i, s, a, f, b, ch, ow) ==
  [name |-> n, id |-> i, storage |-> s, assists |-> a, file |-> 1, first |-> f, blocks |-> b,
   chain |-> ch, owner |-> ow, temporary |-> FALSE]
TableSets == {{TableOf("t", 11, 1, {2}, 1, 2, "broken", "u"),
               TableOf("x", 12, 3, {}, 2, 2, "sound", "u")},
              {TableOf("t", 11, 1, {3}, 1, 1, "sound", "u"),
               TableOf("x", 11, 3, {}, 2, 0, "root", "gone")}}
CheckWorld(files, t, u) ==
  [files |-> files, tables |-> t, used |-> u, owners |-> {"u"}, columns |-> {11, 13}]
CheckFile(pages, fa, c) == [pages |-> pages, failsAt |-> fa, cut |-> c]
MCCheckWorlds ==
  {CheckWorld(<<CheckFile(<<a, b, d>>, 0, FALSE), CheckFile(<<TornRow(1)>>, 0, FALSE)>>, t, TRUE) :
     a \in CheckPages, b \in CheckPages, d \in HarmedPages, t \in TableSets}
  \cup {CheckWorld(<<CheckFile(<<WipedPage, FreePage>>, fa, c)>>, t, u) :
          fa \in 0 .. 2, c \in BOOLEAN, t \in TableSets, u \in BOOLEAN}
-----------------------------------------------------------------------------

(* Raw files: two files of group 4 whose pages belong to storages 7 and 9 *)
RawRow(i, slotted, fits) ==
  [id |-> i, slotted |-> slotted, deleted |-> FALSE, fits |-> fits, renders |-> TRUE]
RawPage(n, f, st, snd, rows) ==
  [number |-> n, group |-> 4, file |-> f, kind |-> "row", storage |-> st, level |-> 0,
   sound |-> snd, blank |-> FALSE, rows |-> rows]
RawFile(pages) == [link |-> FALSE, cut |-> FALSE, pageSize |-> 1, pages |-> pages]
RawFile1(snd, r) ==
  RawFile(<<RawPage(1, 0, 7, TRUE, <<RawRow("a", TRUE, TRUE), RawRow("b", TRUE, FALSE),
                                     RawRow("c", FALSE, TRUE)>>),
            RawPage(2, 0, 7, snd, r),
            [RawPage(0, 0, 7, TRUE, r) EXCEPT !.blank = TRUE]>>)
RawFile2(f) ==
  RawFile(<<RawPage(1, 1, 7, TRUE, <<RawRow("e", TRUE, TRUE)>>), RawPage(2, f, 9, FALSE, <<>>),
            RawPage(7, 3, 9, TRUE, <<>>)>>)
RawWorld(files, st, re, fm, a) ==
  [files |-> files, group |-> 4, storage |-> st, residual |-> re, format |-> fm, asked |-> a]
MCRawWorlds ==
  {RawWorld(<<RawFile1(snd, <<RawRow("d", TRUE, TRUE)>>), RawFile2(f)>>, 7, re, fm, a) :
     snd \in BOOLEAN, f \in {0, 1}, re \in BOOLEAN, fm \in {"sql", "fldr"}, a \in {"scan", "recover"}}
  \cup {RawWorld(<<RawFile1(TRUE, <<>>)>>, 8, FALSE, "sql", "recover")}
  \cup {RawWorld(<<[RawFile1(TRUE, <<>>) EXCEPT !.pages[2].kind = k, !.cut = c],
                   [RawFile2(1) EXCEPT !.cut = TRUE]>>, 7, FALSE, "sql", "scan") :
           k \in {"lob", "undo"}, c \in BOOLEAN}
-----------------------------------------------------------------------------

\* A copy takes three files
MCSources == <<"A", "B", "C">>
=============================================================================
