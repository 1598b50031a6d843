------------------------------- MODULE PageCheck -----------------------------
(***************************************************************************)
(* The check of the data files for damaged pages: page by page, with every *)
(* damaged page attributed to the object of the dictionary it belongs to,  *)
(* streamed to the report, and added to exact totals                       *)
(* (CheckPages, page_check_scan.go, page_check_scoped.go,                  *)
(* page_check_impact.go).                                                  *)
(***************************************************************************)
EXTENDS Integers, Sequences, FiniteSets, FiniteSetsExt

CONSTANTS
  CheckWorlds,  \* what TLC tries: records [files, tables, used]
  CheckMode,    \* PAGE_CHECK: 0 checks no checksum
  MaxReported,  \* of the damaged pages of a file that many are kept
  NoObject

\* isEmptyDMPage: no kind and no head
IsEmpty(p) == p.kind = "zero" /\ p.head = "zero"
\* isFileMetadataCheckPage
IsMetadata(p) == p.kind = "metadata"

\* classifyPageCorruption, from the most fundamental layer on
Corruption(p) ==
  CASE p.head # "own" -> IF p.head = "fill" THEN "none" ELSE "HEADER"
    [] p.head = "own" /\ p.blank -> IF p.kind = "zero" THEN "HEADER" ELSE "none"
    [] p.head = "own" /\ ~p.blank ->
         IF CheckMode # 0 /\ ~IsMetadata(p) /\ ~p.sum THEN "CHECKSUM"
         ELSE IF p.kind = "row" /\ ~p.sound THEN "STRUCTURE" ELSE "none"

IsDamaged(p) == ~IsEmpty(p) /\ Corruption(p) # "none"

\* A world: what stands at each place of each file, where a read fails, whether
\* the file ends too early, and the tables.  What is harmed shows it.
PageState == [kind : STRING, head : STRING, blank : BOOLEAN, sum : BOOLEAN,
              sound : BOOLEAN, storage : Nat, harmed : BOOLEAN]
FileState == [pages : Seq(PageState), failsAt : Nat, cut : BOOLEAN]
IsCheckWorld(w) ==
  /\ w.files \in Seq(FileState) /\ IsFiniteSet(w.tables)
  /\ \A f \in DOMAIN w.files : \A n \in DOMAIN w.files[f].pages :
       w.files[f].pages[n].harmed <=> IsDamaged(w.files[f].pages[n])

ASSUME CheckAssumption ==
  /\ CheckMode \in 0 .. 3 /\ MaxReported \in Nat \ {0}
  /\ \A w \in CheckWorlds : IsCheckWorld(w)

VARIABLES disks, cursor, counts, impact, stream, kept, report

checkVars == <<disks, cursor, counts, impact, stream, kept, report>>

DiskFiles == disks.files
Tables == disks.tables
CheckedPage == DiskFiles[cursor.file].pages[cursor.page]

\* newPageAttribution: the objects a storage id stands for, and the page ranges
\* of the tables
Objects(s) ==
  {[table |-> t.name, storage |-> s, type |-> "TABLE", by |-> "storage", sure |-> 2] :
     t \in {u \in Tables : s # 0 /\ u.storage = s}}
  \cup {[table |-> t.name, storage |-> s, type |-> "ASSIST", by |-> "assist", sure |-> 2] :
     t \in {u \in Tables : s # 0 /\ s \in u.assists /\ s # u.storage}}
InRange(f, n) ==
  {[table |-> t.name, storage |-> t.storage, type |-> "TABLE", by |-> "range", sure |-> 1] :
     t \in {u \in Tables : u.blocks > 0 /\ u.file = f /\ n >= u.first /\ n < u.first + u.blocks}}

Unowned(why) == [table |-> NoObject, storage |-> 0, type |-> "NONE", by |-> why, sure |-> 0]
TheOne(S) == CHOOSE x \in S : TRUE

\* apply: by the storage id in the page, else by the range it lies in
Attribution(f, n, s) ==
  LET objects == Objects(s)  ranged == InRange(f, n)
  IN IF ~disks.used THEN Unowned("no dictionary")
     ELSE IF Cardinality(objects) = 1 THEN TheOne(objects)
     ELSE IF Cardinality(ranged) = 1 THEN TheOne(ranged)
     ELSE IF objects # {} THEN Unowned("ambiguous storage id")
     ELSE IF ranged # {} THEN Unowned("ambiguous range")
     ELSE Unowned(IF s # 0 THEN "unknown storage id" ELSE "outside known ranges")

\* One object of the impact; its key leaves out how it was found
Key(o) == <<o.table, o.type, o.storage>>
\* Fault: the last page decides.
Latest(a, b) == b
Weaker(a, b) == IF a < b THEN a ELSE b
IsHead(o, f, n) ==
  o.type = "TABLE" /\ \E t \in Tables : t.name = o.table /\ t.file = f /\ t.first = n

\* One page more of object o in its totals; h: it is the table's first page
OnePageMore(a, o, h) ==
  [a EXCEPT !.sure = Weaker(@, o.sure), !.pages = @ + 1, !.by = @ \cup {o.by}, !.heads = @ + h]

\* pageImpactAccumulator.add
Charged(o, f, n) ==
  IF o.type = "NONE" THEN [impact EXCEPT !.unattributed = @ + 1]
  ELSE LET old == {a \in impact.objects : a.key = Key(o)}
           was == IF old = {} THEN [key |-> Key(o), sure |-> o.sure, pages |-> 0,
                                    heads |-> 0, by |-> {}]
                  ELSE TheOne(old)
       IN [impact EXCEPT
             !.attributed = @ + 1,
             !.objects = (@ \ old) \cup
               {OnePageMore(was, o, IF IsHead(o, f, n) THEN 1 ELSE 0)}]

CheckInit ==
  /\ disks \in CheckWorlds
  /\ cursor = [file |-> 1, page |-> 1]
  /\ counts = [checked |-> 0, empty |-> 0, noSum |-> 0, bad |-> 0, shortFiles |-> {}]
  /\ impact = [attributed |-> 0, unattributed |-> 0, objects |-> {}]
  /\ stream = <<>> /\ kept = [f \in DOMAIN disks.files |-> 0]
  /\ report = [ended |-> "no"]

Scanning == report.ended = "no" /\ cursor.file <= Len(DiskFiles)
AtPage == Scanning /\ cursor.page <= Len(DiskFiles[cursor.file].pages)
ReadFault == AtPage /\ DiskFiles[cursor.file].failsAt = cursor.page

NextPage == cursor' = [cursor EXCEPT !.page = @ + 1]
Counted ==
  [counts EXCEPT !.checked = @ + 1, !.empty = @ + IF IsEmpty(CheckedPage) THEN 1 ELSE 0,
                 !.noSum = @ + IF CheckMode # 0 /\ ~IsEmpty(CheckedPage)
                                  /\ IsMetadata(CheckedPage) THEN 1 ELSE 0]

CheckSoundPage ==
  /\ AtPage /\ ~ReadFault
  /\ IsEmpty(CheckedPage) \/ Corruption(CheckedPage) = "none"
  /\ counts' = Counted /\ NextPage
  /\ UNCHANGED <<disks, impact, stream, kept, report>>

\* Fault: one page too many is kept.
OneTooMany(n) == IF n <= MaxReported THEN n + 1 ELSE n
\* The list in memory is cut off, its count is not
OneMore(n) == IF n < MaxReported THEN n + 1 ELSE n

\* checkOnePageSource: attribution, totals and the report's stream; when the
\* stream cannot be written the check ends with that error
ReportBadPage ==
  /\ AtPage /\ ~ReadFault
  /\ ~IsEmpty(CheckedPage) /\ Corruption(CheckedPage) # "none"
  /\ LET f == cursor.file  n == cursor.page
         o == Attribution(f, n, CheckedPage.storage)
     IN /\ impact' = Charged(o, f, n)
        /\ counts' = [Counted EXCEPT !.bad = @ + 1]
        /\ \/ /\ stream' = Append(stream, [file |-> f, page |-> n, object |-> o,
                                           kind |-> Corruption(CheckedPage)])
              /\ kept' = [kept EXCEPT ![f] = OneMore(@)]
              /\ NextPage /\ UNCHANGED report
           \/ /\ report' = [ended |-> "error"]
              /\ UNCHANGED <<stream, kept, cursor>>
  /\ UNCHANGED disks

\* A file that cannot be read to its end is reported as such and left
LeaveFile ==
  /\ Scanning
  /\ ReadFault \/ ~AtPage
  /\ counts' = [counts EXCEPT !.shortFiles =
       @ \cup {f \in {cursor.file} : ReadFault \/ DiskFiles[f].cut}]
  /\ cursor' = [file |-> cursor.file + 1, page |-> 1]
  /\ UNCHANGED <<disks, impact, stream, kept, report>>

\* checkLeafChains: a chain that breaks below a sound root, when the root's file
\* is at hand
ChainIssues ==
  {t.name : t \in {u \in Tables : /\ ~u.temporary /\ u.storage # 0
                                  /\ u.file \in DOMAIN DiskFiles /\ u.chain = "broken"}}

\* checkDictionaryConsistency
DictIssues ==
  {<<"duplicate", t.id>> : t \in {u \in Tables : \E v \in Tables : v # u /\ v.id = u.id}}
  \cup {<<"orphan", t.id>> : t \in {u \in Tables :
                                     disks.owners # {} /\ u.owner \notin disks.owners}}
  \cup {<<"dangling", c>> : c \in {d \in disks.columns : ~\E t \in Tables : t.id = d}}

FinishCheck ==
  /\ report.ended = "no" /\ cursor.file > Len(DiskFiles)
  /\ report' = [ended |-> "ok",
                chains |-> IF disks.used THEN ChainIssues ELSE {},
                dictionary |-> IF disks.used THEN DictIssues ELSE {}]
  /\ UNCHANGED <<disks, cursor, counts, impact, stream, kept>>

CheckNext == CheckSoundPage \/ ReportBadPage \/ LeaveFile \/ FinishCheck

CheckSpec == CheckInit /\ [][CheckNext]_checkVars
-----------------------------------------------------------------------------

Streamed(key) == {i \in DOMAIN stream : Key(stream[i].object) = key}

\* The totals of the report, its objects and its stream are filled in at three
\* places, and the list kept in memory is cut off.  They tell one story at any
\* moment: every damaged page is in the stream once, in the order of the files,
\* charged to one object or to none; an object's confidence is that of the
\* weakest page charged to it; a page that carries the id of one table's storage
\* is charged to no other table; and a report that ends well has seen every page
\* of every file that is not named as short.
DamageAccounted ==
  /\ report.ended # "error" =>
       /\ Len(stream) = counts.bad
       /\ impact.attributed + impact.unattributed = counts.bad
  /\ \A i \in DOMAIN stream, j \in DOMAIN stream :
       i < j => \/ stream[i].file < stream[j].file
                \/ stream[i].file = stream[j].file /\ stream[i].page < stream[j].page
  /\ report.ended # "error" =>
       \A o \in impact.objects :
         /\ o.pages = Cardinality(Streamed(o.key)) /\ o.heads <= o.pages
         /\ \A i \in Streamed(o.key) : o.sure <= stream[i].object.sure
         /\ \E i \in Streamed(o.key) : o.sure = stream[i].object.sure
  /\ \A i \in DOMAIN stream :
       LET p == DiskFiles[stream[i].file].pages[stream[i].page]
           owners == {t \in Tables : p.storage # 0 /\ p.storage \in {t.storage} \cup t.assists}
       IN Cardinality(owners) = 1 /\ disks.used => stream[i].object.table = TheOne(owners).name
  /\ report.ended = "ok" =>
       \A f \in DOMAIN DiskFiles \ counts.shortFiles :
         \A n \in DOMAIN DiskFiles[f].pages :
           DiskFiles[f].pages[n].harmed
             <=> \E i \in DOMAIN stream : stream[i].file = f /\ stream[i].page = n

CheckTypeOK ==
  /\ counts.bad <= counts.checked /\ counts.empty + counts.bad <= counts.checked
  /\ report.ended \in {"no", "ok", "error"}
  /\ \A f \in DOMAIN kept : kept[f] <= MaxReported
=============================================================================
