---------------------------- MODULE ExportPhases ----------------------------
(***************************************************************************)
(* The search for the rows of the selected tables (ExportData).  A normal  *)
(* export reads the planned pages; for every storage unit whose plan is    *)
(* missing or proved wrong it then scans the files of the unit's group for *)
(* pages with its storage id; for a unit not found there it reads the      *)
(* segment range of the dictionary.  A recovery export instead scans every *)
(* page of every file once.  Rows cut short by an ALTER are kept back and  *)
(* written last, unless a row already written covers them.                 *)
(*                                                                         *)
(* One storage unit stands for one table.  Pages are numbered in the order *)
(* the loops visit them: by group, file and page number.                   *)
(***************************************************************************)
EXTENDS DirectBook, Selection

CONSTANTS
  Sids,      \* storage ids
  Groups,    \* tablespace groups
  Layouts    \* the dictionaries and files to export from

\* A row by its coverage keys, that of all its columns and that of its first
\* column, and whether it is cut short.
Row == [key : Keys, weak : Keys, cut : BOOLEAN]

\* kind: a "data" page passes isProbableDMDataPage, a "broken" one is a data
\* page that does not, "index" is any other kind, and a "foreign" page does not
\* carry its own reference in the header.  fits names the units with whose
\* columns the first rows of the page parse.
PageInfo == [kind : {"data", "broken", "index", "foreign", "unreadable"},
             sid : Sids, group : Groups, fits : SUBSET Units, rows : Seq(Row)]

\* dataTableInfo: an entry of assistByID.  range holds the pages that
\* candidateMatchesFile admits when the plan or a group scan does not decide.
\* isLooseHistoricalCandidate is false of every entry with a plan.
Candidate ==
  {c \in [unit : Units, planned : BOOLEAN, plan : SUBSET Pages,
          recovery : BOOLEAN, segmented : BOOLEAN, known : BOOLEAN,
          loose : BOOLEAN, group : Groups, range : SUBSET Pages] :
     c.loose => ~c.planned}

Layout == [page     : [Pages -> PageInfo],
           assist   : [Sids -> Seq(Candidate)],  \* assistByID
           segment  : [Units -> SUBSET Pages],   \* the segment range, or {}
           tracked  : SUBSET Units,              \* tables with coverage tracking
           recovery : BOOLEAN,                   \* opts.RecoveryMode
           live     : SUBSET Sids,               \* liveStorageIDs
           orphan   : Seq(Candidate),            \* buildOrphanRecoveryCandidates
           maxRows  : Nat]                       \* opts.MaxRows, 0 for no limit

ASSUME PhasesAssumption == Layouts \subseteq Layout

VARIABLES
  layout,
  phase,      \* the loop ExportData is in
  todo,       \* pages that loop has not visited yet
  lists,      \* storageCandidates, which the scan overwrites in place
  processed,  \* processedDirectPages
  failed,     \* failedPlanUnits
  found,      \* storagePagesFound
  located,    \* result.RowsLocated
  stop,
  pending,    \* pendingPartialRows
  cover,      \* coverageStates
  taken,      \* history: the pages processPage took rows from
  written     \* history: the rows in the output

vars == <<layout, phase, todo, lists, processed, failed, found, located, stop,
          pending, cover, taken, written>>

scan == <<lists, failed, found>>

PageOf(p) == layout.page[p]

EmptyCover == [keys |-> {}, overflow |-> FALSE]

(***************************************************************************)
(* Candidates                                                              *)
(***************************************************************************)
AllCandidates == UNION {Range(layout.assist[s]) : s \in Sids}

DirectCandidates(p) == {c \in AllCandidates : c.planned /\ p \in c.plan}

PlannedRefs == UNION {c.plan : c \in {d \in AllCandidates : d.planned}}

PlannedUnits == {c.unit : c \in {d \in AllCandidates : d.planned /\ d.plan # {}}}

CandidateRank(c) == CASE c.planned   -> 0
                      [] ~c.planned /\ c.recovery -> 1
                      [] ~c.planned /\ ~c.recovery /\ c.segmented -> 2
                      [] ~c.planned /\ ~c.recovery /\ ~c.segmented /\ c.known -> 3
                      [] OTHER -> 4

\* selectDataPageCandidate: the best ranked candidate with whose columns the
\* rows of the page parse; among equals, whichever the map iteration put first.
Chosen(p, cs) ==
  LET fit == {c \in cs : ~c.loose /\ c.unit \in PageOf(p).fits}
  IN {c.unit : c \in {b \in fit :
        \A d \in fit : CandidateRank(b) <= CandidateRank(d)}}

FirstChosen(p, list) ==
  LET fit == {i \in DOMAIN list : ~list[i].loose /\ list[i].unit \in PageOf(p).fits}
      best == {i \in fit : \A j \in fit :
                 \/ CandidateRank(list[i]) < CandidateRank(list[j])
                 \/ CandidateRank(list[i]) = CandidateRank(list[j]) /\ i <= j}
  IN {list[i].unit : i \in best}

(***************************************************************************)
(* processPage: take the rows of page p, for the unit one of units names.  *)
(***************************************************************************)
\* Fault: the limit is not looked at within a page.
RoomByPage(n) == n

Room(n) == IF layout.maxRows = 0 \/ located + n <= layout.maxRows
           THEN n ELSE layout.maxRows - located

CoverageKeys(row) == {row.key, row.weak}

\* The rows are marked one by one; together they reach the cap or they do not.
Marked(states, u, rows) ==
  IF u \notin layout.tracked THEN states
  ELSE [states EXCEPT ![u] = Mark(@, UNION {CoverageKeys(r) : r \in rows})]

Ignore ==
  UNCHANGED <<located, stop, pending, cover, taken, written>>

\* Fault: rows cut short are marked as well.
TakeMarkingAll(p, u) ==
  LET rows == PageOf(p).rows
      n    == Room(Len(rows))
      Slot(i) == [page |-> p, slot |-> i, unit |-> u, row |-> rows[i]]
      slots == [i \in 1 .. n |-> Slot(i)]
      whole == {s \in Range(slots) : ~s.row.cut}
  IN /\ located' = located + n
     /\ stop' = (n < Len(rows))
     /\ cover' = Marked(cover, u, {s.row : s \in Range(slots)})
     /\ pending' = pending \o Kept(slots, Range(slots) \ whole)
     /\ written' = written \cup whole
     /\ taken' = taken \cup {[page |-> p, unit |-> u, phase |-> phase]}

Take(p, u) ==
  LET rows == PageOf(p).rows
      n    == Room(Len(rows))
      Slot(i) == [page |-> p, slot |-> i, unit |-> u, row |-> rows[i]]
      slots == [i \in 1 .. n |-> Slot(i)]
      whole == {s \in Range(slots) : ~s.row.cut}
  IN /\ located' = located + n
     /\ stop' = (n < Len(rows))
     /\ cover' = Marked(cover, u, {s.row : s \in whole})
     /\ pending' = pending \o Kept(slots, Range(slots) \ whole)
     /\ written' = written \cup whole
     /\ taken' = taken \cup {[page |-> p, unit |-> u, phase |-> phase]}

\* Rows is empty, or the page is not a data page, or no candidate fits.
Process(p, units) ==
  IF PageOf(p).kind # "data" \/ PageOf(p).rows = <<>> \/ units = {}
  THEN Ignore
  ELSE \E u \in units : Take(p, u)

\* The loops visit the pages in order.
FirstOf(p) == p \in todo /\ \A q \in todo : p <= q

Visit(p, loop) ==
  /\ phase = loop
  /\ ~stop
  /\ FirstOf(p)
  /\ todo' = todo \ {p}
  /\ UNCHANGED <<layout, phase>>

Init ==
  /\ layout \in Layouts
  /\ phase = IF layout.recovery THEN "recovery" ELSE "direct"
  /\ todo = IF layout.recovery THEN Pages ELSE PlannedRefs
  /\ lists = layout.assist
  /\ processed = {}
  /\ failed = {}
  /\ found = {}
  /\ located = 0
  /\ stop = FALSE
  /\ pending = <<>>
  /\ cover = [u \in Units |-> EmptyCover]
  /\ taken = {}
  /\ written = {}

(***************************************************************************)
(* The planned pages                                                       *)
(***************************************************************************)
PlanMatches(p) ==
  /\ PageOf(p).kind \in {"data", "broken"}
  /\ \E c \in Range(layout.assist[PageOf(p).sid]) : c.planned /\ p \in c.plan

DirectFails ==
  \E p \in Pages :
    /\ Visit(p, "direct")
    /\ ~PlanMatches(p)
    /\ failed' = failed \cup {c.unit : c \in DirectCandidates(p)}
    /\ Ignore
    /\ UNCHANGED <<lists, processed, found>>

DirectPage ==
  \E p \in Pages :
    /\ Visit(p, "direct")
    /\ PlanMatches(p)
    /\ Process(p, Chosen(p, DirectCandidates(p)))
    /\ processed' = IF stop' THEN processed ELSE processed \cup {p}
    /\ UNCHANGED scan

(***************************************************************************)
(* The scan of the groups by storage id                                    *)
(***************************************************************************)
NeedsFallback(u) == u \notin PlannedUnits \/ u \in failed

Scanned(c) == NeedsFallback(c.unit) /\ ~c.planned /\ ~c.loose

FallbackCandidates == {c \in AllCandidates : Scanned(c)}

FallbackUnits == {c.unit : c \in FallbackCandidates}

FallbackGroups == {c.group : c \in FallbackCandidates}

StartScan ==
  /\ phase = "direct"
  /\ stop \/ todo = {}
  /\ phase' = "storage"
  /\ lists' = [s \in Sids |-> Kept(layout.assist[s], FallbackCandidates)]
  /\ todo' = {p \in Pages : PageOf(p).group \in FallbackGroups}
  /\ UNCHANGED <<layout, processed, failed, found>>
  /\ Ignore

\* A page that cannot be read ends the scan, and with it the export.
ScanAborts ==
  \E p \in Pages :
    /\ phase \in {"storage", "recovery"}
    /\ ~stop /\ FirstOf(p)
    /\ PageOf(p).kind = "unreadable"
    /\ phase' = "failed"
    /\ UNCHANGED <<layout, todo, processed>>
    /\ UNCHANGED scan
    /\ Ignore

ScanSkips ==
  \E p \in Pages :
    /\ Visit(p, "storage")
    /\ PageOf(p).kind # "unreadable"
    /\ p \in processed \/ PageOf(p).kind # "data" \/ lists[PageOf(p).sid] = <<>>
    /\ Ignore
    /\ UNCHANGED <<scan, processed>>

Matched(p) ==
  LET list == lists[PageOf(p).sid]
  IN Kept(list, {c \in Range(list) : c.group = PageOf(p).group})

\* The matched candidates are collected in the array of the list they come
\* from, so the list afterwards starts with them.
Overwritten(list, matched) ==
  [i \in DOMAIN list |-> IF i <= Len(matched) THEN matched[i] ELSE list[i]]

\* Fault: the page is not marked as processed.
ScanPageUnmarked ==
  \E p \in Pages :
    LET s == PageOf(p).sid
        matched == Matched(p)
    IN /\ Visit(p, "storage")
       /\ p \notin processed /\ PageOf(p).kind = "data" /\ lists[s] # <<>>
       /\ lists' = [lists EXCEPT ![s] = Overwritten(@, matched)]
       /\ found' = found \cup {c.unit : c \in Range(matched)}
       /\ Process(p, FirstChosen(p, matched))
       /\ UNCHANGED <<failed, processed>>

ScanPage ==
  \E p \in Pages :
    LET s == PageOf(p).sid
        matched == Matched(p)
    IN /\ Visit(p, "storage")
       /\ p \notin processed /\ PageOf(p).kind = "data" /\ lists[s] # <<>>
       /\ lists' = [lists EXCEPT ![s] = Overwritten(@, matched)]
       /\ found' = found \cup {c.unit : c \in Range(matched)}
       /\ processed' = IF matched = <<>> THEN processed ELSE processed \cup {p}
       /\ Process(p, FirstChosen(p, matched))
       /\ UNCHANGED failed

(***************************************************************************)
(* The segment ranges of the units found nowhere                           *)
(***************************************************************************)
\* Fault: units scanned for without success are forgotten.
UnresolvedUnlisted == {u \in Units : NeedsFallback(u) /\ u \notin FallbackUnits}

Unresolved == {u \in Units : NeedsFallback(u) /\ u \notin (FallbackUnits \cap found)}

SegmentUnits(p) == {u \in Unresolved : p \in layout.segment[u]}

\* Fault: the end of the range is taken as included.
StartSegmentsPastEnd ==
  /\ phase = "storage"
  /\ stop \/ todo = {}
  /\ phase' = "segment"
  /\ todo' = UNION {layout.segment[u] \cup {p + 1 : p \in layout.segment[u]} :
                     u \in Unresolved}
  /\ UNCHANGED <<layout, scan, processed>>
  /\ Ignore

StartSegments ==
  /\ phase = "storage"
  /\ stop \/ todo = {}
  /\ phase' = "segment"
  /\ todo' = UNION {layout.segment[u] : u \in Unresolved}
  /\ UNCHANGED <<layout, scan, processed>>
  /\ Ignore

SegmentSkips ==
  \E p \in Pages :
    /\ Visit(p, "segment")
    /\ p \in processed \/ PageOf(p).kind \in {"unreadable", "foreign"}
    /\ Ignore
    /\ UNCHANGED <<scan, processed>>

\* Every candidate here has the rank of a segment: the first whose columns fit.
SegmentPage ==
  \E p \in Pages :
    /\ Visit(p, "segment")
    /\ p \notin processed /\ PageOf(p).kind \notin {"unreadable", "foreign"}
    /\ processed' = processed \cup {p}
    /\ Process(p, SegmentUnits(p) \cap PageOf(p).fits)
    /\ UNCHANGED scan

(***************************************************************************)
(* The recovery export                                                     *)
(***************************************************************************)
RecoveryList(p) ==
  LET s == PageOf(p).sid
      list == IF layout.assist[s] = <<>> /\ s \notin layout.live
              THEN layout.orphan ELSE layout.assist[s]
  IN Kept(list, {c \in Range(list) : p \in c.range})

RecoveryPage ==
  \E p \in Pages :
    /\ Visit(p, "recovery")
    /\ PageOf(p).kind # "unreadable"
    /\ Process(p, FirstChosen(p, RecoveryList(p)))
    /\ UNCHANGED <<scan, processed>>

(***************************************************************************)
(* The rows kept back                                                      *)
(***************************************************************************)
StartPending ==
  /\ phase \in {"segment", "recovery"}
  /\ stop \/ todo = {}
  /\ phase' = "pending"
  /\ todo' = {}
  /\ UNCHANGED <<layout, scan, processed>>
  /\ Ignore

Covered(e) ==
  e.unit \in layout.tracked /\ CoverageKeys(e.row) \cap cover[e.unit].keys # {}

\* Fault: a row cut short is written without marking its keys.
WritePendingUnmarked ==
  /\ phase = "pending"
  /\ pending # <<>>
  /\ LET e == Head(pending) IN
       written' = IF Covered(e) THEN written ELSE written \cup {e}
  /\ pending' = Tail(pending)
  /\ UNCHANGED <<layout, phase, todo, scan, processed, located, stop, cover, taken>>

WritePending ==
  /\ phase = "pending"
  /\ pending # <<>>
  /\ LET e == Head(pending) IN
       IF Covered(e) THEN UNCHANGED <<cover, written>>
       ELSE /\ written' = written \cup {e}
            /\ cover' = Marked(cover, e.unit, {e.row})
  /\ pending' = Tail(pending)
  /\ UNCHANGED <<layout, phase, todo, scan, processed, located, stop, taken>>

Finish ==
  /\ phase = "pending"
  /\ pending = <<>>
  /\ phase' = "done"
  /\ UNCHANGED <<layout, todo, scan, processed>>
  /\ Ignore

\* The writer fails on a row, in any loop, or as the output is closed.
WriteFails ==
  /\ phase \in {"direct", "storage", "segment", "recovery", "pending"}
  /\ todo # {} \/ phase = "pending"
  /\ phase' = "failed"
  /\ UNCHANGED <<layout, todo, scan, processed>>
  /\ Ignore

Ended == phase \in {"done", "failed"} /\ UNCHANGED vars

Next ==
  \/ DirectFails \/ DirectPage
  \/ StartScan \/ ScanAborts \/ ScanSkips \/ ScanPage
  \/ StartSegments \/ SegmentSkips \/ SegmentPage
  \/ RecoveryPage
  \/ StartPending \/ WritePending \/ Finish
  \/ WriteFails \/ Ended

Spec == Init /\ [][Next]_vars

(***************************************************************************)
(* Properties                                                              *)
(***************************************************************************)
Taken == [page : Pages, unit : Units, phase : {"direct", "storage", "segment", "recovery"}]

Slots == [page : Pages, slot : Nat, unit : Units, row : Row]

TypeOK ==
  /\ layout \in Layout
  /\ phase \in {"direct", "storage", "segment", "recovery", "pending", "done", "failed"}
  /\ todo \subseteq Pages
  /\ lists \in [Sids -> Seq(Candidate)]
  /\ processed \subseteq Pages
  /\ failed \subseteq Units
  /\ found \subseteq Units
  /\ located \in Nat
  /\ stop \in BOOLEAN
  /\ pending \in Seq(Slots)
  /\ cover \in [Units -> [keys : SUBSET Keys, overflow : BOOLEAN]]
  /\ taken \subseteq Taken
  /\ written \subseteq Slots

\* No page gives its rows twice, however many of the loops come by it.
ExportedOnce == \A d, e \in taken : d.page = e.page => d = e

\* The row limit is exact: it is never exceeded, and the export stops early
\* only once it is reached.
RowLimit ==
  layout.maxRows > 0 =>
    /\ located <= layout.maxRows
    /\ Cardinality(written) + Len(pending) <= located
    /\ stop => located = layout.maxRows

\* Pages whose rows the unit u is owed: those of its plan, those that carry a
\* storage id of u in its group and are in no plan for it when the plan failed,
\* and those of its segment that nobody else laid claim to when the scan found
\* none.  A page in the plan of another unit with that storage id is not owed:
\* the direct loop tries the columns of the plan's unit and is done with it.
Claims(p, c) ==
  /\ c.unit \notin PlannedUnits \/ c.unit \in failed
  /\ ~c.planned /\ ~c.loose /\ c.group = PageOf(p).group

Owed(p, u) ==
  LET mine == {c \in Range(layout.assist[PageOf(p).sid]) : c.unit = u}
      others == Range(layout.assist[PageOf(p).sid])
  IN \/ \E c \in mine : c.planned /\ p \in c.plan
     \/ ~PlanMatches(p) /\ \E c \in mine : Claims(p, c)
     \/ /\ p \in layout.segment[u]
        /\ u \notin PlannedUnits \/ u \in failed
        /\ u \notin found
        /\ \A c \in others : ~Claims(p, c) /\ ~(c.planned /\ p \in c.plan)

EveryRowFound ==
  phase = "done" /\ ~stop /\ ~layout.recovery =>
    \A p \in Pages : \A u \in PageOf(p).fits :
      PageOf(p).kind = "data" /\ PageOf(p).rows # <<>> /\ Owed(p, u) =>
        \E e \in taken : e.page = p

\* The candidates the scan keeps for a storage id agree on its group.
GroupsAgree ==
  \A s \in Sids : \A c, d \in Range(layout.assist[s]) :
    c.planned \/ c.loose \/ d.planned \/ d.loose \/ c.group = d.group

\* A damaged plan costs no row that the group scan or the segment range can
\* still reach (README.md, "table data location strategy").
NoRowMissed == GroupsAgree => EveryRowFound

\* A row cut short is written, or a row with all its columns is.
RowsKept ==
  phase = "done" /\ ~stop =>
    \A e \in taken : \A i \in DOMAIN PageOf(e.page).rows :
      \E w \in written :
        w.unit = e.unit /\ w.row.key = PageOf(e.page).rows[i].key

TableRows == UNION {Range(PageOf(p).rows) : p \in Pages}

\* The first column tells the rows of the tables apart.
FirstColumnUnique == \A r, t \in TableRows : r.weak = t.weak => r.key = t.key

\* No value reads like several columns of a key, which dataRowPrefixKey joins
\* with "|": the key of a first column is no other row's key of all columns.
KeysReadable == \A r, t \in TableRows : r.weak = t.key => t.weak = t.key

HistoricalRowsKept == FirstColumnUnique /\ KeysReadable => RowsKept

\* With coverage tracking a row cut short is written at most once, and only if
\* no complete row with the same columns is.
HistoricalRowsOnce ==
  \A w, v \in written :
    w.row.cut /\ w.unit \in layout.tracked /\ ~cover[w.unit].overflow
      /\ v.unit = w.unit /\ v.row.key = w.row.key => v = w
(***************************************************************************)
(* Why no row is missed and none written twice: the inductive invariants.  *)
(***************************************************************************)
TakenFrom(p) == \E e \in taken : e.page = p

HasRows(p, u) == PageOf(p).kind = "data" /\ PageOf(p).rows # <<>> /\ u \in PageOf(p).fits

Claimed(p) == \E c \in Range(layout.assist[PageOf(p).sid]) : Claims(p, c)

\* What the direct loop has visited it has taken, if a plan lists it.
DirectDone ==
  phase # "failed" =>
    \A p \in Pages : \A c \in Range(layout.assist[PageOf(p).sid]) :
      (phase = "direct" => p \notin todo) /\ c.planned /\ p \in c.plan
        /\ HasRows(p, c.unit) => TakenFrom(p)

\* What the group scan has visited it has taken, if a unit without a plan
\* claims it.
ScanDone ==
  phase \notin {"direct", "failed"} =>
    \A p \in Pages : \A c \in Range(layout.assist[PageOf(p).sid]) :
      (phase = "storage" => p \notin todo) /\ Claims(p, c) /\ ~PlanMatches(p)
        /\ HasRows(p, c.unit) => TakenFrom(p)

\* What the segment ranges have visited is taken, if nobody else claims it.
SegmentDone ==
  phase \notin {"direct", "storage", "failed"} =>
    \A p \in Pages : \A u \in Unresolved :
      (phase = "segment" => p \notin todo) /\ p \in layout.segment[u]
        /\ ~PlanMatches(p) /\ ~Claimed(p) /\ HasRows(p, u) => TakenFrom(p)

\* A page is marked by the plan that lists it, by the scan that finds a claim
\* to it, or by the segment range that is past it.
MarksJustified ==
  \A p \in processed :
    \/ PlanMatches(p)
    \/ phase = "storage" /\ Claimed(p) /\ p \notin todo
    \/ phase = "segment" /\ (Claimed(p) \/ p \notin todo)
    \/ phase \in {"pending", "done", "failed"}

\* The scan overwrites its lists with what they held before.
ListsIntact ==
  phase = "storage" =>
    \A s \in Sids :
      Range(lists[s]) = Range(layout.assist[s]) \cap FallbackCandidates

Search ==
  /\ phase # "recovery" /\ MarksJustified /\ ListsIntact
  /\ ~stop => DirectDone /\ ScanDone /\ SegmentDone

Searched == GroupsAgree /\ ~layout.recovery => Search

\* Each row has a page it is read from; only those cut short are put aside,
\* and they are written last.
RowsReal ==
  /\ \A w \in written \cup Range(pending) :
       w.page \in Pages /\ w.row \in Range(PageOf(w.page).rows)
  /\ \A w \in Range(pending) : w.row.cut
  /\ phase \notin {"pending", "done", "failed"} => \A w \in written : ~w.row.cut
  /\ phase = "done" => pending = <<>>

\* Every row taken is written or put aside, or one with its keys is.
RowsHeld ==
  \A e \in taken : \A i \in DOMAIN PageOf(e.page).rows :
    \E w \in written \cup Range(pending) :
      w.unit = e.unit /\ w.row.key = PageOf(e.page).rows[i].key

\* A key is marked exactly when a row with it is written, until tracking ends.
KeysEarned ==
  \A u \in Units : \A k \in cover[u].keys :
    \E w \in written : w.unit = u /\ k \in CoverageKeys(w.row)

KeysMarked ==
  \A w \in written :
    w.unit \in layout.tracked /\ ~cover[w.unit].overflow =>
      CoverageKeys(w.row) \subseteq cover[w.unit].keys

Counted ==
  IsFiniteSet(written) /\ Cardinality(written) + Len(pending) <= located

Books ==
  /\ RowsReal /\ KeysEarned /\ KeysMarked /\ Counted
  /\ FirstColumnUnique /\ KeysReadable /\ ~stop => RowsHeld
=============================================================================
