---------------------------- MODULE SystemCatalog ----------------------------
(***************************************************************************)
(* Loading the dictionary from SYSTEM.DBF (LoadDictionary): the system     *)
(* tables are read along their trees, found in two stages from two         *)
(* anchors, or by a scan of all pages when there is no such tree           *)
(* (dictionary.go, bootstrap_standard.go, system_stream.go,                *)
(* dictionary_stream_scans.go).                                            *)
(*                                                                         *)
(* A page holds rows of several kinds, told apart by parsing them; a row   *)
(* is a record [kind, id, ...].  tree[r] is the set of leaves reached from *)
(* page r, as module PagePlan builds it.                                   *)
(***************************************************************************)
EXTENDS Integers, Sequences, FiniteSets, FiniteSetsExt

CONSTANTS
  SystemFiles0,  \* contents of SYSTEM.DBF TLC tries
  Reads,         \* the tables read after the first stage, in order
  Required,      \* pairs <<id, name>> of objects that must be there
  ChunkPages, LookaheadPages  \* systemStreamChunkTarget, rawRoutineWindowLimit

CatalogKinds == {"object", "index"} \cup {Reads[n] : n \in DOMAIN Reads}
RowsOn(w, kind, P) == UNION {{x \in w.rows[p] : x.kind = kind} : p \in P}

\* validateStandardBootstrapStage1: the objects every catalog has
HasRequired(objects) ==
  \A q \in Required : \E o \in objects : o.id = q[1] /\ o.name = q[2]

\* The storages of a system table in a file whose trees are sound
LiveStorages(w, table) == {i \in RowsOn(w, "index", w.live["index"]) :
  \E o \in RowsOn(w, "object", w.live["object"]) :
    o.class = "index" /\ o.id = i.id /\ o.parent = table.id}

\* What a file may hold: a slot has one row, an id has one row in the live tree of
\* its kind, no other tree has all required objects or two indexes, and the rows
\* of a system table are in its clustered index.
IsImage(w) ==
  /\ w.pages \in Nat
  /\ \A p \in 1 .. w.pages :
       /\ IsFiniteSet(w.rows[p]) /\ \A x, y \in w.rows[p] : x.slot = y.slot => x = y
       /\ \A x \in w.rows[p] :
            /\ x.slot \in Nat
            /\ x.kind = "SYSTEXTS" => x.len \in Nat
            /\ x.kind = "index" => x.id \in Nat
  /\ \A r \in DOMAIN w.tree : w.tree[r] \subseteq 1 .. w.pages
  /\ \A k \in CatalogKinds : w.live[k] \subseteq 1 .. w.pages
  /\ \A k \in CatalogKinds \cap {"object", "index", "SYSTEXTS"} :
       \A x, y \in RowsOn(w, k, w.live[k]) : x.id = y.id => x = y
  /\ \A r \in DOMAIN w.tree :
       HasRequired(RowsOn(w, "object", w.tree[r])) => w.tree[r] = w.live["object"]
  /\ \A r \in DOMAIN w.tree : \A x, y \in RowsOn(w, "index", w.tree[r]) :
       x.id # y.id => w.tree[r] = w.live["index"]
  /\ \A t \in RowsOn(w, "object", w.live["object"]) :
       t.class = "system" /\ t.name \in CatalogKinds =>
         /\ LiveStorages(w, t) # {} => \E i \in LiveStorages(w, t) : i.clustered
         /\ \A i \in LiveStorages(w, t) :
              i.clustered /\ i.root \in DOMAIN w.tree => w.tree[i.root] = w.live[t.name]
         /\ \A u \in RowsOn(w, "object", w.live["object"]) :
              u.class = "system" /\ u.name = t.name => u = t
  /\ \A s \in w.sources : s.first \in 1 .. s.last /\ s.last \in 1 .. w.pages

ASSUME CatalogAssumption ==
  /\ ChunkPages \in Nat \ {0} /\ LookaheadPages \in Nat
  /\ Reads \in Seq(CatalogKinds \ {"object", "index"}) /\ Reads # <<>>
  /\ \A w \in SystemFiles0 : IsImage(w)

VARIABLES
  image,      \* the file: pages, misfiled, rows, tree, anchors, live, sources
  unreadable, \* pages a read of which fails
  plans,      \* standardBootstrapCatalog.plans: table to leaves, {} for none
  known,      \* what was read so far: kind to a set of rows
  reported,   \* catalog.fallback or bootstrapFallback
  standard,   \* FALSE once the whole load works by scans
  routines,   \* rawRoutineTexts: how many pages of each text were found
  at,         \* how far the load is: index into Reads, or a page
  loadPhase

catalogVars ==
  <<image, unreadable, plans, known, reported, standard, routines, at, loadPhase>>

FilePages == 1 .. image.pages
Sound(p) == p \notin unreadable \cup image.misfiled

\* The rows of one kind on a set of pages, and the order they are met in
Visit(kind, P) == UNION {{[page |-> p, row |-> r] :
  r \in {x \in image.rows[p] : x.kind = kind}} : p \in P}
Sooner(v, w) == v.page < w.page \/ (v.page = w.page /\ v.row.slot < w.row.slot)
FirstOfEach(V, Before(_, _)) ==
  {v.row : v \in {x \in V : \A y \in V : y.row.id = x.row.id => ~Before(y, x)}}

\* Objects: the lowest offset in a page wins along the chain, the first one
\* met in a scan of all pages.  Indexes: the last one met.
LowerInPage(v, w) == v.row.slot < w.row.slot \/ (v.row.slot = w.row.slot /\ v.page < w.page)
ChainObjects(P) == FirstOfEach(Visit("object", P), LowerInPage)
ScannedObjects == FirstOfEach(Visit("object", FilePages), Sooner)
IndexesOn(P) == FirstOfEach(Visit("index", P), LAMBDA v, w : Sooner(w, v))

\* Of texts the longest one is kept, of the other tables all rows.
Taken(kind, P) ==
  LET V == Visit(kind, P) IN
  IF kind = "SYSTEXTS" THEN FirstOfEach(V, LAMBDA v, w :
         v.row.len > w.row.len \/ (v.row.len = w.row.len /\ Sooner(v, w)))
  ELSE {v.row : v \in V}

\* buildStoragePagePlan: no plan unless every page of the tree is sound
Plan(root) ==
  IF root \in DOMAIN image.tree /\ \A p \in image.tree[root] \cup {root} : Sound(p)
  THEN image.tree[root] ELSE {}

CatalogInit ==
  /\ image \in SystemFiles0
  /\ unreadable \in {{}} \cup {{p} : p \in FilePages}
  /\ plans = [t \in {Reads[n] : n \in DOMAIN Reads} |-> {}]
  /\ known = [k \in {"object", "index"} \cup DOMAIN plans |-> {}]
  /\ reported = FALSE /\ standard = TRUE
  /\ routines = [s \in image.sources |-> 0]
  /\ at = 0 /\ loadPhase = "objects"

LoadFails ==
  /\ loadPhase' = "failed"
  /\ UNCHANGED <<image, unreadable, plans, known, reported, standard, routines, at>>

-----------------------------------------------------------------------------
(* The two stages *)

\* Any trouble in the first stage turns the whole load to scans.
GoToScans ==
  /\ standard' = FALSE /\ reported' = TRUE
  /\ loadPhase' = "scan_objects"
  /\ UNCHANGED <<image, unreadable, plans, known, routines, at>>

AnchorObjects ==
  /\ loadPhase = "objects"
  /\ LET found == ChainObjects(Plan(image.anchors.objects)) IN
     IF found = {} THEN GoToScans
     ELSE /\ known' = [known EXCEPT !["object"] = found]
          /\ loadPhase' = "indexes"
          /\ UNCHANGED <<image, unreadable, plans, reported, standard, routines, at>>

AnchorIndexes ==
  /\ loadPhase = "indexes"
  /\ LET found == IndexesOn(Plan(image.anchors.indexes)) IN
     IF \/ found = {} \/ Cardinality(found) < 2
        \/ ~HasRequired(known["object"])
     THEN GoToScans
     ELSE /\ known' = [known EXCEPT !["index"] = found]
          /\ loadPhase' = "stage2"
          /\ UNCHANGED <<image, unreadable, plans, reported, standard, routines, at>>

\* chooseSystemTableStorage: the clustered index before others, lower ids first
Score(i) == (IF i.clustered THEN 100 ELSE 0) + (IF i.keys = 0 THEN 20 ELSE 0)
              + (IF i.plain THEN 10 ELSE 0)
StoragesOf(table) == {i \in known["index"] : \E o \in known["object"] :
  o.class = "index" /\ o.id = i.id /\ o.parent = table.id}
Storage(table) == CHOOSE i \in StoragesOf(table) : \A j \in StoragesOf(table) :
  Score(j) < Score(i) \/ (Score(j) = Score(i) /\ i.id <= j.id)

Stage2Plan(name) ==
  LET tables == {o \in known["object"] : o.class = "system" /\ o.name = name} IN
  IF tables = {} \/ (\A t \in tables : StoragesOf(t) = {}) THEN {}
  ELSE Plan(Storage(CHOOSE t \in tables : TRUE).root)

\* buildStage2Plans
Stage2Plans ==
  /\ loadPhase = "stage2"
  /\ plans' = [t \in DOMAIN plans |-> Stage2Plan(t)]
  /\ reported' = (reported \/ \E t \in DOMAIN plans : plans'[t] = {})
  /\ at' = 1 /\ loadPhase' = "tables"
  /\ UNCHANGED <<image, unreadable, known, standard, routines>>

ScanObjects ==
  /\ loadPhase = "scan_objects"
  /\ IF unreadable # {} THEN LoadFails
     ELSE /\ known' = [known EXCEPT !["object"] = ScannedObjects]
          /\ at' = 1 /\ loadPhase' = "tables"
          /\ UNCHANGED <<image, unreadable, plans, reported, standard, routines>>

-----------------------------------------------------------------------------
(* The tables *)

\* A plan that can no longer be read is an error, no reason for a scan; a scan
\* takes every page that can be read for what it says it is.  Without the
\* first stage the indexes are scanned for together with the tables.
ReadTable ==
  /\ loadPhase = "tables" /\ at <= Len(Reads)
  /\ LET name == Reads[at] IN
     IF plans[name] # {}
     THEN IF \E p \in plans[name] : ~Sound(p) THEN LoadFails
          ELSE /\ known' = [known EXCEPT ![name] = Taken(name, plans[name])]
               /\ at' = at + 1
               /\ UNCHANGED <<image, unreadable, plans, reported, standard, routines, loadPhase>>
     ELSE IF unreadable # {} THEN LoadFails
          ELSE /\ known' = [known EXCEPT ![name] = Taken(name, FilePages),
                    !["index"] = IF standard THEN @ ELSE IndexesOn(FilePages)]
               /\ reported' = TRUE
               /\ at' = at + 1
               /\ UNCHANGED <<image, unreadable, plans, standard, routines, loadPhase>>

StartWindows ==
  /\ loadPhase = "tables" /\ at = Len(Reads) + 1
  /\ loadPhase' = "windows" /\ at' = 1
  /\ UNCHANGED <<image, unreadable, plans, known, reported, standard, routines>>

\* Fault: a text is looked for in its chunk only.
WindowEndChunk(first) == Min({image.pages, first + ChunkPages - 1})
\* scanRawWindows: a chunk of pages and the pages after it, read at once; the
\* longest piece of each text is kept.
WindowEnd(first) ==
  Min({image.pages, first + ChunkPages + LookaheadPages - 1})
Piece(s, first) ==
  IF s.first < first \/ s.first > WindowEnd(first) THEN 0
  ELSE Min({s.last, WindowEnd(first)}) - s.first + 1

ScanWindow ==
  /\ loadPhase = "windows" /\ at <= image.pages
  /\ IF unreadable \cap (at .. WindowEnd(at)) # {} THEN LoadFails
     ELSE /\ routines' = [s \in image.sources |-> Max({routines[s], Piece(s, at)})]
          /\ at' = at + ChunkPages
          /\ UNCHANGED <<image, unreadable, plans, known, reported, standard, loadPhase>>

CatalogLoaded ==
  /\ loadPhase = "windows" /\ at > image.pages
  /\ loadPhase' = "loaded"
  /\ UNCHANGED <<image, unreadable, plans, known, reported, standard, routines, at>>

\* A page that could be read a moment ago cannot be read again.
PageLost ==
  /\ loadPhase \notin {"loaded", "failed"} /\ unreadable = {}
  /\ \E p \in FilePages : unreadable' = {p}
  /\ UNCHANGED <<image, plans, known, reported, standard, routines, at, loadPhase>>

CatalogNext ==
  \/ AnchorObjects \/ AnchorIndexes \/ Stage2Plans \/ ScanObjects
  \/ ReadTable \/ StartWindows \/ ScanWindow \/ CatalogLoaded \/ PageLost

CatalogSpec == CatalogInit /\ [][CatalogNext]_catalogVars

-----------------------------------------------------------------------------

Ids(R) == {r.id : r \in R}
Current(kind) == {v.row : v \in Visit(kind, image.live[kind])}

CatalogTypeOK ==
  /\ unreadable \subseteq FilePages
  /\ \A t \in DOMAIN plans : plans[t] \subseteq FilePages
  /\ loadPhase \in {"objects", "indexes", "stage2", "scan_objects", "tables",
                    "windows", "loaded", "failed"}

\* Whatever page is damaged, or is lost while the load runs: a dictionary that
\* is loaded lacks no row of a system table, it has no row of an abandoned
\* page unless a fallback is reported, and a routine source no longer than
\* the lookahead is found whole (LoadDictionary, recordTableRows,
\* scanRawWindows).
LoadedFaithfully ==
  loadPhase = "loaded" =>
    /\ \A k \in DOMAIN known : Ids(Current(k)) \subseteq Ids(known[k])
    /\ ~reported => \A k \in DOMAIN known : known[k] = Current(k)
    /\ \A s \in image.sources :
         s.last - s.first <= LookaheadPages => routines[s] = s.last - s.first + 1
=============================================================================
