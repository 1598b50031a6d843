# TLA+ models of dmdul

dmdul unloads the tables of a Dameng (DM) database from its files, without a
server: the files may be damaged, deleted in part, or on raw DMASM disks. This
directory holds TLA+ modules of the parts whose correctness is hard to test,
TLC configurations that check small instances of them, and theorems that TLAPS
checks for every value of the constants. `PROJECT.json` lists the components,
runs, mutants, findings, hazards and theorems, and the source lines behind
every definition.

    tlc -workers 2 -config MCUnloadPipeline.cfg MCUnloadPipeline
    tlc -workers 2 -config MCRecovery.cfg MCRecovery
    tlapm UnloadPipelineProofs.tla

## 1. The system

dmdul is one process. An operator types commands (`src/internal/cli/repl.go`);
the work is done by `src/internal/dm`. Only the unload of planned pages uses
several goroutines; everything else is sequential, and what makes it hard is
damaged input, calls of the file system that fail, being killed, and long
sequences of commands over state kept in memory, in `init.dul`, `control.dul`
and `dmdul_dict`.

| Component | State | Operations | Hard because of | Correct when |
| --- | --- | --- | --- | --- |
| Interactive session (`repl.go`) | current SYSTEM.DBF, dm.ctl, ASM members and open files, dictionary in memory; `init.dul` | set, bootstrap, load, unload, list, scan, check, recover, copy | commands in any order, each of which may fail half way; automatic load; restart | the readers, the dictionary and the path are of one database; memory never ahead of disk |
| Dictionary replacement (`dictionary_files.go`) | `dmdul_dict`, staging and backup directories, the ASM catalog inside | rebuild, load, write catalog | every rename may fail, a kill between any two | no dictionary ever active is lost, none is ever partial |
| Location of rows (`data.go`, `data_plan_candidates.go`) | candidates by storage id, pages done, failed units, coverage keys, rows kept back | plan, direct read, group scan, segment scan, recovery scan, late rows | one page reachable by several ways, stale storage ids, cut rows | every row that can be located is exported, once |
| Page plans (`data_page_plan.go`) | page cache | descend, walk | broken, foreign and circular links | complete or discarded, and it ends |
| Parallel direct unload (`data_unload_parallel.go`, `runParallelDirect`) | jobs and results channels, byte budget, reorder buffer | decode, acquire, send, apply in order | interleavings, waiting in a circle, lost wakeups, write errors | same output as the sequential loop; returns; bounded memory |
| Row and value decoding (`data_row.go`, `data_scalar.go`, ...) | none | find the slot directory, the rows, the columns | protected page tails, stale slots, rows of older tables | each row once, with the values stored |
| LOB and Long Row (`data_lob.go`) | page, offset and bytes left of a chain | open, read in pieces | pages lost, reused, linked elsewhere | whole value or an error |
| HUGE store (`data_huge*.go`) | section, files open, delta maps | read sections, merge $RAUX, $DAUX, $UAUX | numbering of rows over several stores | the live rows, in order |
| Writers, DMP (`data_writer.go`, `dmp.go`, `data_fldr.go`) | outputs open, rows in a phase, offsets | write, suspend, resume, close, abort | limit of open files, errors in mid-file, headers written last | an output closed well holds the rows written |
| Raw ASM (`dmasm_*.go`) | disks, groups, maps, handles | open, select the files of a database, read | a disk replaced or missing, two databases on the disks | reads follow the newest catalog; no handle is lost |
| Standard bootstrap (`bootstrap_standard.go`, `system_stream.go`, `dictionary*.go`) | plan of each system table, rows read, fallback | two stages from two anchors, scan | damaged anchors, pages lost between two reads | the rows of the system tables, or a fallback reported |
| Data files (`ctl.go`, `control_dul.go`, `data_files.go`) | file list, `control.dul` | merge dm.ctl, control.dul and headers | files lost, moved, renamed | one right file for each (group, file) |
| Page size (`page_geometry.go`) | candidates | probe header and pages | reused files, damaged headers | the true size or an error |
| Page check (`page_check*.go`) | totals, objects, list, stream | check a page, attribute, report | totals kept in four places | they tell one story |
| Storage scan (`storage_scan.go`) | identity of files, staged outputs | inventory, recover, publish | files of others, kills | all published or none, nothing replaced |
| Copy (`copy.go`, `offline_copy.go`) | temporary file | plan, copy, rename | kills, files of others | no partial file under a final name |
| DDL export, entry point | none | render | formatting | - |

**Interaction.** `bootstrap` scans SYSTEM.DBF, rewrites `control.dul`, replaces
`dmdul_dict` and only then takes the dictionary into memory. `unload` loads a
dictionary by itself if there is none, opens the ASM files if the path is on
ASM, and calls `ExportData`. That builds a page plan for each storage unit, reads the planned
pages, in parallel when there are at least 256 of them and no row limit, and
falls back to scans for the units whose plan is missing or was proved wrong.
Below this stand the layers that turn disks into files (`OpenRawASMStorage`),
files into pages (`DetectPageGeometry`, the file list), pages into rows and rows
into values; above it the router that turns rows into output files. `check
pages`, `copy` and the two commands without dictionary (`scan storage`, `recover
storage`) use the lower layers only.

## 2. Modules and code

| Module | Models | Role |
| --- | --- | --- |
| `DirectBook` | what ExportData remembers of planned pages (`applyDirectResult`, `tableCoverageState`) | shared by the next two |
| `PlanOrderUnload` | the sequential loop over the planned pages | abstract specification |
| `UnloadPipeline` | `runParallelDirect`, `byteBudget`, `directChunk` | implements `PlanOrderUnload` |
| `PagePlan` | `buildStoragePagePlanDetailed` and what it calls | component |
| `ExportPhases` | the phases of `ExportData` | component, uses `DirectBook` |
| `DictionaryRebuild` | `RebuildDictionaryFiles`, `WriteASMCatalogFiles` | component |
| `Session` | `interactiveSession` | EXTENDS `DictionaryRebuild`: its steps are steps of a bootstrap |
| `AsmGroup` | opening of disk groups, reads (`dmasm_raw.go`, `dmasm_mirror.go`) | component |
| `AsmDatabase` | choice of the files of one database (`dmasm_storage.go`) | component |
| `DataFiles` | `resolveDataFiles`, `control.dul`, dm.ctl | component |
| `PageGeometry` | `page_geometry.go` | pure algorithm, one step per size |
| `SystemCatalog` | `LoadDictionary` down to the system tables | component; takes from a tree what `PagePlan` proves of a plan |
| `RowPage` | slot layouts, rows of a page, recovery walk | pure algorithm |
| `RowValues` | `parseDataRowValuesForColumns` | pure algorithm |
| `LobChain` | `dmLOBChainReader` | component |
| `HugeTable` | `exportHugeTableData` | component |
| `OutputFiles` | `dataOutputRouter`, `DMPDataWriter` | component |
| `PageCheck` | `CheckPages` | component |
| `StorageRescue` | `ScanStorages`, `RecoverStorage` | component |
| `OfflineCopy` | `copy`, `CopyOfflineFile` | component |
| `Selection` | loops that append what passes a test, and sorting | operators several modules use |
| `MCDisks`, `MCRows`, `MCSystem`, `MCRecovery` | the worlds of these, and one of them at a time | |
| other `MC*` | instances for TLC | |
| `UnloadPipelineProofs`, `ExportPhasesProofs`, `SessionProofs` | theorems of the module in their name | |
| `DiskProofs` | theorems of `AsmGroup`, `AsmDatabase`, `DataFiles`, `OfflineCopy` | |
| `PageProofs` | theorems of `PageGeometry`, `PageCheck`, `SystemCatalog`, `PagePlan` | |
| `RowProofs` | theorems of `RowPage`, `RowValues`, `LobChain`, `HugeTable` | |
| `RecoveryProofs` | theorems of `StorageRescue`, `OutputFiles` | |
| `Induction` | lemmas on least elements, selections, sequences sorted, cut and joined | used by the proofs |

**UnloadPipeline.** `Workers` run concurrently with the feeder (folded into
`TakeJob`: the jobs channel is unbuffered, so a hand-over is one step) and the
writer. `pc[w]` is where a worker stands in the loop of lines 919-942 of
`data.go`; `Acquire` and `Block` are the two ways through the critical section
of `acquire`, `Awake` is the broadcast. A chunk is a range of planned pages with
its byte count and the set of pages whose coverage keys were rendered (the
worker reads `active()` without a lock while the writer may overflow the map).
The writer receives, picks what is due, applies page by page (any write may
fail) and releases. `disk` gives what decoding each page yields, so that two
decodings of a page agree. A page is one unit of result: its rows are all good,
all cut short, or all unparsable.

**PagePlan.** A step is one iteration of a loop in the code. A page is readable,
unreadable or past the end, names some page in its header, has a kind, a storage
id, a leftmost child and a next link, which may point anywhere or be rejected.
For the properties a layout also carries the set of leaves that the links of
the storage really join, and `bypassed` remembers that a child or branch that
did not validate was passed by.

**ExportPhases.** One loop of `ExportData` after the other, a page at a time.
`Candidate` is `dataTableInfo` reduced to what the choice looks at, `fits` says
with whose columns the rows of a page parse, `Chosen` and `FirstChosen` are
`selectDataPageCandidate` over a set (order of map iteration) and over a list.
`lists` is the shared slice that the group scan overwrites in place.
`Take` is the loop over the rows of a page with limit, marking and rows put
aside. `WriteFails` stands for a write error in any loop.

**DictionaryRebuild and Session.** A step is one call of the file system, or one
command when nothing in between can be observed. A database stands for the path
of its SYSTEM.DBF, on the file system (`Files`) or ASM (`Asm`). `members` are
the databases found on the configured disks, `asm` the one whose files are open.
`Discover`, `Opened`, `PersistThen`, `TakeDictionary` and `Saved` are
`discoverASMSystem`, `ensureASMOpen`, `persistASMDiscovery`,
`loadDictionaryFilesMode` and `writeInitDUL`; the commands are put together from
them as in the code. `kept`, `before`, `confirmed`, `chosen`, `mustReload` and
`collected` are history variables, read by properties only. The correction of
TSV files by hand and the kill are the environment.

Abstractions of `Session`: `data_dir` is unset, so there is one work directory;
no SYSTEM.DBF lies at the default place; the comparison of page size and page
count on an automatic load is not told apart from that of the path; `init.dul`,
`control.dul` and the ASM catalog are each written in one step.

**The layers of a recovery.** Each of these modules starts from a *world* picked
in `Init`: what really is on the disks, in the file or in the row, together with
the truth that no byte tells (which disk was replaced, which database a file
belongs to, what was stored in a row). The actions see only what the code reads;
the properties compare the result with the truth. What a world may be is an operator
(`IsMedia`, `IsSnapshot`, `IsDatabase`, `IsProbed`, `IsCheckWorld`, `IsStored`,
`IsImage`, `IsRowPage`, `IsRowCase`, `IsHugeTable`) that the module assumes of every
one; section 4 says what each means.

*AsmGroup.* `SortMembers`, `OpenMembers`, `GroupHeader`, `LoadMaps`, `LoadInodes`
are the stages of `OpenRawASMStorage` for one group after another; each error
exit is `AsmFails`. `Normal` is the test of a disk against the catalog of the
newest generation. `OpenFile` makes the extents of both layouts, `ReadUnit` is
one turn of the loop in `ReadAt` with its choice of a copy. A unit is a stripe.
*AsmDatabase.* `Beside` is `DatabaseFile`, `TakeSources` is
`selectASMDatabaseDataFiles` with and without a dm.ctl. `Identity` is on page zero, unless the
name (SYSTEM, ROLL, TEMP, TEMPnn, MAIN) fixes it.
*DataFiles.* A path is a directory and a base name. `WriteControlDUL` is what a bootstrap
leaves, `UnloadResolves` what an unload makes of it; in between files are copied to
data_dir, lost or restored and dm.ctl set or cleared (`FilesChange`). `Resolved` is
`resolveDataFilePath`: the file of that base name in data_dir comes first, whatever its
first page says.
*SystemCatalog.* `AnchorObjects`, `AnchorIndexes`, then a plan for each table
(`ReadTable`), with a fallback for one table or for all (`GoToScans`); pages become
unreadable at any step (`PageLost`). `ScanWindow` is the scan for routine texts by
chunk and lookahead.
*RowPage, RowValues.* Functions of a page or a row, in a few steps over many
inputs. `RestoreBytes` puts back the bytes kept in the tail, `FindLayout` decides
between the two places of the slot directory, `LocateRows` finds the rows and checks the page;
`PageRows` gives rows by slot or, when recovering, by walking (`Walk`). A row is a sequence
of bytes; `WithMetadata` and `Heuristic` are the two parses, in this order (`ByStates`,
`ByOffsets`), tried again with fewer columns for an older row (`FewerColumns`), as long as
the columns left off may be NULL or have a default.
*LobChain.* `OpenChain` or `ReadLongRow`; a call of `Read` is `CallRead`, then pages
loaded and pieces copied, then `ReturnFromRead`.
*HugeTable.* One section, one auxiliary row or one merged row at a time. A row of
`$AUX` with a number out of range (`AuxInRange`) refuses the table before any section
is opened.
*OutputFiles.* `WriteText` and `WriteDump` route a row: evict, open or reopen, resume,
begin a row phase, append; `CloseOutputs` seals or removes. `OpenFails` stands for every
error on the way to an open file: the eviction fails, or succeeds and the file cannot be
created or opened again, or only its control file cannot be written, which leaves an
empty data file. A file is the sequence of items in it.
*PageCheck.* One page at a time; `impact`, `counts`, `kept` and `stream` are the
places that record damage.
*StorageRescue.* One page, one staged file, one hard link at a time; others
create files, and the process may be killed. An inventory tells of the kinds of pages the
code tells of (`Inventoried`) and counts a cut end of a file as invalid (`CutEnd`).
`Withdrawn(left)` takes back what was published; `left` are the files that the file
system refused to remove, an error the code passes over. The clause on inventories
speaks of the run at hand: one that repeats an inventory and is interrupted
between its renames leaves the summary of the earlier run beside tables of its own,
which no document denies.
*OfflineCopy.* One call of the file system at a time; "littered" is an end at which the
temporary file could not be removed.

## 3. Runs

| Run | Instance | States | Shows |
| --- | --- | --- | --- |
| `UnloadPipeline` | 5 pages, 2 workers, batches of 2, chunks of 2 bytes, limit 3, queue 2, 4 page contents | 80 thousand | TypeOK, budget exact and bounded, no lost wakeup, nothing left behind, order, termination, refinement |
| `PagePlan` | 8 references, 3 layouts (tree, leaf, heap), every single link redirected to every target, any one page ruined in any way or any two unreadable | 39 thousand | plans closed, none shortened unnoticed, cycles recognised, planning ends |
| `ExportPhases` | 2 tables, 4 pages in 2 groups, all mixtures of contents; 4 families of layouts | 201 thousand | once, exact limit, no row missed, historical rows kept, and once |
| `Session` | 1 readable and 1 unreadable path, 2 ASM databases, 2 bootstraps, 1 correction, 1 kill | 905 thousand | corrections kept, whole, restored; readers follow path, memory follows disk |
| `Recovery` | the worlds of `MCDisks`, `MCRows` and `MCSystem`, one command of 13 in a behaviour | 134 thousand | one property for each layer, and the types |
| `PagePlanCovers`, `ExportPhasesScan`, `ExportPhasesKeep`, `SessionReload`, `SessionControl`, `SessionEvidence`, `RecoveryRows` | as above, or smaller | | each finds a disagreement of code and document, section 6 |

**Why the bounds suffice.** *UnloadPipeline*: two workers and three jobs give one
worker ahead of the job the writer needs, and one that takes a second job; jobs
of two pages and a chunk limit of two bytes give chunks in the middle, at the
end and empty ones; the limit of three lets two chunks in and not three, and one
page alone exceeds it; the coverage cap of two keys is met in mid-plan. The
theorems remove the bound for order, refinement and wakeups. *PagePlan*: two
internal levels with two leaves each contain each kind of step at least twice,
and one redirected link produces every cycle and cross link between them; with
two pages gone both leftmost children can be bad. *ExportPhases*: of two tables
either can be the one read by plan and the other by scan, in the same or in the
other group and with the same or another storage id; four pages are enough for
each way to reach a page to meet each other way. *Session*: two bootstraps, one
of which may fail at any step, and a kill give every mixture of old, new and
backup directories; with two ASM databases the selection is unique, ambiguous or
gone. `HasControl` is empty in this run, because the dm.ctl in use plays
no part in its properties (with one dm.ctl the instance is several times larger and takes
longer than three minutes); `SessionControl` has one. The databases on ASM are
interchangeable, which is the symmetry in `MCSession.cfg`; the run checks
invariants only.

*Recovery*: the commands share no state while one of them runs, so `MCRecovery`
runs one per behaviour; `part` says which. By command, the distinct states and
what the worlds contain:

| Command | States | Worlds |
| --- | --- | --- |
| `group` | 18,907 | a mirror group of which one disk was replaced, striped or not, and a group of the older layout over two disks: every part of them, with anything wrong with one disk (content, header, catalog, map, links, identity), for the mirror group with two; both groups together |
| `database` | 8,256 | every set of files of two databases that share directory names over three groups, with and without their dm.ctl, two of them named `TEMP1` or otherwise, all sound or one file unreadable or without a good first page |
| `files` | 21,509 | three files dm.ctl lists and one it does not, or files of three groups of which two may have one base name in two directories; any of them there or gone; a first page that contradicts dm.ctl or is unreadable; a file copied, lost or restored between commands |
| `geometry` | 1,760 | two true sizes, each header, three kinds of damaged pages, pages of an older file of another size |
| `check` | 9,112 | two files, two tables and an assisting storage; each kind of page at each place, a read error, a short file, an error of the stream |
| `rescue` | 7,650 | two files with pages of two storages, of kinds an inventory counts and of others, displaced ones, a cut end; two runs, one intrusion, a failure or a kill anywhere |
| `catalog` | 4,275 | a SYSTEM.DBF of eight pages, one misfiled, each anchor pointing anywhere, objects missing, a page lost at any step |
| `page` | 13,536 | up to three rows, slots in any order, stale or missing, both layouts, straddling, damaged and deleted rows |
| `row` | 4,552 | three columns of three types in each state, values in line, in LOB pages, in a long row or lost, older rows of columns that may be NULL or have a default; five columns, whose states take two bytes |
| `lob` | 372 | three pages in two files beside another value, each damage and each link of one of them; a long row |
| `huge` | 11,823 | up to two sections and two rows in `$RAUX`, three ways to number them, deletions, updates, a row limit, damage of each part, numbers of `$AUX` out of range |
| `copy` | 275 | three files, two intrusions, a failure or a kill at any call, a temporary file that cannot be removed |
| `output` | 32,259 | three tables, two files open at most, four rows, phases of four fields, three formats, a failure at any write, close, create or reopening |

The sizes are those at which each branch of the modelled code is taken and a
boundary has both its sides: two allocation units in an extent, a chunk of two
pages and a lookahead of two, a value over a page and a piece of a page, one
output more than may be open. `RowPage` and `RowValues` model functions and take
a few steps; what varies is the input.

**Fairness.** `UnloadPipeline`: weak fairness for each worker and for the
writer. The Go scheduler is preemptive and runs every goroutine that can run; no
two steps of different goroutines compete for ever, because a mutex is held for
a few instructions and a woken worker that finds the condition true again sleeps
until the next broadcast. `PagePlan`: weak fairness of its one loop. The
others state no liveness: an operator need not type anything, and the loops of
ExportData, of a check, a copy or an unload visit a finite set of pages once;
the walk of a LOB chain is bounded by the length still owed. Their runs do not
check for deadlock, because a command ends.

**Mutants.** Each property of a passing run has a mutant in its module: a
definition next to the one it replaces, marked `Fault:`, which TLC must see
violate the property.

## 4. Proofs

*UnloadPipelineProofs.* `InOrder` is inductive together with `TypeOK` and the
facts on the wait condition. Its parts: each job has one owner (`JobsOwned`);
the chunks emitted for a job follow each other without gap (`ChunksTile`); the
chunk in building continues them (`BuildingContinues`); what the writer holds
was emitted (`SentEmitted`); the writer stands where the chunk it waits for
begins (`WriterInPlace`); and while the coverage map has not overflowed every
decoded page has its keys (`KeysInTime`), because tracking is only ever turned
off. So the page applied is always page `applied` of the plan, with keys exactly
if tracking is on or with keys that `Mark` ignores: each `ApplyPage` is a step of
`PlanOrderUnload`, and all other steps are stutters. `NoLostWakeup` needs that
only `Release` and `Advance` can end a wait condition, and both broadcast.

The budget is a sum over a set of chunks (`Sums`, a fold with its partial sums, so
that a chunk taken out or put in changes it by its bytes): `Balanced` says that
`used` is the bytes of the chunks that are outstanding, and `LookaheadBounded`
follows, because a chunk that is not the awaited one was let in under the limit.
`Flow` says where everything is: each chunk of a job is built, on its way, held
or applied, and no job is left to a worker that ended. With it, a good end has
applied every page (`NothingIsLeftBehind`), and no state short of the end is
stuck (`NeverStuck`): if the writer waits, the chunk it waits for is with a
worker that is not blocked, since the next chunk to apply is never refused.

*ExportPhasesProofs.* A page whose rows were taken is either processed or no
longer to be visited by a loop that looks at nothing else; the first unmarked
visit stops the export (`ExportedOnce`). `RowLimit` needs that a loop goes on
only below the limit (`AtLimit`). `NoRowMissed` needs what has been looked at
(`Searched`): each page with rows that a loop has passed was taken, if a plan
lists it, a unit without a plan claims it, or it lies in the segment of a unit
still without rows and nobody else claims it. The two
properties of historical rows need what the coverage map knows (`Books`): it has
overflowed or holds the keys of every whole row written, no key is marked without
a row written for it, the rows written are rows of the pages they are said to be
from, and the counts agree. The slots a page gives, whole and cut, are the folds
of `Selection`.

*SessionProofs.* The inductive invariant says for each step of a bootstrap where
the former dictionary is (active, moved and in a backup, or catalog only), that
the fresh one is of the current path and read from it, and that open ASM files
belong to the current members and, as long as every load was confirmed, to the
current path. One lemma for each action; the commands share `AtRestStep`.

*DiskProofs.* `HandlesOwned` needs that no group is opened twice: the group
being opened is neither among those still to open nor among those opened, and
the disks of a group are members of it, so the disks a catalog excludes belong
to no other group and closing them takes no handle from one.
`ReadsCurrent` follows what is known of a group through its opening (`PlacesInv`):
the disks kept are those that the present generation lists, if a disk at hand
tells it (`HeaderTells`: its disk is among the newest, so its catalog was asked);
the maps say of each copy at hand what the table of its disk says (`MapsTell`); and
what was read so far is, position by position, what the maps and extents give
(`ReadingSound`). That no unit is read twice is arithmetic: two positions of a
striped file are at different places (`LocationsApart`), and in the older layout
different positions are in different extents, which lie apart, or in different
units of one (`LegacyApart`).
`DatabasesNotMixed` needs that a dm.ctl taken lists only its own files
(`ControlTaken`), and that without one each directory has its own SYSTEM.DBF.
`EachFileServed` is about three lists of claims (dm.ctl, `control.dul`, headers),
each put together by loops and sorted. A claim that stands gives a file one of the
identities its first page, its name or its place in dm.ctl give it (`Told`); the first
claim of a key wins and each key has one winner, so no identity found in data_dir is
left out; and what control.dul repeats resolves as it did when nothing has moved,
which is why an unload reads what the bootstrap took. That the file says so itself
follows only where its `Identities` are one: section 6 says where they are two. `CopiesWhole` is inductive with the types
and the place of the temporary file in each step: it is whole when it is renamed,
and a name that is taken after the last look is in `late`.

*PageProofs.* `GeometryTrue`: the true size is evident or has not been tried
(`GeometryKnown`), and pages seen through a wrong size convince only when they
are those of an older file. `DamageAccounted`: the stream tells the damaged pages
behind the cursor in order (`StreamTold`), and an object's totals are those of
the entries that name it (`ImpactTold`), entry by entry.
`LoadedFaithfully` compares what was read so far with the current rows of the
same table (`CatalogInv`): as long as no fallback is reported, objects and indexes
were read along one tree each, which is the live one because no other has all the
required objects or more than one index; a plan is the live pages of its table
(`PlannedIsCurrent`), and what is read of them while pages are lost is the
current rows or a fallback (`ReadTableKeeps`). A scan has all current rows and may
have more (`ScanHasCurrent`). Of the routine texts `RoutinesInv` says that those
found begin in the windows passed, and end in the lookahead (`PieceIs`).

`PlanClosed`: the chain walked so far consists of our leaves, and each leaf in it,
and in the plan, links to a leaf in chain or plan, to the page looked at, or nowhere. `CyclesRecognised`: the chain is a
set of readable pages, so it has at most `PageCount` of them and the limit of
twice as many is never met (finite cardinalities). `NoLeafDropped` needs, along
with it, where the planner stands among the pages that the storage really has
(`Rooted`): on the way to the first leaf, or past it. That these pages form a
tree or a list of chains (`RecordAssumption`) is what the server wrote, before
any damage.

*RowProofs.* `RowsLocatedOnce` rests on the choice of the directory. In an unprotected
page whose slots and rows agree the other place can lead by three stray page keys
at most, which is less than the 32 points it needs (`BaseStays`); in a protected
one the true place leads (`ProtectedTold`). The walk of a recovery is a function
repeated from the start of the row area (`IterationExists`); it meets every row
before the first damaged one, because each ends where the next begins.

`PresentRowsExact` goes column by column (`ColumnRead`): each is read as it was
written and leaves off where the next begins, so reading by the states reaches the
control tail with exactly the pairs stored (`Reached`, `ReadingReaches`). The two
places where bytes could be taken for something else are ruled out: a bare locator
read as a short value would have at least 512 bytes, with the zero of its group number
among them, which no text has (`LocatorNotInRow`), and no text begins with the first byte of a
locator (`HeldIs`). So such a row never comes to the guessing by offsets (`RowHeld`).

`LobWhole`: of a value read so far, the chain is either on track, with just the parts of the pages
passed; or behind, with less than that, because the damaged page was passed, so
that the length still owed can never be met; or at its end (`OnTrack`, `Behind`,
`AtEnd`). A sound value never meets the limit of the walk.

`HugeRowsExact` follows the rows written (`RowsUpTo`): they are the live rows with
ids up to the last one done, in order, with the last update of each value. Each
stage adds what the next needs to `HugeInv`: the sections agree and the files of
their columns are found, the deleted ranges are merged into exactly the deleted ids,
the updates are the last ones; a row of `$RAUX` has the id that follows the sections,
which the code tells from its place or from the id stored with it.

*RecoveryProofs.* `RescueLogged` says what the evidence holds of the pages behind
the cursor, `RescuePlaced` what stands in the output directory while files are
staged, linked and taken back; `RescueWhole` follows at the end of a run.
`OutputsExact` speaks of files that are closed, so no step can build upon it:
`OutInv` says of every file, while rows are written, that what it has on disk and
in its buffer, together, are the rows written to it (`FilesOf`). That does not
depend on where the buffer was cut (`WrittenWhole`) nor on which files were
suspended to open others (`RoomWhole`, `TargetWhole`). Of a dump it says that the
phases follow each other without a gap, each of whole rows, as many as it counts
(`DumpAt`), which survives the row that opens a phase (`PhaseAdded`, `RowAdded`),
and that a dump given up is closed and not sealed. A buffer that failed once keeps
its error (`CanFlush`): were it flushed again as if nothing had happened, the
file of a failed table could be closed without an error.

*Induction.* The induction theorems of the library cannot be used (section 5).
These lemmas give what they would by least counterexamples: a nonempty set of
naturals has a least element (well-foundedness of `<`), a fact that holds of the
first place of a segment and passes on holds of all of it (`SegmentInduction`),
a function can be repeated any number of times (`IterationExists`), selecting by a
fold keeps order and membership and commutes with joining (`KeptFacts`, `KeptConcat`,
`KeptAlike`), and sorting gives each element once, in order (`SortedIs`). A recursive
function of a module is read off by giving a function that solves its equation
and showing by segments that there is no other.

`Flow`, `NeverStuck`, `Searched` and `Books` are theorems, but no properties of a
run: they carry the others.

**Assumptions.** The constants have their types, the markers `None`, `NoDir`,
`Null`, `Garbage`, `NoPage`, `NoPlace` and `Blank` are distinct from the values
beside them, and limits are positive where the code's constants are
(`BookAssumption`, `PipelineAssumption`, with at least one worker,
`PlanAssumption`, `PhasesAssumption`, `RebuildAssumption`, `NoDirAssumption`,
`SessionAssumption`, `CopyAssumption`, `AsmAssumption`, `RescueAssumption`,
`OutputAssumption`). The others say
what a server leaves on its disks, and what can have happened to it since:

- `RecordAssumption`: the leaves a storage really has are joined as a tree or as
  chains from its root page;
- `GeometryAssumption`: the pages of a file carry one identity; an older
  file's pages were of another size, with another identity;
- `CheckAssumption`: harm done to a page shows in one of the tests of the check;
- `SnapshotAssumption`: a directory of a group belongs to one database, a database
  that has a file in a directory named as a SYSTEM.DBF's has its own SYSTEM.DBF in
  a directory of that name, and a dm.ctl lists its own database's files;
- `MediaAssumption`: a disk that the catalog of the present generation lists, with
  its name and size, was brought up to that generation; the tables, inodes and
  extent descriptors of a disk are those its servers wrote, as far as they can be
  read, so that a unit is the file's and place's its table names, and extents lie
  apart. Which disks are at hand, which are old and what is unreadable is left open;
- `FilesAssumption` gives types only: first pages, names and dm.ctl may contradict one
  another, and dm.ctl may list files of one base name in several directories;
- `CatalogAssumption`: a slot of a page holds one row and an id is given once; a tree
  that is not the live one lacks a required object and has one index at most; the
  rows of a system table are in its clustered index;
- `RowPageAssumption`: rows lie one after another from the start of the row area;
  no two words of a directory point to the same row, in the place it is at or in the
  other one, and bytes kept in the tail of a protected page point to no row that no
  slot points to; the other place of an unprotected page holds at most three words
  more that look like the keys at the ends of a directory;
- `RowAssumption`: a row that has all its columns has them one after another in
  storage order, as their states say, with at most 64 bytes after them; the
  group in a locator has a number of less than 32 bits, its id does not begin as an
  envelope does, and a text has no control bytes. Of other rows nothing is said;
- `HugeAssumption`: what is damaged shows where it is read; ids number the rows of
  the sections, then those of `$RAUX`, where the numbers of `$AUX` are in range and agree; an id stored in
  `$RAUX` is that one, or, where this is not ambiguous, a number of its own or none; the last update of a value is
  the one that counts;
- `LobAssumption`: a value is on pages in order, each with a part that is not empty;
  at most one is damaged, and holds no more than its part did; no other page
  carries the id of the value.

TLC evaluates them on every run.

## 5. Only model-checked

Out of the prover's reach are liveness (`Terminates`, twice), `ENABLED`, and
operators that are RECURSIVE in the library. Induction over data is done without
the library's theorems, as said under *Induction*, for loops that select, sort,
join and add up.

Checked but not proved: `Terminates` (twice), and `RecoveryTypeOK` as one statement
about `MCRecovery`: the proof modules use the same names for different things and
cannot be extended together, so each of its nine parts is a theorem about the specification of its
component (`AsmTypeCorrect`, `FilesTypeCorrect`, `CheckTypesKept`, `RescueTypesKept`,
`CatalogTypeCorrect`, `ChainTypeCorrect`, `HugeTypeCorrect`, `CopyTypeCorrect`,
`OutTypeCorrect`). What `Heuristic` does to
rows of older tables, the guess by offsets, is checked by `RecoveryRows` only: what
it guesses is not always right (section 6).

## 6. What the runs found

1. `ExportPhasesScan`: `matched := candidates[:0]` (`data.go:1116`) overwrites
   the shared list of candidates; with a storage id claimed in two groups, rows
   are lost. `NoRowMissed` is the property that holds: the same, when the
   claimants of each storage id agree on the group.
2. `PagePlanCovers`: a heap with one bad branch page (`data_page_plan.go:358`)
   gets a "complete" plan of the other branches. The same can happen below a
   damaged leftmost child (`ToSibling`). `NoLeafDropped` holds: nothing is
   missing unless a child or branch was passed by.
3. `ExportPhasesKeep`: a row cut short that shares its first column with a
   written row is taken for a duplicate (`data.go:1181`). `HistoricalRowsKept`
   holds: none is lost when the first column is unique.
4. `SessionReload`: after a failed bootstrap, `unload` loads the old dictionary
   by itself, against the comment at `repl.go:1218` and `docs/usage.md:128`.
5. `SessionControl`: a dm.ctl found by itself stays set for the next database
   (`repl.go:1330`).
6. `SessionEvidence`: the ASM catalog is deleted before it is written again
   (`dictionary_files.go:248`).

7. `RecoveryRows`: a value out of line that cannot be read makes the parse by
   column states fail, and the parse by offsets that follows
   (`data_row.go:586`) takes zeros and the rest of the row for omitted NULLs. A
   row of an int 0, a lost text and a NULL is exported as three NULLs, without an
   error. `PresentRowsExact` holds: a row of the present columns whose values can be
   read is exported exactly.

Of a file in data_dir nothing more than `EachFileServed` can be promised. Where dm.ctl
names two files of one base name in different directories and data_dir holds one of
them, `resolveDataFilePath` (`data_files.go:175-181`) serves that file for both
identities, and its first page denies one of them. The pages then fail the test of
their identity, and the rows of the other file are missing, even where that file is at
its recorded place. The worlds of the `files` command contain this case (`SameNames`);
with `\A c \in refs : SaysSo(c)` for an invariant TLC shows it in two states. The
documents do not agree on what comes first (`docs/recovery-workflow.md:26` the page
headers, `docs/config.md:201` dm.ctl), so it is not counted as a finding; `copy` refuses two
files of one base name (`copy.go:140-141`, `docs/dmasm-raw-recovery.md:122-123`).

A kill between the two renames of a rebuild leaves no active dictionary, where
`README.md` of the repository calls the rebuild atomic; the dictionary is then
in a backup, which is what `CorrectionsKept` promises and what is proved.
An explicit `load dictionary` while ASM files of another database are open mixes
two databases; the documents leave that check to the operator, so
`ReadersFollowSystem` holds `confirmed` against it.

## 7. Not modelled, and the plan

Not to be modelled, because it is formatting or encoding without state:

- DDL text (`ddl*.go`), flags and version, the wording of reports;
- the inside of values: numbers, dates, JSON, vectors, character sets
  (`data_scalar.go` beyond its sizes, `data_json.go`, `data_vector.go`,
  `text_decoder.go`), the rendering of SQL, dmfldr and DMP fields;
- checksums, hashes and page layouts with a hash of their own
  (`page_hash_layout.go`); a page is taken as passing or not;
- the meaning of dictionary rows (types, partitions, privileges, parameters):
  a translation row by row.

Left out of modules that model the rest of their file: the slots of a long-row
page (`LobChain` takes the record there as readable or not), the undo evidence of a
page check, the guessing of column types in a storage scan.

Hazards outside the models: the group scan ends the export at the first page it
cannot read (`data.go:1130`; `ScanAborts` models it, and no document promises
more); the segment fallback does not look at the storage id, so rows of another
table that happen to parse are taken (`data.go:1161`); `set system` on ASM changes
the path before the catalog is written (`repl.go:467`; modelled, and no document
says what a failed set leaves); a SYSTEM.DBF beside the executable takes
precedence over `init.dul` at start (`repl.go:3607`); a unit of several storages
counts as planned when one of them is (`data_plan_candidates.go:155`); a kill while
`init.dul` is written (`repl.go:3255`); the signature of a row joins its values with
`|`, so two rows can look alike (`data_row.go:267`); a page read along a plan is
decoded only as its plan's table (`data.go:1068`).

Next, in this order:

1. units of several storages in `ExportPhases`, and the candidates' construction
   from the dictionary;
2. `data_dir` and the default place in `Session`, composed with `DataFiles`;
3. proofs: what of a row of an older table is read exactly.
