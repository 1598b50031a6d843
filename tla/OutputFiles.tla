----------------------------- MODULE OutputFiles ----------------------------
(***************************************************************************)
(* The files rows are exported to (dataOutputRouter in data_writer.go and  *)
(* DMPDataWriter in dmp.go): one file for all tables or one for each, a    *)
(* bounded number of them open, the least recently used one closed or      *)
(* suspended to open another, and dumps cut into phases of whole rows.     *)
(*                                                                         *)
(* A file is the sequence of the things written to it: <<"head">>,         *)
(* <<"row", r>>, and in a dump <<"phase", n>> and <<"field", r, column>>.  *)
(* What is still buffered comes after what is on disk.                     *)
(***************************************************************************)
EXTENDS Selection

CONSTANTS
  OutTables,   \* the selected tables
  MaxOpen,     \* maxOpenSplitDataFiles
  BufferSize,  \* items a bufio.Writer holds
  PhaseLimit,  \* phaseSizeLimit, in items
  Width,       \* columns of a row
  RowBound     \* rows written in all

ASSUME OutputAssumption ==
  /\ IsFiniteSet(OutTables) /\ MaxOpen \in Nat \ {0} /\ BufferSize \in Nat \ {0}
  /\ PhaseLimit \in Nat \ {0, 1} /\ Width \in Nat \ {0} /\ RowBound \in Nat

Main == "main"     \* the path when the output is not split
Gone == <<<<"gone">>>>   \* no file
Old == <<<<"old">>>>     \* what an earlier run left

VARIABLES
  outFormat, split,
  selected,   \* the tables of this export
  disk,       \* path to what the file holds, or Gone
  held,       \* path to what its bufio.Writer holds
  opened,     \* filesByTable (or main), the least recently used first
  begun,      \* initializedByID
  dump,       \* dmpWritersByID (or main): phases, closed, sealed
  wrote,      \* history: table to the rows whose write succeeded
  refused,    \* tables whose write or close failed
  full,       \* paths nothing more can be written to
  outPhase

outVars == <<outFormat, split, selected, disk, held, opened, begun, dump, wrote, refused,
             full, outPhase>>

Paths == OutTables \cup {Main}
PathOf(t) == IF split THEN t ELSE Main
NoDump == [phases |-> <<>>, closed |-> FALSE, sealed |-> FALSE]

RowsSoFar == LET n[S \in SUBSET OutTables] ==
                   IF S = {} THEN 0
                   ELSE LET t == CHOOSE x \in S : TRUE IN Len(wrote[t]) + n[S \ {t}]
             IN n[OutTables]

OutInit ==
  /\ outFormat \in {"sql", "fldr", "dmp"} /\ split \in BOOLEAN
  /\ selected \in (SUBSET OutTables) \ {{}}
  /\ ~split /\ outFormat # "sql" => Cardinality(selected) = 1
  /\ disk = [p \in Paths |-> Old] /\ held = [p \in Paths |-> <<>>]
  /\ opened = <<>> /\ begun = {}
  /\ dump = [p \in Paths |-> NoDump]
  /\ wrote = [t \in OutTables |-> <<>>] /\ refused = {}
  /\ full = {} /\ outPhase = "start"

\* newDataOutputRouter: SQL files are created at once and, when there are
\* several, closed; the files of the other formats are only removed.
CreateOutputs ==
  /\ outPhase = "start"
  /\ LET paths == {PathOf(t) : t \in selected}
         open == outFormat = "sql" /\ ~split
     IN /\ disk' = [p \in Paths |->
             IF p \notin paths THEN disk[p]
             ELSE IF outFormat # "sql" THEN Gone
             ELSE IF split THEN <<<<"head">>>> ELSE <<>>]
        /\ held' = IF open THEN [held EXCEPT ![Main] = <<<<"head">>>>] ELSE held
        /\ opened' = IF open THEN <<Main>> ELSE <<>>
        /\ begun' = IF outFormat = "sql" THEN paths ELSE {}
  /\ outPhase' = "writing"
  /\ UNCHANGED <<outFormat, split, selected, dump, wrote, refused, full>>

-----------------------------------------------------------------------------
(* One file: its content in full, and buffered writes *)

WholeFile(p) == disk[p] \o held[p]
\* A buffer that could not be written once reports the error again and again;
\* of a dump given up nothing is left to write.
CanFlush(p) ==
  /\ p \notin full \/ held[p] = <<>>
  /\ outFormat # "dmp" => \A t \in refused : PathOf(t) # p

\* What a buffered write of some items leaves: as much on disk as the buffer
\* does not hold.
Written(d, h, items) ==
  LET all == h \o items
      keep == Len(all) % BufferSize
      out == IF Len(all) < BufferSize THEN 0 ELSE Len(all) - keep
  IN [disk |-> d \o SubSeq(all, 1, out), held |-> SubSeq(all, out + 1, Len(all))]
Spills(h, items) == Len(h) + Len(items) >= BufferSize

-----------------------------------------------------------------------------
(* Which file a row goes to *)

\* evictLeastRecentlyUsed: only when a file that is not open is needed
NeedsRoom(p) == split /\ p \notin ToSet(opened) /\ Len(opened) >= MaxOpen
Evicted == Head(opened)
CanOpen(p) == NeedsRoom(p) => CanFlush(Evicted)

\* The files after room was made: what was closed is flushed.
RoomMade(p) ==
  IF ~NeedsRoom(p) THEN [disk |-> disk, held |-> held, opened |-> opened]
  ELSE [disk |-> [disk EXCEPT ![Evicted] = WholeFile(Evicted)],
        held |-> [held EXCEPT ![Evicted] = <<>>], opened |-> Tail(opened)]

\* touch
Touched(seq, p) == Kept(seq, Paths \ {p}) \o <<p>>

\* Fault: a file opened again is created anew.
StartsAlways(p) == p \notin ToSet(opened)
\* openDataOutputFile the first time, openExistingDataOutputFile later
Starts(p) == p \notin begun

\* targetForTable: the files with p open
Target(p) ==
  LET room == RoomMade(p)
      new == p \notin ToSet(opened) /\ Starts(p)
  IN [disk |-> IF new THEN [room.disk EXCEPT ![p] = <<>>] ELSE room.disk,
      held |-> IF ~new THEN room.held
               ELSE [room.held EXCEPT ![p] = IF outFormat = "dmp"
                       THEN <<<<"head">>, <<"phase", 2>>>>
                       ELSE IF outFormat = "sql" THEN <<<<"head">>>> ELSE <<>>],
      opened |-> IF split \/ p \notin ToSet(room.opened) THEN Touched(room.opened, p)
                 ELSE room.opened]

\* newDMPOutputFile, and the phase of the writer
DumpOf(p) ==
  IF outFormat = "dmp" /\ Starts(p) THEN [NoDump EXCEPT !.phases = <<[start |-> 2, rows |-> 0]>>]
  ELSE dump[p]

\* Abort, and Close: a dump whose last write succeeds is given its footer and
\* its final header.
Aborted(d) == [d EXCEPT !.closed = TRUE]
Closed(d, fine) == [d EXCEPT !.closed = TRUE, !.sealed = fine]

OutFails(t) ==
  /\ refused' = refused \cup {t}
  /\ UNCHANGED <<outFormat, split, selected, wrote, full, outPhase>>

-----------------------------------------------------------------------------

\* No room on the disk of a file from now on.
DiskFull ==
  /\ outPhase = "writing" /\ full = {}
  /\ \E p \in Paths : full' = {p}
  /\ UNCHANGED <<outFormat, split, selected, disk, held, opened, begun, dump, wrote, refused, outPhase>>

NextRow(t) == <<t, Len(wrote[t]) + 1>>
MayWrite(t) == outPhase = "writing" /\ t \in selected \ refused /\ RowsSoFar < RowBound

\* No file could be opened for the row: the one to make room for it could not be
\* closed, or was, and the file itself cannot be created or opened again.  When
\* only its control file cannot be written, an empty data file stays.
OpenFails(t) ==
  LET p == PathOf(t)
      room == RoomMade(p)
  IN /\ MayWrite(t) /\ p \notin ToSet(opened)
     /\ OutFails(t) /\ UNCHANGED <<begun, dump>>
     /\ \/ ~CanOpen(p) /\ UNCHANGED <<disk, held, opened>>
        \/ /\ CanOpen(p) /\ held' = room.held /\ opened' = room.opened
           /\ \/ disk' = room.disk
              \/ outFormat = "fldr" /\ Starts(p) /\ disk' = [room.disk EXCEPT ![p] = <<>>]

\* writeRow, SQL and fldr.  A spill that fails leaves what was held lost.
WriteText(t) ==
  /\ outFormat # "dmp" /\ MayWrite(t) /\ CanOpen(PathOf(t))
  /\ LET p == PathOf(t)
         at == Target(p)
         row == <<<<"row", NextRow(t)>>>>
         after == Written(at.disk[p], at.held[p], row)
     IN /\ opened' = at.opened /\ begun' = begun \cup {p} /\ UNCHANGED dump
        /\ IF Spills(at.held[p], row) /\ p \in full
           THEN /\ disk' = at.disk /\ held' = at.held
                /\ OutFails(t)
           ELSE /\ disk' = [at.disk EXCEPT ![p] = after.disk]
                /\ held' = [at.held EXCEPT ![p] = after.held]
                /\ wrote' = [wrote EXCEPT ![t] = Append(@, NextRow(t))]
                /\ UNCHANGED <<outFormat, split, selected, refused, full, outPhase>>

\* WriteRow and WriteEncodedRow.  beginRowPhase starts a phase between rows
\* once the last one is long enough; a row that cannot be finished, because a
\* value cannot be streamed or the disk is full, takes the whole dump with it
\* (Abort).
Offset(p, at) == Len(at.disk[p]) + Len(at.held[p])
PhaseEnds(p, at, d) == Offset(p, at) - Last(d.phases).start + 1 >= PhaseLimit
WithPhase(p, at, d) ==
  IF PhaseEnds(p, at, d)
  THEN [d EXCEPT !.phases = Append(@, [start |-> Offset(p, at) + 1, rows |-> 0])]
  ELSE d
Fields(t) == [c \in 1 .. Width |-> <<"field", NextRow(t), c>>]
WriteDump(t, breaks) ==
  /\ outFormat = "dmp" /\ MayWrite(t) /\ CanOpen(PathOf(t))
  /\ LET p == PathOf(t)
         at == Target(p)
         d == DumpOf(p)
         cut == PhaseEnds(p, at, d)
         phase == IF cut THEN <<<<"phase", Len(d.phases) + 2>>>> ELSE <<>>
         items == phase \o Fields(t)
         grown == WithPhase(p, at, d)
         flushes == cut \/ Spills(at.held[p], items)
         base == IF cut THEN [disk |-> at.disk[p] \o at.held[p], held |-> <<>>]
                 ELSE [disk |-> at.disk[p], held |-> at.held[p]]
         after == Written(base.disk, base.held, items)
     IN /\ opened' = at.opened /\ begun' = begun \cup {p}
        /\ IF breaks \/ (flushes /\ p \in full)
           THEN /\ disk' = [at.disk EXCEPT ![p] = Gone] /\ held' = [at.held EXCEPT ![p] = <<>>]
                /\ dump' = [dump EXCEPT ![p] = Aborted(d)]
                /\ OutFails(t)
           ELSE /\ disk' = [at.disk EXCEPT ![p] = after.disk]
                /\ held' = [at.held EXCEPT ![p] = after.held]
                /\ dump' = [dump EXCEPT ![p] =
                     [grown EXCEPT !.phases[Len(grown.phases)].rows = @ + 1]]
                /\ wrote' = [wrote EXCEPT ![t] = Append(@, NextRow(t))]
                /\ UNCHANGED <<outFormat, split, selected, refused, full, outPhase>>

\* close: every writer is closed, the first error is returned.  A dump that
\* was aborted is an error.
CloseOutputs ==
  /\ outPhase = "writing"
  /\ LET dumps == {p \in Paths : dump[p].phases # <<>>}
         texts == ToSet(opened)
         touched == IF outFormat = "dmp" THEN {p \in dumps : ~dump[p].closed} ELSE texts
         fine == {p \in touched : IF outFormat = "dmp" THEN p \notin full ELSE CanFlush(p)}
         aborted == {p \in dumps : dump[p].closed}
     IN /\ disk' = [p \in Paths |-> IF p \in fine THEN WholeFile(p) ELSE disk[p]]
        /\ held' = [p \in Paths |-> IF p \in touched THEN <<>> ELSE held[p]]
        /\ dump' = [p \in Paths |->
             IF p \in dumps THEN Closed(dump[p], p \in fine) ELSE dump[p]]
        /\ outPhase' = IF aborted = {} /\ fine = touched THEN "closed" ELSE "error"
  /\ UNCHANGED <<outFormat, split, selected, opened, begun, wrote, refused, full>>

OutNext ==
  \/ CreateOutputs \/ DiskFull
  \/ \E t \in OutTables : \/ OpenFails(t) \/ WriteText(t)
                          \/ \E breaks \in BOOLEAN : WriteDump(t, breaks)
  \/ CloseOutputs

OutSpec == OutInit /\ [][OutNext]_outVars
-----------------------------------------------------------------------------

OutTypeOK ==
  /\ ToSet(opened) \subseteq Paths /\ begun \subseteq Paths
  /\ refused \subseteq selected /\ full \subseteq Paths
  /\ outPhase \in {"start", "writing", "closed", "error"}

\* The rows of a table in a file, and the rows of a dump
RowItems(t) == {"row"} \X ({t} \X Nat)
FieldItems == {"field"} \X (OutTables \X Nat) \X (1 .. Width)
RowsIn(t, p) ==
  LET rows == Kept(disk[p], RowItems(t))
  IN [n \in DOMAIN rows |-> rows[n][2]]
FieldsOf(rows) ==
  [k \in 1 .. Width * Len(rows) |->
     <<"field", rows[(k - 1) \div Width + 1], 1 + ((k - 1) % Width)>>]

\* What InspectDMP adds up, and what stands between two phases
PhaseItems(p, n) ==
  LET ph == dump[p].phases
      from == ph[n].start + 1
      to == IF n = Len(ph) THEN Len(disk[p]) ELSE ph[n + 1].start - 1
  IN SubSeq(disk[p], from, to)
DumpExact(t, p) ==
  LET ph == dump[p].phases
  IN /\ Kept(disk[p], FieldItems) = FieldsOf(wrote[t])
     /\ \A n \in DOMAIN ph : /\ disk[p][ph[n].start] = <<"phase", n + 1>>
                             /\ Len(PhaseItems(p, n)) = Width * ph[n].rows

\* An output closed without an error holds the rows written to it, whole, in
\* order, each once, and nothing an earlier run left there, however often the
\* files were closed or suspended in between; there are never more files open
\* than allowed; a dump with its final header is exact even when the export
\* failed; and a table without rows has no dump or dmfldr file, unless an empty
\* one for which no control file could be written, which was an error
\* (data_writer.go; comment on beginRowPhase, "dimp rejects the whole table
\* if a phase starts mid-row").
OutputsExact ==
  /\ split => Len(opened) <= MaxOpen
  /\ \A t \in selected : dump[PathOf(t)].sealed => DumpExact(t, PathOf(t))
  /\ outPhase = "closed" => \A t \in selected :
       IF outFormat # "sql" /\ wrote[t] = <<>>
       THEN disk[PathOf(t)] = Gone \/ (disk[PathOf(t)] = <<>> /\ t \in refused)
       ELSE IF outFormat = "dmp" THEN dump[PathOf(t)].sealed
       ELSE RowsIn(t, PathOf(t)) = wrote[t] /\ <<"old">> \notin ToSet(disk[PathOf(t)])
=============================================================================
