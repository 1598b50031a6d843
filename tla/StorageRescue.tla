------------------------------ MODULE StorageRescue --------------------------
(***************************************************************************)
(* Recovery without a dictionary: the identity of every raw file from its  *)
(* pages, the inventory of the storages found (ScanStorages), and the      *)
(* recovery of one storage with columns the operator supplies              *)
(* (RecoverStorage), both in storage_scan.go.  Another program may create  *)
(* files meanwhile, a write may fail, and the process may be killed.       *)
(***************************************************************************)
EXTENDS Selection

CONSTANTS
  RawWorlds,   \* what TLC tries: records [files, group, storage, residual, format, asked]
  VotePages,   \* 128 in the code: that many pages tell what file it is
  SampleRows,  \* 3 in the code: rows kept as samples of a bucket
  RescueRuns,  \* bound: how often the operator starts the command
  Intruders    \* bound: files another program creates

\* slotted: a slot names the row; fits, renders: the columns describe it, and
\* its values can be written
StoredRow == [id : STRING, slotted : BOOLEAN, deleted : BOOLEAN, fits : BOOLEAN,
           renders : BOOLEAN]
StoredPage == [number : Nat, group : Nat, file : Nat, kind : STRING, storage : Nat,
            level : Nat, sound : BOOLEAN, blank : BOOLEAN, rows : Seq(StoredRow)]
StoredFile == [link : BOOLEAN, cut : BOOLEAN, pageSize : Nat, pages : Seq(StoredPage)]
StoredWorld == [files : Seq(StoredFile), group : Nat, storage : Nat, residual : BOOLEAN,
             format : STRING, asked : {"scan", "recover"}]

ASSUME RescueAssumption ==
  /\ RawWorlds \subseteq StoredWorld
  /\ VotePages \in Nat /\ SampleRows \in Nat /\ RescueRuns \in Nat /\ Intruders \in Nat

VARIABLES raw, rescue, outputs, intruded

rescueVars == <<raw, rescue, outputs, intruded>>

RawFiles == raw.files
NoKey == <<-1, -1>>
KeyOf(p) == <<p.group, p.file>>

\* rawStorageFiles: pages that stand at their place vote for the identity; the
\* most votes win, when they are two or more and no other has as many
Voters(f) ==
  {n \in DOMAIN RawFiles[f].pages :
     /\ n <= VotePages
     /\ RawFiles[f].pages[n].number = n /\ RawFiles[f].pages[n].kind # "none"}
Votes(f, key) == Cardinality({n \in Voters(f) : KeyOf(RawFiles[f].pages[n]) = key})
Nominees(f) == {KeyOf(RawFiles[f].pages[n]) : n \in Voters(f)}
Elected(f) ==
  {k \in Nominees(f) : /\ Votes(f, k) >= 2
                         /\ \A other \in Nominees(f) \ {k} : Votes(f, other) < Votes(f, k)}
FileIdentity(f) == IF Elected(f) = {} THEN NoKey ELSE CHOOSE k \in Elected(f) : TRUE

\* One file that has no identity, or the identity of another, ends the command
FilesKnown ==
  /\ RawFiles # <<>>
  /\ \A f \in DOMAIN RawFiles : ~RawFiles[f].link /\ FileIdentity(f) # NoKey
  /\ \A f \in DOMAIN RawFiles, g \in DOMAIN RawFiles : f # g => FileIdentity(f) # FileIdentity(g)

InGroup == {f \in DOMAIN RawFiles : FileIdentity(f)[1] = raw.group}
\* Pages of no whole number, of another size, or a damaged end are refused
GroupUsable ==
  /\ InGroup # {} /\ \A f \in InGroup : ~RawFiles[f].cut
  /\ \A f \in InGroup, g \in InGroup : RawFiles[f].pageSize = RawFiles[g].pageSize

PageAt(f, n) == RawFiles[f].pages[n]
InPlace(f, n) == PageAt(f, n).number = n /\ KeyOf(PageAt(f, n)) = FileIdentity(f)
\* The kinds of pages an inventory tells of: rows, branches of trees, LOBs, and
\* long rows
InventoryKinds == {"row", "branch", "lob", "long"}
IsLeaf(f, n) == PageAt(f, n).kind = "row" /\ PageAt(f, n).level = 0
IsOurs(f, n) == InPlace(f, n) /\ IsLeaf(f, n) /\ PageAt(f, n).storage = raw.storage

\* The rows a page gives: those of its slots, and with "residual" the others
Given(p) ==
  Kept(p.rows, {r \in StoredRow : (r.slotted /\ ~r.deleted) \/ raw.residual})
\* A row that the operator's columns do not describe is recorded, not guessed
Decodes(r) == r.fits /\ r.renders
Line(r) == [row |-> r.id, status |-> IF Decodes(r) THEN "EXPORTED" ELSE "FAILED"]
Lines == [row : STRING, status : {"EXPORTED", "FAILED"}]

Names == <<"output", "control", "evidence">>
Nobody == -1
Another == -2
Absent == [by |-> Nobody, rows |-> <<>>]
Foreign == [by |-> Another, rows |-> <<>>]
Mine(rows) == [by |-> rescue.run, rows |-> rows]

Idle == [phase |-> "idle", run |-> 0, file |-> 1, page |-> 1, pages |-> 0,
         rows |-> <<>>, log |-> <<>>, buckets |-> {}, invalid |-> 0, next |-> 1, made |-> {}, left |-> {}]

RescueInit ==
  /\ raw \in RawWorlds
  /\ rescue = Idle
  /\ outputs = [n \in ToSet(Names) |-> Absent]
  /\ intruded = {}

Stop(how) == rescue' = [rescue EXCEPT !.phase = how]
Busy == rescue.phase \notin {"idle", "done", "failed", "killed"}

\* An inventory counts an end of a file that is no whole page before its pages.
CutEnd(f) == IF raw.asked = "scan" /\ f \in DOMAIN RawFiles /\ RawFiles[f].cut THEN 1 ELSE 0

\* RecoverStorage and ScanStorages up to the first page.  A finished output is
\* never replaced by a retry; an inventory is
StartRescue ==
  /\ ~Busy /\ rescue.phase # "done" /\ rescue.run < RescueRuns
  /\ LET fresh == [Idle EXCEPT !.run = rescue.run + 1, !.invalid = CutEnd(1)]
         usable == FilesKnown /\ (raw.asked = "recover" =>
                     GroupUsable /\ \A n \in ToSet(Names) : outputs[n] = Absent)
     IN rescue' = [fresh EXCEPT !.phase = IF usable THEN "scanning" ELSE "failed"]
  /\ UNCHANGED <<raw, outputs, intruded>>

Cursor == rescue.phase = "scanning" /\ rescue.file <= Len(RawFiles)
InFile == Cursor /\ rescue.page <= Len(RawFiles[rescue.file].pages)
Step(r) == [r EXCEPT !.page = @ + 1]

\* One page of the recovery; a page of the storage whose directory does not hold
\* together ends it, as does a row that cannot be written
RecoverPage ==
  /\ InFile /\ raw.asked = "recover"
  /\ LET f == rescue.file  n == rescue.page  p == PageAt(f, n)
         ours == f \in InGroup /\ IsOurs(f, n)
         rows == Given(p)
     IN \/ /\ ours /\ p.sound
           /\ rescue' = Step([rescue EXCEPT
                !.pages = @ + 1,
                !.rows = @ \o Kept(rows, {r \in StoredRow : Decodes(r)}),
                !.log = @ \o [i \in DOMAIN rows |-> Line(rows[i])]])
        \/ ~ours /\ rescue' = Step(rescue)
        \/ ours /\ (~p.sound \/ \E i \in DOMAIN rows : Decodes(rows[i])) /\ Stop("failed")
  /\ UNCHANGED <<raw, outputs, intruded>>

Inventoried(p) == p.storage # 0 /\ p.kind \in InventoryKinds
\* One page of the inventory: a damaged page is counted and left
Bucket(f, p) == {b \in rescue.buckets : b.key = <<<<f, p.storage>>, p.kind>>}
InventoryPage ==
  /\ InFile /\ raw.asked = "scan"
  /\ LET f == rescue.file  n == rescue.page  p == PageAt(f, n)
         was == IF Bucket(f, p) = {} THEN [key |-> <<<<f, p.storage>>, p.kind>>, pages |-> 0,
                                          slots |-> 0, samples |-> 0]
                ELSE CHOOSE b \in Bucket(f, p) : TRUE
         slots == Cardinality({i \in DOMAIN p.rows : p.rows[i].slotted /\ ~p.rows[i].deleted})
         readable == IsLeaf(f, n) /\ p.sound
         counted == [was EXCEPT
            !.pages = @ + 1, !.slots = @ + IF readable THEN slots ELSE 0,
            !.samples = IF readable THEN Min({SampleRows, @ + Len(p.rows)}) ELSE @]
     IN rescue' = Step(
          CASE p.blank -> rescue
            [] ~p.blank /\ ~InPlace(f, n) -> [rescue EXCEPT !.invalid = @ + 1]
            [] ~p.blank /\ InPlace(f, n) /\ ~Inventoried(p) -> rescue
            [] ~p.blank /\ InPlace(f, n) /\ Inventoried(p) ->
                 [rescue EXCEPT !.buckets = (@ \ Bucket(f, p)) \cup {counted},
                                !.invalid = @ + IF IsLeaf(f, n) /\ ~p.sound THEN 1 ELSE 0])
  /\ UNCHANGED <<raw, outputs, intruded>>

NextFile ==
  /\ Cursor /\ ~InFile
  /\ rescue' = [rescue EXCEPT !.file = @ + 1, !.page = 1,
                              !.invalid = rescue.invalid + CutEnd(rescue.file + 1)]
  /\ UNCHANGED <<raw, outputs, intruded>>

\* Nothing found is an error, not an empty recovery; completing the staged files
\* may fail
FinishScan ==
  /\ rescue.phase = "scanning" /\ ~Cursor
  /\ \/ ~(raw.asked = "recover" /\ rescue.pages = 0) /\ Stop("publishing")
     \/ Stop("failed")
  /\ UNCHANGED <<raw, outputs, intruded>>

\* What stands in the staging directory: a format without rows has no output,
\* and only fldr has a control file
Staged(name) ==
  CASE name = "output" -> raw.format = "sql" \/ rescue.rows # <<>>
    [] name = "control" -> raw.format = "fldr" /\ rescue.rows # <<>>
    [] name = "evidence" -> TRUE
Content(name) == Mine(IF name = "output" THEN [i \in DOMAIN rescue.rows |-> rescue.rows[i].id]
                      ELSE IF name = "evidence" THEN rescue.log ELSE <<>>)

\* Fault: what was published stays.
WithdrawnNone(left) == outputs
\* What a failed publication takes back: all it made but what cannot be removed
Withdrawn(left) ==
  [n \in DOMAIN outputs |-> IF n \in rescue.made \ left THEN Absent ELSE outputs[n]]

\* A hard link never replaces a file, and may fail besides; when one fails those
\* made before are removed, and an error of that is not reported
PublishNext ==
  /\ rescue.phase = "publishing" /\ raw.asked = "recover" /\ rescue.next <= Len(Names)
  /\ LET name == Names[rescue.next]
     IN \/ /\ ~Staged(name)
           /\ rescue' = [rescue EXCEPT !.next = @ + 1]
           /\ UNCHANGED outputs
        \/ /\ Staged(name) /\ outputs[name] = Absent
           /\ rescue' = [rescue EXCEPT !.next = @ + 1, !.made = @ \cup {name}]
           /\ outputs' = [outputs EXCEPT ![name] = Content(name)]
        \/ /\ Staged(name)
           /\ \E left \in SUBSET rescue.made :
                /\ rescue' = [rescue EXCEPT !.phase = "failed", !.left = left]
                /\ outputs' = Withdrawn(left)
  /\ UNCHANGED <<raw, intruded>>

\* The inventory's three tables replace those of an earlier scan, the summary
\* last, and a rename may fail; here "output" stands for the samples, "control" for the errors and
\* "evidence" for the summary
RenameNext ==
  /\ rescue.phase = "publishing" /\ raw.asked = "scan" /\ rescue.next <= Len(Names)
  /\ \/ /\ outputs' = [outputs EXCEPT ![Names[rescue.next]] = Mine(<<>>)]
        /\ rescue' = [rescue EXCEPT !.next = @ + 1, !.made = @ \cup {Names[rescue.next]}]
     \/ Stop("failed") /\ UNCHANGED outputs
  /\ UNCHANGED <<raw, intruded>>

FinishRescue ==
  /\ rescue.phase = "publishing" /\ rescue.next > Len(Names)
  /\ Stop("done")
  /\ UNCHANGED <<raw, outputs, intruded>>

\* Another program creates a file that does not exist
IntrudeOutput ==
  /\ Cardinality(intruded) < Intruders
  /\ \E n \in ToSet(Names) :
       /\ outputs[n] = Absent
       /\ outputs' = [outputs EXCEPT ![n] = Foreign]
       /\ intruded' = intruded \cup {n}
  /\ UNCHANGED <<raw, rescue>>

\* The process is killed: what was published stays
Killed ==
  /\ Busy /\ Stop("killed") /\ UNCHANGED <<raw, outputs, intruded>>

RescueNext ==
  \/ StartRescue \/ RecoverPage \/ InventoryPage \/ NextFile \/ FinishScan
  \/ PublishNext \/ RenameNext \/ FinishRescue \/ IntrudeOutput \/ Killed

RescueSpec == RescueInit /\ [][RescueNext]_rescueVars
-----------------------------------------------------------------------------

Wanted ==
  UNION {UNION {{<<f, n, i>> : i \in DOMAIN Given(PageAt(f, n))} :
                  n \in {m \in DOMAIN RawFiles[f].pages : IsOurs(f, m)}} : f \in InGroup}
WantedIds == {Given(PageAt(w[1], w[2]))[w[3]].id : w \in Wanted}
OfRun == {n \in DOMAIN outputs : outputs[n].by = rescue.run}

\* Output, control file and evidence are published one by one while other
\* programs create files and the process may be killed.  A recovery that ends
\* well has published all it staged: the evidence has one line for every row of
\* every page of the storage, and the output the rows the evidence calls
\* exported; one that fails leaves none of its files but what the file system
\* refused to remove; a recovery never replaces the file of another program; and
\* the evidence of a run, or its summary of an inventory, never stands without
\* what that run has to go with it.
RescueWhole ==
  /\ \A n \in intruded : raw.asked = "recover" => outputs[n] = Foreign
  /\ rescue.phase = "done" /\ raw.asked = "recover" =>
       /\ OfRun = {n \in ToSet(Names) : Staged(n)}
       /\ Len(rescue.log) = Cardinality(Wanted)
       /\ {rescue.log[i].row : i \in DOMAIN rescue.log} = WantedIds
       /\ outputs["evidence"].rows = rescue.log
       /\ "output" \in OfRun =>
            LET exported == Kept(rescue.log, {e \in Lines : e.status = "EXPORTED"})
            IN outputs["output"].rows = [i \in DOMAIN exported |-> exported[i].row]
  /\ rescue.phase = "failed" /\ raw.asked = "recover" => OfRun \subseteq rescue.left
  /\ "evidence" \in OfRun =>
       IF raw.asked = "scan" THEN OfRun = ToSet(Names)
       ELSE OfRun = {n \in ToSet(Names) : Staged(n)}

Buckets == [key : (Nat \X Nat) \X STRING, pages : Nat, slots : Nat,
            samples : 0 .. SampleRows]
RescueStates ==
  [phase : {"idle", "scanning", "publishing", "done", "failed", "killed"},
   run : 0 .. RescueRuns, file : Nat \ {0}, page : Nat \ {0}, pages : Nat,
   rows : Seq(StoredRow), log : Seq(Lines), buckets : SUBSET Buckets, invalid : Nat,
   next : 1 .. Len(Names) + 1, made : SUBSET ToSet(Names), left : SUBSET ToSet(Names)]

RescueTypeOK ==
  /\ raw \in RawWorlds
  /\ rescue \in RescueStates /\ (rescue.phase # "idle" => rescue.run # 0)
  /\ outputs = [n \in ToSet(Names) |-> outputs[n]]
  /\ \A n \in ToSet(Names) :
       outputs[n] \in [by : {Nobody, Another} \cup (1 .. RescueRuns),
                      rows : IF n = "evidence" THEN Seq(Lines) ELSE Seq(STRING)]
  /\ intruded \subseteq ToSet(Names)
=============================================================================
