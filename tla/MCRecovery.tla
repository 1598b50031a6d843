----------------------------- MODULE MCRecovery ------------------------------
(* The commands of a recovery, model-checked over the worlds of MCDisks, MCRows
   and MCSystem: disks to files, files to pages, pages to rows, rows to outputs.
   A behaviour runs one command over one of its worlds, which "part" names;
   the state of the other commands stays as it is before they start. *)
EXTENDS MCDisks, MCRows, MCSystem

CONSTANT Commands  \* which of group, database, files, geometry, check, rescue,
                   \* catalog, page, row, lob, huge, copy and output are tried

VARIABLE part

diskVars == <<asmVars, databaseVars, filesVars>>
pagesVars == <<geometryVars, checkVars, rescueVars, catalogVars>>
valueVars == <<pageVars, rowVars, lobVars, hugeVars>>
targetVars == <<copyVars, outVars>>
recoveryVars == <<part, diskVars, pagesVars, valueVars, targetVars>>

AsmIdle == Init0(<<>>)
DatabaseIdle == /\ found = {} /\ system = NoPlace /\ control = {} /\ sources = {}
                /\ stage = "idle"
FilesIdle == /\ world = NoPlace /\ onDisk = <<>> /\ useCtl = FALSE /\ dul = <<>>
             /\ refs = {} /\ listed = {} /\ moves = 0 /\ filesPhase = "idle"
GeometryIdle == dbf = NoPlace /\ sizesLeft = {} /\ winners = {} /\ geometry = Undecided
CheckIdle == /\ disks = [files |-> <<>>, tables |-> {}, used |-> FALSE]
             /\ cursor = [file |-> 1, page |-> 1] /\ impact = [objects |-> {}]
             /\ counts = [checked |-> 0, empty |-> 0, noSum |-> 0, bad |-> 0]
             /\ stream = <<>> /\ kept = <<>> /\ report = [ended |-> "error"]
RescueIdle == /\ raw = [asked |-> "none"] /\ rescue = Idle /\ intruded = {}
              /\ outputs = [n \in {"evidence"} |-> Absent]
CatalogIdle == /\ image = NoPlace /\ unreadable = {} /\ plans = <<>> /\ known = <<>>
               /\ reported = FALSE /\ standard = TRUE /\ routines = <<>> /\ at = 0
               /\ loadPhase = "objects"
PageIdle == /\ rowPage = NoPlace /\ recovering = FALSE /\ broken = {} /\ layout = "base"
            /\ located = <<>> /\ verdict = "none"
RowIdle == /\ rowCase = NoPlace /\ lobs = <<>> /\ trying = <<>> /\ rowPhase = "idle"
           /\ parsed = <<>>
LobIdle == /\ lobWorld = [sound |-> FALSE] /\ chainAt = NoPage /\ unread = 0 /\ chunk = <<>>
           /\ passed = {} /\ room = -1 /\ owed = FALSE /\ delivered = <<>> /\ lobPhase = "start"
HugeIdle == /\ huge = [live |-> <<>>] /\ auxRows = <<>> /\ colFiles = <<>> /\ deletes = <<>>
            /\ updates = <<>> /\ sectionAt = <<0, 0>> /\ fullRows = 0 /\ rauxAt = 0
            /\ hugeRows = <<>> /\ hugePhase = "sections"
CopyIdle == /\ target = [b \in CopyNames |-> "absent"] /\ temp = "absent" /\ next = 1
            /\ step = "plan" /\ late = {} /\ lost = {} /\ intrusions = 0
OutIdle == /\ outFormat = "sql" /\ split = FALSE /\ selected = {} /\ disk = <<>> /\ held = <<>>
           /\ opened = <<>> /\ begun = {} /\ dump = <<>> /\ wrote = <<>> /\ refused = {}
           /\ full = {} /\ outPhase = "start"

RecoveryInit ==
  /\ part \in Commands
  /\ IF part = "group" THEN AsmInit ELSE AsmIdle
  /\ IF part = "database" THEN DatabaseInit ELSE DatabaseIdle
  /\ IF part = "files" THEN FilesInit ELSE FilesIdle
  /\ IF part = "geometry" THEN GeometryInit ELSE GeometryIdle
  /\ IF part = "check" THEN CheckInit ELSE CheckIdle
  /\ IF part = "rescue" THEN RescueInit ELSE RescueIdle
  /\ IF part = "catalog" THEN CatalogInit ELSE CatalogIdle
  /\ IF part = "page" THEN RowPageInit ELSE PageIdle
  /\ IF part = "row" THEN RowInit ELSE RowIdle
  /\ IF part = "lob" THEN LobInit ELSE LobIdle
  /\ IF part = "huge" THEN HugeInit ELSE HugeIdle
  /\ IF part = "copy" THEN CopyInit ELSE CopyIdle
  /\ IF part = "output" THEN OutInit ELSE OutIdle

DiskStep ==
  /\ \/ part = "group" /\ AsmNext /\ UNCHANGED <<databaseVars, filesVars>>
     \/ part = "database" /\ DatabaseNext /\ UNCHANGED <<asmVars, filesVars>>
     \/ part = "files" /\ FilesNext /\ UNCHANGED <<asmVars, databaseVars>>
  /\ UNCHANGED <<part, pagesVars, valueVars, targetVars>>
PagesStep ==
  /\ \/ part = "geometry" /\ GeometryNext /\ UNCHANGED <<checkVars, rescueVars, catalogVars>>
     \/ part = "check" /\ CheckNext /\ UNCHANGED <<geometryVars, rescueVars, catalogVars>>
     \/ part = "rescue" /\ RescueNext /\ UNCHANGED <<geometryVars, checkVars, catalogVars>>
     \/ part = "catalog" /\ CatalogNext /\ UNCHANGED <<geometryVars, checkVars, rescueVars>>
  /\ UNCHANGED <<part, diskVars, valueVars, targetVars>>
ValueStep ==
  /\ \/ part = "page" /\ RowPageNext /\ UNCHANGED <<rowVars, lobVars, hugeVars>>
     \/ part = "row" /\ RowNext /\ UNCHANGED <<pageVars, lobVars, hugeVars>>
     \/ part = "lob" /\ LobNext /\ UNCHANGED <<pageVars, rowVars, hugeVars>>
     \/ part = "huge" /\ HugeNext /\ UNCHANGED <<pageVars, rowVars, lobVars>>
  /\ UNCHANGED <<part, diskVars, pagesVars, targetVars>>
TargetStep ==
  /\ \/ part = "copy" /\ CopyNext /\ UNCHANGED outVars
     \/ part = "output" /\ OutNext /\ UNCHANGED copyVars
  /\ UNCHANGED <<part, diskVars, pagesVars, valueVars>>

RecoveryNext == DiskStep \/ PagesStep \/ ValueStep \/ TargetStep

\* The types of the state of the command that runs.
RecoveryTypeOK ==
  /\ part \in Commands
  /\ part = "group" => AsmTypeOK
  /\ part = "files" => FilesTypeOK
  /\ part = "check" => CheckTypeOK
  /\ part = "rescue" => RescueTypeOK
  /\ part = "catalog" => CatalogTypeOK
  /\ part = "lob" => LobTypeOK
  /\ part = "huge" => HugeTypeOK
  /\ part = "copy" => CopyTypeOK
  /\ part = "output" => OutTypeOK
=============================================================================
