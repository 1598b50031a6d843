------------------------------- MODULE Session -------------------------------
(***************************************************************************)
(* The interactive session (interactiveSession): which SYSTEM.DBF is       *)
(* current, which dictionary is in memory, which ASM files are open, and   *)
(* what the commands set, bootstrap, load and unload make of them, with    *)
(* the dictionary directory of module DictionaryRebuild.                   *)
(*                                                                         *)
(* A database stands for the path of its SYSTEM.DBF.  Those in Files lie   *)
(* in the file system, each with its data files in its own directory,      *)
(* those in Asm on the raw members of ASM disk groups.  data_dir is left   *)
(* as it was at the start, so that one work directory serves all commands. *)
(***************************************************************************)
EXTENDS DictionaryRebuild

CONSTANTS
  Files,       \* SYSTEM.DBF paths of the file system
  Readable,    \* those that can be read
  HasControl,  \* those with a dm.ctl beside them
  Asm,         \* SYSTEM.DBF paths on ASM disks
  Blank,       \* the empty path
  MaxRuns,     \* bound: bootstraps
  MaxEdits,    \* bound: corrections of one dictionary
  MaxKills     \* bound: times the program is killed

Databases == Files \cup Asm

\* A dictionary: meta.tsv says it is of the database of and was read with the
\* dm.ctl of control; its rows come from the SYSTEM.DBF of from.
Dictionary == [of : Databases, from : Databases, control : HasControl \cup {None},
               run : 1 .. MaxRuns, edits : 0 .. MaxEdits]

ASSUME SessionAssumption ==
  /\ Readable \subseteq Files /\ HasControl \subseteq Readable
  /\ Files \cap Asm = {} /\ Blank \notin Databases /\ None \notin Databases
  /\ Dictionaries = Dictionary
  /\ MaxRuns \in Nat /\ MaxEdits \in Nat /\ MaxKills \in Nat

VARIABLES
  system,      \* s.systemPath
  control,     \* s.controlPath, as the database whose dm.ctl it names
  members,     \* s.asmDisks, as the databases found on them
  asm,         \* s.asmSystem and s.asmDataSources: the database they belong to
  dictionary,  \* s.dictionary
  controlDUL,  \* the databases whose files control.dul lists
  initDUL,     \* system, control and members as init.dul has them
  runs,
  kills,
  confirmed,   \* history: every dictionary loaded by command fitted the session
  chosen,      \* history: a command has named a dm.ctl
  mustReload,  \* history: a bootstrap failed and nothing was loaded since
  collected    \* history: the catalog of the ASM databases has been written

session == <<system, control, members, asm, dictionary>>
files == <<controlDUL, initDUL>>
bounds == <<runs, kills>>
history == <<confirmed, chosen, mustReload, collected>>
vars == <<pc, store, session, files, bounds, history>>

Init ==
  /\ pc = "idle"
  /\ StoreInit
  /\ system \in Files \ Readable
  /\ control = None
  /\ members = {}
  /\ asm = None
  /\ dictionary = None
  /\ controlDUL = {}
  /\ initDUL = [system |-> system, control |-> None, members |-> {}]
  /\ runs = 0
  /\ kills = 0
  /\ confirmed = TRUE
  /\ chosen = FALSE
  /\ mustReload = FALSE
  /\ collected = FALSE

Idle == pc = "idle" /\ UNCHANGED <<pc, bounds>>

\* A command that succeeds is followed by writeInitDUL.
Saved ==
  initDUL' = [system |-> system', control |-> control', members |-> members']

(***************************************************************************)
(* ASM                                                                     *)
(***************************************************************************)
\* selectASMSystemCandidate
Selected(path, found) ==
  IF path \in found THEN path
  ELSE IF Cardinality(found) = 1 THEN CHOOSE m \in found : TRUE
  ELSE Blank

\* discoverASMSystem for the path and members given: the files of the selected
\* database may fail to open.  dict is the dictionary held until then.
Discover(path, found, dict) ==
  LET s == Selected(path, found)
  IN /\ system' = s
     /\ members' = found
     /\ dictionary' = IF s = path THEN dict ELSE None
     /\ asm' \in IF s = Blank THEN {None} ELSE {s, None}

\* OpenRawASMStorage fails.
Undiscovered(path, found, dict) ==
  /\ system' = path
  /\ members' = found
  /\ dictionary' = dict
  /\ asm' = None

\* persistASMDiscovery, which may fail to write; the command then fails, and a
\* failing command does not write init.dul.
PersistThen(succeeds) ==
  \/ /\ active' = WithCatalog(active)
     /\ collected' = TRUE
     /\ IF succeeds THEN Saved ELSE UNCHANGED initDUL
     /\ UNCHANGED <<fresh, staging, moved, backups, strays, before, kept>>
  \/ UNCHANGED <<store, collected, initDUL>>

\* ensureASMOpen: the database whose files are open afterwards, None for an
\* error.  Files that are already open stay, whatever they belong to.
Opened(path) ==
  IF asm # None THEN {asm}
  ELSE IF path \in members THEN {path, None}
  ELSE {None}

(***************************************************************************)
(* set                                                                     *)
(***************************************************************************)
\* set system: ASM files are closed and looked up again, or no database of the
\* catalog stays selected, which may fail to be written.
SetSystem ==
  \E path \in Databases :
    /\ Idle
    /\ UNCHANGED <<control, controlDUL, confirmed, chosen, mustReload>>
    /\ IF path \in Asm /\ members # {}
       THEN \/ /\ Undiscovered(path, members, None)
               /\ UNCHANGED <<store, initDUL, collected>>
            \/ /\ Discover(path, members, None)
               /\ PersistThen(system' # Blank)
       ELSE /\ Undiscovered(path, members, None)
            /\ UNCHANGED <<store, collected>>
            /\ Saved \/ (members # {} /\ UNCHANGED initDUL)

\* set asm_disk
SetMembers ==
  \E found \in (SUBSET Asm) \ {{}} :
    LET path == IF system \in Asm THEN system ELSE Blank
    IN /\ Idle
       /\ UNCHANGED <<control, controlDUL, confirmed, chosen, mustReload>>
       /\ \/ /\ Undiscovered(path, found, None)
             /\ UNCHANGED <<store, initDUL, collected>>
          \/ /\ Discover(path, found, None)
             /\ PersistThen(TRUE)

\* set control
SetControl ==
  \E path \in HasControl \cup {None} :
    /\ Idle
    /\ control' = path
    /\ chosen' = (chosen \/ path # None)
    /\ dictionary' = None
    /\ UNCHANGED <<system, members, asm, store, controlDUL, confirmed, mustReload,
                   collected>>
    /\ Saved

\* set charset
SetCharset ==
  /\ Idle
  /\ dictionary' = None
  /\ UNCHANGED <<system, control, members, asm, store, files, history>>

(***************************************************************************)
(* bootstrap                                                               *)
(***************************************************************************)
\* optionalControlPathForSystem
ControlFor(path) ==
  IF control # None THEN control
  ELSE IF path \in HasControl THEN path ELSE None

\* What the scan of the running bootstrap finds.
Scanned ==
  [of      |-> system,
   from    |-> IF system \in Asm THEN asm ELSE system,
   control |-> IF system \in Asm THEN None ELSE ControlFor(system),
   run     |-> runs,
   edits   |-> 0]

\* The dictionary in memory is dropped and control.dul is written anew: the
\* files dm.ctl names, and those beside the SYSTEM.DBF.
StartBootstrap ==
  /\ pc = "idle" /\ runs < MaxRuns
  /\ runs' = runs + 1
  /\ dictionary' = None
  /\ \/ /\ system \in Readable
        /\ asm' = asm
        /\ controlDUL' = {system, ControlFor(system)} \ {None}
     \/ /\ system \in Asm
        /\ asm' \in Opened(system) \ {None}
        /\ controlDUL' = {asm'}
  /\ pc' = "scan"
  /\ Begin
  /\ UNCHANGED <<system, control, members, initDUL, kills, history>>

\* There is no SYSTEM.DBF to read, its data files cannot be listed, or
\* control.dul cannot be written.
BootstrapStops ==
  /\ pc = "idle" /\ runs < MaxRuns
  /\ runs' = runs + 1
  /\ dictionary' = None
  /\ asm' \in IF system \in Asm THEN Opened(system) ELSE {asm}
  /\ pc' = "failed"
  /\ Begin
  /\ UNCHANGED <<system, control, members, files, kills, history>>

\* Fault: the dictionary is taken over before it is on disk.
ScanEarly ==
  /\ pc = "scan"
  /\ fresh' = Scanned
  /\ dictionary' = fresh'
  /\ pc' = "stage"
  /\ UNCHANGED <<active, staging, moved, backups, strays, before, kept>>
  /\ UNCHANGED <<system, control, members, asm, files, bounds, history>>

\* LoadDictionary
Scan ==
  /\ pc = "scan"
  /\ fresh' = Scanned
  /\ pc' = "stage"
  /\ UNCHANGED <<active, staging, moved, backups, strays, before, kept>>
  /\ UNCHANGED <<session, files, bounds, history>>

\* The scan or the creation of the staging directory fails.
ScanFails ==
  /\ pc \in {"scan", "stage"}
  /\ pc' = "failed"
  /\ UNCHANGED <<store, session, files, bounds, history>>

RebuildStep ==
  /\ Rebuild
  /\ UNCHANGED <<session, files, bounds, history>>

\* The session takes the new dictionary over.
TakeOver ==
  /\ control' = fresh.control
  /\ dictionary' = fresh
  /\ mustReload' = FALSE
  /\ pc' = "idle"

FinishBootstrap ==
  /\ pc = "rebuilt"
  /\ fresh.of \in Files
  /\ TakeOver
  /\ Return(active)
  /\ UNCHANGED <<system, members, asm, controlDUL, bounds, confirmed, chosen, collected>>
  /\ Saved

\* In ASM mode the catalog is first written again, into the new directory.
FinishAsmBootstrap ==
  /\ pc = "rebuilt"
  /\ fresh.of \in Asm
  /\ TakeOver
  /\ system' = fresh.of
  /\ asm' \in {Selected(system, members), None} \ {Blank}
  /\ collected' = TRUE
  /\ Return(WithCatalog(active))
  /\ UNCHANGED <<members, controlDUL, bounds, confirmed, chosen>>
  /\ Saved

\* It cannot be written, and the session keeps no dictionary.
CatalogFails ==
  /\ pc = "rebuilt"
  /\ fresh.of \in Asm
  /\ pc' = "idle"
  /\ mustReload' = TRUE
  /\ system' = Selected(system, members)
  /\ asm' \in {system', None} \ {Blank}
  /\ Return(active)
  /\ UNCHANGED <<control, members, dictionary, files, bounds, confirmed, chosen, collected>>

\* The error is reported.
ReportFailure ==
  /\ pc \in {"failed", "unrestored"}
  /\ pc' = "idle"
  /\ mustReload' = TRUE
  /\ Return(active)
  /\ UNCHANGED <<session, files, bounds, confirmed, chosen, collected>>

(***************************************************************************)
(* load                                                                    *)
(***************************************************************************)
\* loadDictionaryFilesMode
TakeDictionary(d) ==
  /\ dictionary' = d
  /\ system' = d.of
  /\ control' = IF d.control # None THEN d.control ELSE control

\* load dictionary: no check, and ASM files stay open.
LoadDictionary ==
  /\ Idle
  /\ Loadable(active)
  /\ TakeDictionary(active.dict)
  /\ confirmed' = (confirmed /\ (asm = None \/ system' = system))
  /\ chosen' = (chosen \/ active.dict.control # None)
  /\ mustReload' = FALSE
  /\ UNCHANGED <<members, asm, store, controlDUL, collected>>
  /\ Saved

\* load parameter: the session as init.dul has it.
LoadInit ==
  /\ Idle
  /\ control' = initDUL.control
  /\ IF initDUL.members = {}
     THEN /\ Undiscovered(initDUL.system, {}, None)
          /\ UNCHANGED <<store, collected>>
          /\ Saved
     ELSE \/ /\ Undiscovered(initDUL.system, initDUL.members, None)
             /\ UNCHANGED <<store, initDUL, collected>>
          \/ /\ Discover(initDUL.system, initDUL.members, None)
             /\ PersistThen(TRUE)
  /\ UNCHANGED <<controlDUL, confirmed, chosen, mustReload>>

(***************************************************************************)
(* unload, and list                                                        *)
(***************************************************************************)
\* Fault: only a readable current path is compared.
ValidUnlessReadable(d) == system \notin Readable \/ d.of = system

\* validateAutoLoadedDictionary: a dictionary of another database is refused,
\* unless the current path names a file that cannot be read, or none.
ValidAutoLoad(d) == system \in (Files \ Readable) \cup {Blank} \/ d.of = system

\* A command that needs a dictionary takes the one on disk; what the command
\* then does may fail.
AutoLoad ==
  /\ Idle
  /\ dictionary = None
  /\ Loadable(active)
  /\ ValidAutoLoad(active.dict)
  /\ asm' \in IF system \in Asm THEN Opened(system) \ {None} ELSE {asm}
  /\ TakeDictionary(active.dict)
  /\ UNCHANGED <<members, store, controlDUL, history>>
  /\ Saved \/ UNCHANGED initDUL

\* exportData: ensureASMOpen, then the rows are read.
StartUnload ==
  /\ pc = "idle"
  /\ dictionary # None
  /\ \/ system \in Readable /\ asm' = asm
     \/ system \in Asm /\ asm' \in Opened(system) \ {None}
  /\ pc' = "unload"
  /\ UNCHANGED <<system, control, members, dictionary, store, files, bounds, history>>

FinishUnload ==
  /\ pc = "unload"
  /\ pc' = "idle"
  /\ UNCHANGED <<session, store, controlDUL, bounds, history>>
  /\ Saved \/ UNCHANGED initDUL

(***************************************************************************)
(* The operator and the machine                                            *)
(***************************************************************************)
CorrectFiles ==
  /\ Idle
  /\ Loadable(active) /\ active.dict.edits < MaxEdits
  /\ Correct([active.dict EXCEPT !.edits = @ + 1])
  /\ UNCHANGED <<session, files, history>>

\* A new session takes over what init.dul says.
NewSession ==
  /\ pc' = "start"
  /\ Undiscovered(initDUL.system, initDUL.members, None)
  /\ control' = initDUL.control
  /\ mustReload' = FALSE
  /\ UNCHANGED <<files, confirmed, chosen, collected>>

Restart == pc = "idle" /\ NewSession /\ UNCHANGED <<store, bounds>>

Kill ==
  /\ pc \notin {"idle", "start"} /\ kills < MaxKills
  /\ kills' = kills + 1
  /\ NewSession
  /\ Killed
  /\ UNCHANGED runs

\* autoProbeStartupSystem looks the ASM databases up; failures are warnings.
StartUp ==
  /\ pc = "start"
  /\ pc' = "idle"
  /\ \/ /\ members # {} /\ system \in Asm \cup {Blank}
        /\ Discover(system, members, None)
        /\ active' = WithCatalog(active)
        /\ collected' = TRUE
        /\ UNCHANGED <<fresh, staging, moved, backups, strays, before, kept>>
     \/ /\ members # {} /\ system \in Asm \cup {Blank}
        /\ Discover(system, members, None)
        /\ UNCHANGED <<store, collected>>
     \/ UNCHANGED <<system, members, asm, dictionary, store, collected>>
  /\ UNCHANGED <<control, controlDUL, bounds, confirmed, chosen, mustReload>>
  /\ Saved

Next ==
  \/ SetSystem \/ SetMembers \/ SetControl \/ SetCharset
  \/ StartBootstrap \/ BootstrapStops \/ Scan \/ ScanFails \/ RebuildStep
  \/ FinishBootstrap \/ FinishAsmBootstrap \/ CatalogFails \/ ReportFailure
  \/ LoadDictionary \/ LoadInit
  \/ AutoLoad \/ StartUnload \/ FinishUnload
  \/ CorrectFiles \/ Restart \/ Kill \/ StartUp

Spec == Init /\ [][Next]_vars

(***************************************************************************)
(* Properties                                                              *)
(***************************************************************************)
Directories == Content \cup {NoDir}

TypeOK ==
  /\ pc \in {"idle", "start", "scan", "stage", "write", "inspect", "activate",
            "discard", "rebuilt", "failed", "unrestored", "unload"}
  /\ fresh \in Dictionary \cup {None}
  /\ {active, staging, moved, before} \subseteq Directories
  /\ backups \subseteq Content
  /\ strays \in BOOLEAN
  /\ kept \subseteq Dictionary
  /\ system \in Databases \cup {Blank}
  /\ control \in HasControl \cup {None}
  /\ members \subseteq Asm
  /\ asm \in Asm \cup {None}
  /\ dictionary \in Dictionary \cup {None}
  /\ controlDUL \subseteq Databases
  /\ initDUL \in [system : Databases \cup {Blank}, control : HasControl \cup {None},
                 members : SUBSET Asm]
  /\ runs \in 0 .. MaxRuns /\ kills \in 0 .. MaxKills
  /\ {confirmed, chosen, mustReload, collected} \subseteq BOOLEAN

\* The session never mixes two databases: the dictionary in memory is that of
\* the current SYSTEM.DBF and was read from it, and open ASM files belong to it.
\* Only an explicit load of a dictionary of another database, while ASM files
\* are open, can break this; README.md leaves that check to the operator.
ReadersFollowSystem ==
  confirmed =>
    /\ dictionary # None => dictionary.of = system /\ dictionary.from = system
    /\ asm # None => asm = system

\* The memory is never ahead of the disk: the dictionary in memory has been
\* switched to before, in this or a later correction, and there is none while a
\* bootstrap runs or has just failed (docs/usage.md, bootstrap).
MemoryFollowsDisk ==
  /\ dictionary # None =>
       \E d \in kept : d.run = dictionary.run /\ d.edits >= dictionary.edits
  /\ pc \notin {"idle", "unload"} => dictionary = None

\* After a failed bootstrap nothing is unloaded before an explicit load or a
\* new bootstrap (repl.go, bootstrap).
ReloadIsExplicit == pc = "unload" => ~mustReload

\* Unless a command named a dm.ctl, the one in use lies beside SYSTEM.DBF
\* (docs/config.md, control).
ControlBesideSystem == pc = "unload" /\ ~chosen => control \in {None, system}

\* The catalog of the ASM databases, once written, is on disk after every
\* command (docs/recovery-workflow.md, ASM).
EvidenceKept ==
  pc = "idle" /\ collected =>
    \/ strays
    \/ active # NoDir /\ active.catalog
    \/ \E d \in backups : d.catalog
==============================================================================
