---------------------------- MODULE SessionProofs ----------------------------
(***************************************************************************)
(* Proofs about Session.  The properties do not suffice by themselves: a   *)
(* dictionary that is loaded must already be known to be whole, kept and   *)
(* read from the database it names, wherever the bootstrap has put it, and *)
(* the files the bootstrap reads from must be known while it runs.  IInv   *)
(* adds this, step by step of the bootstrap.                               *)
(***************************************************************************)
EXTENDS Session, FiniteSetTheorems, TLAPS

\* What is known of a directory that may be, or become again, the active one.
Sound(d) ==
  d # NoDir /\ d.dict # None =>
    /\ d.files = NumFiles
    /\ d.dict \in kept
    /\ confirmed => d.dict.of = d.dict.from

SoundDirectories == Sound(active) /\ Sound(moved) /\ Sound(before)

\* The files that are open lie on the members that are set.
OpenFiles == asm # None => asm \in members

Running == {"scan", "stage", "write", "inspect", "activate", "discard", "rebuilt"}

\* The database a bootstrap works on.
Source ==
  pc \in Running =>
    /\ system \in Readable \cup Asm
    /\ system \in Asm => asm # None
    /\ runs \in 1 .. MaxRuns

Fresh ==
  pc \in Running \ {"scan"} =>
    /\ fresh \in Dictionary
    /\ fresh.of = system
    /\ confirmed => fresh.from = fresh.of

Untouched ==
  /\ pc \in {"scan", "stage", "write", "inspect"} => active = before
  /\ pc \in {"idle", "start", "unload"} => before = NoDir
  /\ pc \notin {"activate", "discard"} => moved = NoDir

Staged ==
  /\ pc \in {"write", "inspect", "activate"} => staging # NoDir /\ staging.dict = fresh
  /\ pc \in {"inspect", "activate"} => staging.files = NumFiles

SwitchedAway ==
  pc = "activate" =>
    /\ active = NoDir
    /\ moved = before
    /\ moved # NoDir => moved \in backups \/ moved.dict = None

Switched == pc \in {"discard", "rebuilt"} => fresh \in kept

IInv ==
  /\ TypeOK
  /\ CorrectionsKept /\ FailureRestores /\ ReadersFollowSystem /\ MemoryFollowsDisk
  /\ SoundDirectories /\ OpenFiles /\ Source /\ Fresh /\ Untouched /\ Staged
  /\ SwitchedAway /\ Switched

LEMMA WholeFollows == IInv => ActiveWhole
BY DEF IInv, SoundDirectories, Sound, ActiveWhole

USE SessionAssumption, RebuildAssumption, NoDirAssumption

(***************************************************************************)
(* Operators                                                               *)
(***************************************************************************)
\* selectASMSystemCandidate answers a database found on the members, or none.
LEMMA SelectedType ==
  ASSUME NEW path \in Databases \cup {Blank}, NEW found \in SUBSET Asm
  PROVE  /\ Selected(path, found) \in found \cup {Blank}
         /\ path \in found => Selected(path, found) = path
<1>1. Cardinality({}) = 0
  BY FS_EmptySet
<1>2. Cardinality(found) = 1 => found # {}
  BY <1>1
<1> QED
  BY <1>2 DEF Selected

\* Writing the catalog leaves the dictionary of a directory alone.
LEMMA CatalogLeavesDictionary ==
  ASSUME NEW d \in Directories
  PROVE  /\ WithCatalog(d) \in Content
         /\ d = NoDir => WithCatalog(d).dict = None
         /\ d # NoDir => WithCatalog(d).dict = d.dict /\ WithCatalog(d).files = d.files
<1>1. CASE d = NoDir
  <2>1. 0 \in 0 .. NumFiles
    OBVIOUS
  <2> QED
    BY <1>1, <2>1 DEF WithCatalog, Content
<1>2. CASE d # NoDir
  <2>1. d \in Content
    BY <1>2 DEF Directories
  <2>2. WithCatalog(d) = [d EXCEPT !.catalog = TRUE]
    BY <1>2 DEF WithCatalog
  <2> QED
    BY <1>2, <2>1, <2>2 DEF Content
<1> QED
  BY <1>1, <1>2

LEMMA ScannedType ==
  ASSUME IInv, pc = "scan"
  PROVE  /\ Scanned \in Dictionary
         /\ Scanned.of = system
         /\ confirmed => Scanned.from = Scanned.of
<1> USE DEF IInv, TypeOK, Source, Running
<1>1. ControlFor(system) \in HasControl \cup {None}
  BY DEF ControlFor
<1>2. (IF system \in Asm THEN asm ELSE system) \in Databases
  BY DEF Databases
<1>3. Scanned \in Dictionary
  BY <1>1, <1>2 DEF Scanned, Dictionary, Databases
<1>4. confirmed => Scanned.from = Scanned.of
  BY DEF Scanned, ReadersFollowSystem
<1> QED
  BY <1>3, <1>4 DEF Scanned

(***************************************************************************)
(* Initially                                                               *)
(***************************************************************************)
LEMMA InitInv == Init => IInv
<1> SUFFICES ASSUME Init PROVE IInv
  OBVIOUS
<1> USE DEF Init, StoreInit
<1>1. TypeOK
  <2>1. initDUL \in [system : Databases \cup {Blank}, control : HasControl \cup {None},
                    members : SUBSET Asm]
    BY DEF Databases
  <2>2. 0 \in 0 .. MaxRuns /\ 0 \in 0 .. MaxKills
    OBVIOUS
  <2> QED
    BY <2>1, <2>2 DEF TypeOK, Directories, Databases
<1>2. CorrectionsKept /\ FailureRestores /\ ReadersFollowSystem /\ MemoryFollowsDisk
  BY DEF CorrectionsKept, FailureRestores, ReadersFollowSystem, MemoryFollowsDisk
<1>3. SoundDirectories /\ OpenFiles
  BY DEF SoundDirectories, Sound, OpenFiles
<1>4. Source /\ Fresh /\ Untouched /\ Staged /\ SwitchedAway /\ Switched
  BY DEF Source, Fresh, Untouched, Staged, SwitchedAway, Switched, Running
<1> QED
  BY <1>1, <1>2, <1>3, <1>4 DEF IInv

(***************************************************************************)
(* Commands between two bootstraps                                         *)
(***************************************************************************)
AtRest == {"idle", "start", "unload"}

\* They write at most the catalog of the ASM databases.
StoreAtRest ==
  /\ active' = active \/ active' = WithCatalog(active)
  /\ UNCHANGED <<fresh, staging, moved, backups, strays, before, kept>>

\* What a command owes for the store.
LEMMA AtRestStep ==
  ASSUME IInv, pc \in AtRest, pc' \in AtRest, StoreAtRest,
         TypeOK', OpenFiles', ReadersFollowSystem', MemoryFollowsDisk',
         confirmed' => confirmed
  PROVE  IInv'
<1> USE DEF IInv, AtRest, StoreAtRest
<1>1. active \in Directories
  BY DEF TypeOK
<1>2. WithCatalog(active) \in Content
  BY <1>1, CatalogLeavesDictionary
<1>3. /\ active = NoDir => active' = NoDir \/ active'.dict = None
      /\ active # NoDir => /\ active' # NoDir
                          /\ active'.dict = active.dict /\ active'.files = active.files
  BY <1>1, <1>2, CatalogLeavesDictionary
<1>4. CorrectionsKept' /\ FailureRestores'
  BY <1>3 DEF CorrectionsKept, FailureRestores
<1>5. SoundDirectories'
  BY <1>3 DEF SoundDirectories, Sound
<1>6. Source' /\ Fresh' /\ Staged' /\ SwitchedAway' /\ Switched'
  BY DEF Source, Fresh, Staged, SwitchedAway, Switched, Running
<1>7. Untouched'
  BY DEF Untouched
<1> QED
  BY <1>4, <1>5, <1>6, <1>7

\* The store keeps its types.
LEMMA AtRestType ==
  ASSUME TypeOK, StoreAtRest
  PROVE  /\ fresh' \in Dictionary \cup {None}
         /\ {active', staging', moved', before'} \subseteq Directories
         /\ backups' \subseteq Content
         /\ strays' \in BOOLEAN
         /\ kept' \subseteq Dictionary
<1>1. active' \in Directories
  BY CatalogLeavesDictionary DEF TypeOK, StoreAtRest, Directories
<1> QED
  BY <1>1 DEF TypeOK, StoreAtRest

LEMMA UnchangedAtRest == UNCHANGED store => StoreAtRest
BY DEF store, StoreAtRest

\* Persisting the catalog, or failing to, is all a discovery does to the store.
LEMMA PersistAtRest ==
  ASSUME NEW succeeds \in BOOLEAN, PersistThen(succeeds), TypeOK
  PROVE  /\ StoreAtRest
         /\ collected' \in BOOLEAN
         /\ Saved \/ UNCHANGED initDUL
BY DEF PersistThen, StoreAtRest, store, TypeOK

\* The path that is selected lies on the members, and so do the files opened.
LEMMA Discovered ==
  ASSUME NEW path \in Databases \cup {Blank}, NEW found \in SUBSET Asm,
         Discover(path, found, None)
  PROVE  /\ system' \in Databases \cup {Blank}
         /\ members' = found
         /\ dictionary' = None
         /\ asm' # None => asm' \in found /\ asm' = system'
         /\ asm' \in Asm \cup {None}
BY SelectedType DEF Discover, Databases

LEMMA OpenedType ==
  ASSUME IInv, system \in Asm, NEW a \in Opened(system) \ {None}
  PROVE  /\ a \in members /\ a \in Asm /\ a # None
         /\ confirmed => a = system
BY DEF Opened, IInv, OpenFiles, ReadersFollowSystem, TypeOK

\* init.dul has what the session has.
LEMMA SavedType ==
  ASSUME Saved, system' \in Databases \cup {Blank},
         control' \in HasControl \cup {None}, members' \subseteq Asm
  PROVE  initDUL' \in [system : Databases \cup {Blank}, control : HasControl \cup {None},
                      members : SUBSET Asm]
BY DEF Saved

(***************************************************************************)
(* One lemma for each command                                              *)
(***************************************************************************)
\* A command that looks the ASM databases up leaves no dictionary.
LEMMA DiscoveryStep ==
  ASSUME IInv, pc \in AtRest, pc' = "idle", StoreAtRest,
         NEW path \in Databases \cup {Blank}, NEW found \in SUBSET Asm,
         Undiscovered(path, found, None) \/ Discover(path, found, None),
         control' \in HasControl \cup {None}, collected' \in BOOLEAN,
         Saved \/ UNCHANGED initDUL,
         UNCHANGED <<controlDUL, bounds, confirmed, chosen, mustReload>>
  PROVE  IInv'
<1>1. /\ system' \in Databases \cup {Blank}
      /\ members' = found
      /\ dictionary' = None
      /\ asm' # None => asm' \in found /\ asm' = system'
      /\ asm' \in Asm \cup {None}
  BY Discovered DEF Undiscovered
<1>2. initDUL' \in [system : Databases \cup {Blank}, control : HasControl \cup {None},
                   members : SUBSET Asm]
  <2>1. CASE Saved
    BY <1>1, <2>1, SavedType
  <2>2. CASE UNCHANGED initDUL
    BY <2>2 DEF IInv, TypeOK
  <2> QED
    BY <2>1, <2>2
<1>3. TypeOK'
  BY <1>1, <1>2, AtRestType DEF IInv, TypeOK, bounds
<1>4. OpenFiles' /\ ReadersFollowSystem' /\ MemoryFollowsDisk'
  BY <1>1 DEF OpenFiles, ReadersFollowSystem, MemoryFollowsDisk
<1> QED
  BY <1>3, <1>4, AtRestStep DEF AtRest

LEMMA SetSystemStep == IInv /\ SetSystem => IInv'
<1> SUFFICES ASSUME IInv, SetSystem PROVE IInv'
  OBVIOUS
<1>1. PICK path \in Databases :
        /\ Idle
        /\ UNCHANGED <<control, controlDUL, confirmed, chosen, mustReload>>
        /\ IF path \in Asm /\ members # {}
           THEN \/ /\ Undiscovered(path, members, None)
                   /\ UNCHANGED <<store, initDUL, collected>>
                \/ /\ Discover(path, members, None)
                   /\ PersistThen(system' # Blank)
           ELSE /\ Undiscovered(path, members, None)
                /\ UNCHANGED <<store, collected>>
                /\ Saved \/ (members # {} /\ UNCHANGED initDUL)
  BY DEF SetSystem
<1>2. /\ pc = "idle" /\ pc' = "idle"
      /\ UNCHANGED <<controlDUL, bounds, confirmed, chosen, mustReload>>
      /\ control' \in HasControl \cup {None} /\ collected \in BOOLEAN
      /\ members \in SUBSET Asm
  BY <1>1 DEF Idle, IInv, TypeOK
<1>3. CASE /\ Undiscovered(path, members, None)
           /\ UNCHANGED <<store, initDUL, collected>>
  <2>1. StoreAtRest
    BY <1>3, UnchangedAtRest
  <2> QED
    BY <1>2, <1>3, <2>1, DiscoveryStep DEF AtRest
<1>4. CASE Discover(path, members, None) /\ PersistThen(system' # Blank)
  <2>1. StoreAtRest /\ collected' \in BOOLEAN /\ (Saved \/ UNCHANGED initDUL)
    BY <1>4, PersistAtRest DEF IInv
  <2> QED
    BY <1>2, <1>4, <2>1, DiscoveryStep DEF AtRest
<1>5. CASE /\ Undiscovered(path, members, None)
           /\ UNCHANGED <<store, collected>>
           /\ Saved \/ UNCHANGED initDUL
  <2>1. StoreAtRest
    BY <1>5, UnchangedAtRest
  <2> QED
    BY <1>2, <1>5, <2>1, DiscoveryStep DEF AtRest
<1> QED
  BY <1>1, <1>3, <1>4, <1>5

LEMMA SetMembersStep == IInv /\ SetMembers => IInv'
<1> SUFFICES ASSUME IInv, SetMembers PROVE IInv'
  OBVIOUS
<1> DEFINE path == IF system \in Asm THEN system ELSE Blank
<1>1. PICK found \in SUBSET Asm :
        /\ Idle
        /\ UNCHANGED <<control, controlDUL, confirmed, chosen, mustReload>>
        /\ \/ /\ Undiscovered(path, found, None)
              /\ UNCHANGED <<store, initDUL, collected>>
           \/ /\ Discover(path, found, None)
              /\ PersistThen(TRUE)
  BY DEF SetMembers
<1>2. /\ pc = "idle" /\ pc' = "idle"
      /\ UNCHANGED <<controlDUL, bounds, confirmed, chosen, mustReload>>
      /\ control' \in HasControl \cup {None} /\ collected \in BOOLEAN
      /\ path \in Databases \cup {Blank}
  BY <1>1 DEF Idle, IInv, TypeOK, Databases
<1> HIDE DEF path
<1>3. CASE /\ Undiscovered(path, found, None)
           /\ UNCHANGED <<store, initDUL, collected>>
  <2>1. StoreAtRest
    BY <1>3, UnchangedAtRest
  <2> QED
    BY <1>2, <1>3, <2>1, DiscoveryStep DEF AtRest
<1>4. CASE Discover(path, found, None) /\ PersistThen(TRUE)
  <2>1. StoreAtRest /\ collected' \in BOOLEAN /\ (Saved \/ UNCHANGED initDUL)
    BY <1>4, PersistAtRest DEF IInv
  <2> QED
    BY <1>2, <1>4, <2>1, DiscoveryStep DEF AtRest
<1> QED
  BY <1>1, <1>3, <1>4

LEMMA LoadInitStep == IInv /\ LoadInit => IInv'
<1> SUFFICES ASSUME IInv, LoadInit PROVE IInv'
  OBVIOUS
<1>1. /\ pc = "idle" /\ pc' = "idle"
      /\ UNCHANGED <<controlDUL, bounds, confirmed, chosen, mustReload>>
      /\ control' \in HasControl \cup {None} /\ collected \in BOOLEAN
      /\ initDUL.system \in Databases \cup {Blank}
      /\ initDUL.members \in SUBSET Asm /\ {} \in SUBSET Asm
  BY DEF LoadInit, Idle, IInv, TypeOK
<1>2. CASE /\ Undiscovered(initDUL.system, {}, None)
           /\ UNCHANGED <<store, collected>>
           /\ Saved
  <2>1. StoreAtRest
    BY <1>2, UnchangedAtRest
  <2> QED
    BY <1>1, <1>2, <2>1, DiscoveryStep DEF AtRest
<1>3. CASE /\ Undiscovered(initDUL.system, initDUL.members, None)
           /\ UNCHANGED <<store, initDUL, collected>>
  <2>1. StoreAtRest
    BY <1>3, UnchangedAtRest
  <2> QED
    BY <1>1, <1>3, <2>1, DiscoveryStep DEF AtRest
<1>4. CASE Discover(initDUL.system, initDUL.members, None) /\ PersistThen(TRUE)
  <2>1. StoreAtRest /\ collected' \in BOOLEAN /\ (Saved \/ UNCHANGED initDUL)
    BY <1>4, PersistAtRest DEF IInv
  <2> QED
    BY <1>1, <1>4, <2>1, DiscoveryStep DEF AtRest
<1> QED
  BY <1>2, <1>3, <1>4 DEF LoadInit

\* The discovery at the start, where init.dul is always written.
LEMMA StartUpStep == IInv /\ StartUp => IInv'
<1> SUFFICES ASSUME IInv, StartUp PROVE IInv'
  OBVIOUS
<1>1. /\ pc = "start" /\ pc' = "idle" /\ Saved /\ dictionary = None
      /\ UNCHANGED <<control, controlDUL, bounds, confirmed, chosen, mustReload>>
      /\ control' \in HasControl \cup {None} /\ collected \in BOOLEAN
      /\ system \in Databases \cup {Blank} /\ members \in SUBSET Asm
  BY DEF StartUp, IInv, TypeOK, MemoryFollowsDisk
<1>2. CASE /\ Discover(system, members, None)
           /\ active' = WithCatalog(active)
           /\ collected' = TRUE
           /\ UNCHANGED <<fresh, staging, moved, backups, strays, before, kept>>
  <2>1. StoreAtRest
    BY <1>2 DEF StoreAtRest
  <2> QED
    BY <1>1, <1>2, <2>1, DiscoveryStep DEF AtRest
<1>3. CASE Discover(system, members, None) /\ UNCHANGED <<store, collected>>
  <2>1. StoreAtRest
    BY <1>3, UnchangedAtRest
  <2> QED
    BY <1>1, <1>3, <2>1, DiscoveryStep DEF AtRest
<1>4. CASE UNCHANGED <<system, members, asm, dictionary, store, collected>>
  <2>1. StoreAtRest
    BY <1>4, UnchangedAtRest
  <2>2. initDUL' \in [system : Databases \cup {Blank}, control : HasControl \cup {None},
                     members : SUBSET Asm]
    BY <1>1, <1>4, SavedType
  <2>3. TypeOK'
    BY <1>1, <1>4, <2>1, <2>2, AtRestType DEF IInv, TypeOK, bounds
  <2>4. OpenFiles' /\ ReadersFollowSystem' /\ MemoryFollowsDisk'
    BY <1>1, <1>4 DEF IInv, OpenFiles, ReadersFollowSystem, MemoryFollowsDisk
  <2> QED
    BY <1>1, <2>1, <2>3, <2>4, AtRestStep DEF AtRest
<1> QED
  BY <1>2, <1>3, <1>4 DEF StartUp

\* The dictionary on disk, once loaded, is that of the session.
LEMMA TakenDictionary ==
  ASSUME IInv, pc = "idle", Loadable(active), TakeDictionary(active.dict)
  PROVE  /\ dictionary' \in Dictionary
         /\ dictionary' \in kept
         /\ system' \in Databases /\ system' = dictionary'.of
         /\ control' \in HasControl \cup {None}
         /\ confirmed => dictionary'.from = dictionary'.of
         /\ \E d \in kept : d.run = dictionary'.run /\ d.edits >= dictionary'.edits
<1>1. active.dict \in Dictionary /\ active.dict \in kept
  BY DEF Loadable, IInv, SoundDirectories, Sound, TypeOK
<1>2. active.dict.edits >= active.dict.edits
  BY <1>1 DEF Dictionary
<1> QED
  BY <1>1, <1>2 DEF TakeDictionary, Dictionary, IInv, SoundDirectories, Sound, Loadable,
                    TypeOK

LEMMA LoadDictionaryStep == IInv /\ LoadDictionary => IInv'
<1> SUFFICES ASSUME IInv, LoadDictionary PROVE IInv'
  OBVIOUS
<1>1. /\ pc = "idle" /\ pc' = "idle" /\ Saved /\ StoreAtRest
      /\ confirmed' = (confirmed /\ (asm = None \/ system' = system))
      /\ chosen' = (chosen \/ active.dict.control # None)
      /\ mustReload' = FALSE
      /\ UNCHANGED <<members, asm, controlDUL, bounds, collected, kept>>
  BY UnchangedAtRest DEF LoadDictionary, Idle, store
<1>2. /\ dictionary' \in Dictionary
      /\ system' \in Databases /\ system' = dictionary'.of
      /\ control' \in HasControl \cup {None}
      /\ confirmed => dictionary'.from = dictionary'.of
      /\ \E d \in kept : d.run = dictionary'.run /\ d.edits >= dictionary'.edits
  BY <1>1, TakenDictionary DEF LoadDictionary
<1>3. initDUL' \in [system : Databases \cup {Blank}, control : HasControl \cup {None},
                   members : SUBSET Asm]
  BY <1>1, <1>2, SavedType DEF IInv, TypeOK
<1>4. TypeOK'
  BY <1>1, <1>2, <1>3, AtRestType DEF IInv, TypeOK, bounds
<1>5. OpenFiles' /\ ReadersFollowSystem' /\ MemoryFollowsDisk'
  BY <1>1, <1>2 DEF IInv, OpenFiles, ReadersFollowSystem, MemoryFollowsDisk
<1> QED
  BY <1>1, <1>4, <1>5, AtRestStep DEF AtRest, IInv, TypeOK

\* The check of the path is what keeps open ASM files and dictionary together.
LEMMA AutoLoadStep == IInv /\ AutoLoad => IInv'
<1> SUFFICES ASSUME IInv, AutoLoad PROVE IInv'
  OBVIOUS
<1>1. /\ pc = "idle" /\ pc' = "idle" /\ StoreAtRest
      /\ Saved \/ UNCHANGED initDUL
      /\ ValidAutoLoad(active.dict)
      /\ asm' \in IF system \in Asm THEN Opened(system) \ {None} ELSE {asm}
      /\ UNCHANGED <<members, controlDUL, bounds, history, kept>>
  BY UnchangedAtRest DEF AutoLoad, Idle, store
<1>2. /\ dictionary' \in Dictionary
      /\ system' \in Databases /\ system' = dictionary'.of
      /\ dictionary' = active.dict
      /\ control' \in HasControl \cup {None}
      /\ confirmed => dictionary'.from = dictionary'.of
      /\ \E d \in kept : d.run = dictionary'.run /\ d.edits >= dictionary'.edits
  BY <1>1, TakenDictionary DEF AutoLoad, TakeDictionary
<1>3. /\ asm' \in Asm \cup {None}
      /\ asm' # None => asm' \in members
      /\ confirmed /\ asm' # None => asm' = system'
  <2>1. CASE system \in Asm
    <3>1. dictionary'.of = system
      BY <1>1, <1>2, <2>1 DEF ValidAutoLoad, Databases
    <3> QED
      BY <1>1, <1>2, <2>1, <3>1, OpenedType
  <2>2. CASE system \notin Asm
    BY <1>1, <2>2 DEF IInv, OpenFiles, ReadersFollowSystem, TypeOK
  <2> QED
    BY <2>1, <2>2
<1>4. initDUL' \in [system : Databases \cup {Blank}, control : HasControl \cup {None},
                   members : SUBSET Asm]
  BY <1>1, <1>2, SavedType DEF IInv, TypeOK
<1>5. TypeOK'
  BY <1>1, <1>2, <1>3, <1>4, AtRestType DEF IInv, TypeOK, bounds, history
<1>6. OpenFiles' /\ ReadersFollowSystem' /\ MemoryFollowsDisk'
  BY <1>1, <1>2, <1>3 DEF IInv, OpenFiles, ReadersFollowSystem, MemoryFollowsDisk, history
<1> QED
  BY <1>1, <1>5, <1>6, AtRestStep DEF AtRest, history

LEMMA StartUnloadStep == IInv /\ StartUnload => IInv'
<1> SUFFICES ASSUME IInv, StartUnload PROVE IInv'
  OBVIOUS
<1>1. /\ pc = "idle" /\ pc' = "unload" /\ StoreAtRest
      /\ UNCHANGED <<system, control, members, dictionary, files, bounds, history, kept>>
  BY UnchangedAtRest DEF StartUnload, store
<1>2. /\ asm' \in Asm \cup {None}
      /\ asm' # None => asm' \in members
      /\ confirmed /\ asm' # None => asm' = system
  BY OpenedType DEF StartUnload, IInv, TypeOK, OpenFiles, ReadersFollowSystem
<1>3. TypeOK'
  BY <1>1, <1>2, AtRestType DEF IInv, TypeOK, files, bounds, history
<1>4. OpenFiles' /\ ReadersFollowSystem' /\ MemoryFollowsDisk'
  BY <1>1, <1>2 DEF IInv, OpenFiles, ReadersFollowSystem, MemoryFollowsDisk, history
<1> QED
  BY <1>1, <1>3, <1>4, AtRestStep DEF AtRest, history

\* The commands that leave path and ASM files alone and load nothing.
LEMMA PlainCommand ==
  ASSUME IInv, pc \in AtRest, pc' \in AtRest, StoreAtRest,
         UNCHANGED <<system, members, controlDUL, bounds, confirmed, mustReload,
                     collected, kept>>,
         asm' = asm, control' \in HasControl \cup {None}, chosen' \in BOOLEAN,
         \/ dictionary' = None
         \/ UNCHANGED dictionary /\ pc' # "start",
         Saved \/ UNCHANGED initDUL
  PROVE  IInv'
<1>1. initDUL' \in [system : Databases \cup {Blank}, control : HasControl \cup {None},
                   members : SUBSET Asm]
  BY SavedType DEF IInv, TypeOK
<1>2. TypeOK'
  BY <1>1, AtRestType DEF IInv, TypeOK, bounds, AtRest
<1>3. OpenFiles' /\ ReadersFollowSystem' /\ MemoryFollowsDisk'
  BY DEF IInv, OpenFiles, ReadersFollowSystem, MemoryFollowsDisk, AtRest
<1> QED
  BY <1>2, <1>3, AtRestStep

LEMMA SetControlStep == IInv /\ SetControl => IInv'
BY PlainCommand, UnchangedAtRest
   DEF SetControl, Idle, IInv, TypeOK, AtRest, bounds, store

LEMMA SetCharsetStep == IInv /\ SetCharset => IInv'
BY PlainCommand, UnchangedAtRest
   DEF SetCharset, Idle, IInv, TypeOK, AtRest, history, files, store

LEMMA FinishUnloadStep == IInv /\ FinishUnload => IInv'
BY PlainCommand, UnchangedAtRest
   DEF FinishUnload, session, IInv, TypeOK, AtRest, history, store

LEMMA RestartStep == IInv /\ Restart => IInv'
<1> SUFFICES ASSUME IInv, Restart PROVE IInv'
  OBVIOUS
<1>1. StoreAtRest /\ kept' = kept
  BY UnchangedAtRest DEF Restart, store
<1>2. TypeOK'
  BY <1>1, AtRestType
     DEF Restart, NewSession, Undiscovered, IInv, TypeOK, bounds, files
<1>3. OpenFiles' /\ ReadersFollowSystem' /\ MemoryFollowsDisk'
  BY DEF Restart, NewSession, Undiscovered, OpenFiles, ReadersFollowSystem,
         MemoryFollowsDisk
<1> QED
  BY <1>1, <1>2, <1>3, AtRestStep DEF Restart, NewSession, AtRest

\* A correction takes the place of what it corrects.
LEMMA CorrectFilesStep == IInv /\ CorrectFiles => IInv'
<1> SUFFICES ASSUME IInv, CorrectFiles PROVE IInv'
  OBVIOUS
<1> DEFINE old == active.dict
           new == [active.dict EXCEPT !.edits = @ + 1]
<1>1. /\ pc = "idle" /\ pc' = "idle"
      /\ active # NoDir /\ old # None /\ old.edits < MaxEdits
      /\ active' = [active EXCEPT !.dict = new]
      /\ kept' = (kept \ {old}) \cup {new}
      /\ UNCHANGED <<fresh, staging, moved, backups, strays, before, session, files,
                     bounds, history>>
  BY DEF CorrectFiles, Idle, Correct, Loadable
<1>2. active \in Content /\ old \in Dictionary /\ old \in kept
  BY <1>1 DEF IInv, TypeOK, Directories, Content, SoundDirectories, Sound
<1>3. /\ new \in Dictionary
      /\ new.of = old.of /\ new.from = old.from /\ new.run = old.run
      /\ new.edits = old.edits + 1
  BY <1>1, <1>2 DEF Dictionary
<1> HIDE DEF old, new
<1>4. active' \in Content /\ active'.dict = new /\ active'.files = active.files
  BY <1>1, <1>2, <1>3 DEF Content
<1>5. active' # NoDir /\ new # None
  BY <1>3, <1>4
<1>6. TypeOK'
  BY <1>1, <1>3, <1>4 DEF IInv, TypeOK, Directories, session, files, bounds, history
<1>7. CorrectionsKept'
  BY <1>1, <1>4, <1>5 DEF IInv, CorrectionsKept, old
<1>8. ReadersFollowSystem' /\ OpenFiles' /\ FailureRestores'
  BY <1>1 DEF IInv, ReadersFollowSystem, OpenFiles, FailureRestores, session, history
<1>9. MemoryFollowsDisk'
  <2>1. SUFFICES ASSUME dictionary # None
                 PROVE  \E d \in kept' : d.run = dictionary.run
                                         /\ d.edits >= dictionary.edits
    BY <1>1 DEF MemoryFollowsDisk, session
  <2>2. PICK d \in kept : d.run = dictionary.run /\ d.edits >= dictionary.edits
    BY <2>1 DEF IInv, MemoryFollowsDisk
  <2>3. CASE d = old
    <3>1. old.edits \in Nat /\ dictionary.edits \in Nat
      BY <1>2, <2>1 DEF IInv, TypeOK, Dictionary
    <3> QED
      BY <1>1, <1>3, <2>2, <2>3, <3>1
  <2>4. CASE d # old
    BY <1>1, <2>2, <2>4
  <2> QED
    BY <2>3, <2>4
<1>10. SoundDirectories'
  <2>1. moved = NoDir /\ before = NoDir
    BY <1>1 DEF IInv, Untouched
  <2> QED
    BY <1>1, <1>3, <1>4, <2>1
       DEF IInv, SoundDirectories, Sound, history, old
<1>11. Source' /\ Fresh' /\ Untouched' /\ Staged' /\ SwitchedAway' /\ Switched'
  BY <1>1 DEF IInv, Source, Fresh, Untouched, Staged, SwitchedAway, Switched, Running
<1> QED
  BY <1>6, <1>7, <1>8, <1>9, <1>10, <1>11 DEF IInv

(***************************************************************************)
(* One lemma for each step of a bootstrap                                  *)
(***************************************************************************)
\* A step that leaves the session and its history alone disturbs only what is
\* known of the directories.
LEMMA SessionUntouched ==
  ASSUME IInv, UNCHANGED <<session, files, bounds, history>>,
         pc \notin AtRest, kept \subseteq kept'
  PROVE  OpenFiles' /\ ReadersFollowSystem' /\ MemoryFollowsDisk'
BY DEF IInv, OpenFiles, ReadersFollowSystem, MemoryFollowsDisk, session, history, AtRest

LEMMA StartBootstrapStep == IInv /\ StartBootstrap => IInv'
<1> SUFFICES ASSUME IInv, StartBootstrap PROVE IInv'
  OBVIOUS
<1>1. /\ pc = "idle" /\ pc' = "scan" /\ dictionary' = None
      /\ runs < MaxRuns /\ runs' = runs + 1
      /\ before' = active
      /\ UNCHANGED <<fresh, active, staging, moved, backups, strays, kept>>
      /\ UNCHANGED <<system, control, members, initDUL, kills, history>>
  BY DEF StartBootstrap, Begin
<1>2. /\ system \in Readable \cup Asm
      /\ asm' \in Asm \cup {None}
      /\ asm' # None => asm' \in members
      /\ confirmed /\ asm' # None => asm' = system
      /\ system \in Asm => asm' # None
      /\ controlDUL' \subseteq Databases
  <2>1. CASE /\ system \in Readable
             /\ asm' = asm
             /\ controlDUL' = {system, ControlFor(system)} \ {None}
    <3>1. ControlFor(system) \in HasControl \cup {None}
      BY DEF ControlFor, IInv, TypeOK
    <3> QED
      BY <2>1, <3>1 DEF IInv, TypeOK, OpenFiles, ReadersFollowSystem, Databases
  <2>2. CASE /\ system \in Asm
             /\ asm' \in Opened(system) \ {None}
             /\ controlDUL' = {asm'}
    BY <2>2, OpenedType DEF Databases
  <2> QED
    BY <2>1, <2>2 DEF StartBootstrap
<1>3. runs' \in 1 .. MaxRuns
  BY <1>1 DEF IInv, TypeOK
<1>4. TypeOK'
  BY <1>1, <1>2, <1>3 DEF IInv, TypeOK, history
<1>5. OpenFiles' /\ ReadersFollowSystem' /\ MemoryFollowsDisk'
  BY <1>1, <1>2 DEF OpenFiles, ReadersFollowSystem, MemoryFollowsDisk, history
<1>6. CorrectionsKept' /\ FailureRestores' /\ SoundDirectories'
  BY <1>1 DEF IInv, CorrectionsKept, FailureRestores, SoundDirectories, Sound, history
<1>7. Source' /\ Fresh' /\ Untouched' /\ Staged' /\ SwitchedAway' /\ Switched'
  BY <1>1, <1>2, <1>3
     DEF IInv, Source, Fresh, Untouched, Staged, SwitchedAway, Switched, Running
<1> QED
  BY <1>4, <1>5, <1>6, <1>7 DEF IInv

LEMMA BootstrapStopsStep == IInv /\ BootstrapStops => IInv'
<1> SUFFICES ASSUME IInv, BootstrapStops PROVE IInv'
  OBVIOUS
<1>0. /\ asm' \in Asm \cup {None}
      /\ asm' # None => asm' \in members
      /\ confirmed /\ asm' # None => asm' = system
  BY OpenedType DEF BootstrapStops, IInv, TypeOK, OpenFiles, ReadersFollowSystem
<1>1. /\ pc = "idle" /\ pc' = "failed" /\ dictionary' = None
      /\ runs < MaxRuns /\ runs' = runs + 1
      /\ before' = active
      /\ UNCHANGED <<fresh, active, staging, moved, backups, strays, kept>>
      /\ UNCHANGED <<system, control, members, files, kills, history>>
  BY DEF BootstrapStops, Begin
<1>2. runs' \in 0 .. MaxRuns
  BY <1>1 DEF IInv, TypeOK
<1>3. TypeOK'
  BY <1>0, <1>1, <1>2 DEF IInv, TypeOK, history, files
<1>4. OpenFiles' /\ ReadersFollowSystem' /\ MemoryFollowsDisk'
  BY <1>0, <1>1 DEF IInv, OpenFiles, ReadersFollowSystem, MemoryFollowsDisk, history
<1>5. CorrectionsKept' /\ FailureRestores' /\ SoundDirectories'
  BY <1>1 DEF IInv, CorrectionsKept, FailureRestores, SoundDirectories, Sound, history
<1>6. Source' /\ Fresh' /\ Untouched' /\ Staged' /\ SwitchedAway' /\ Switched'
  BY <1>1 DEF IInv, Source, Fresh, Untouched, Staged, SwitchedAway, Switched, Running
<1> QED
  BY <1>3, <1>4, <1>5, <1>6 DEF IInv

LEMMA ScanStep == IInv /\ Scan => IInv'
<1> SUFFICES ASSUME IInv, Scan PROVE IInv'
  OBVIOUS
<1>1. /\ pc = "scan" /\ pc' = "stage" /\ fresh' = Scanned
      /\ UNCHANGED <<active, staging, moved, backups, strays, before, kept>>
      /\ UNCHANGED <<session, files, bounds, history>>
  BY DEF Scan
<1>2. /\ fresh' \in Dictionary /\ fresh'.of = system
      /\ confirmed => fresh'.from = fresh'.of
  BY <1>1, ScannedType
<1>3. TypeOK'
  BY <1>1, <1>2 DEF IInv, TypeOK, session, files, bounds, history
<1>4. OpenFiles' /\ ReadersFollowSystem' /\ MemoryFollowsDisk'
  BY <1>1, SessionUntouched DEF AtRest
<1>5. CorrectionsKept' /\ FailureRestores' /\ SoundDirectories'
  BY <1>1 DEF IInv, CorrectionsKept, FailureRestores, SoundDirectories, Sound, history
<1>6. Source' /\ Fresh' /\ Untouched' /\ Staged' /\ SwitchedAway' /\ Switched'
  BY <1>1, <1>2 DEF IInv, Source, Fresh, Untouched, Staged, SwitchedAway, Switched, Running,
                   session, bounds, history
<1> QED
  BY <1>3, <1>4, <1>5, <1>6 DEF IInv

\* Until the rename, active is what the bootstrap found.
LEMMA ScanFailsStep == IInv /\ ScanFails => IInv'
<1> SUFFICES ASSUME IInv, ScanFails PROVE IInv'
  OBVIOUS
<1>1. /\ pc \in {"scan", "stage"} /\ pc' = "failed"
      /\ UNCHANGED <<store, session, files, bounds, history>>
  BY DEF ScanFails
<1>2. TypeOK'
  BY <1>1 DEF IInv, TypeOK, store, session, files, bounds, history
<1>3. OpenFiles' /\ ReadersFollowSystem' /\ MemoryFollowsDisk'
  BY <1>1, SessionUntouched DEF AtRest, store
<1>4. CorrectionsKept' /\ FailureRestores' /\ SoundDirectories'
  BY <1>1 DEF IInv, CorrectionsKept, FailureRestores, SoundDirectories, Sound, Untouched,
              store, history
<1>5. Source' /\ Fresh' /\ Untouched' /\ Staged' /\ SwitchedAway' /\ Switched'
  BY <1>1 DEF IInv, Source, Fresh, Untouched, Staged, SwitchedAway, Switched, Running, store
<1> QED
  BY <1>2, <1>3, <1>4, <1>5 DEF IInv

\* The steps before the switch: they write the staging directory or drop it.
LEMMA StagingStep ==
  IInv /\ (CreateStaging \/ WriteFile \/ Validate \/ RebuildFails)
       /\ UNCHANGED <<session, files, bounds, history>> => IInv'
<1> SUFFICES ASSUME IInv, CreateStaging \/ WriteFile \/ Validate \/ RebuildFails,
                    UNCHANGED <<session, files, bounds, history>>
             PROVE  IInv'
  OBVIOUS
<1>1. /\ pc \in {"stage", "write", "inspect"} /\ pc' \in {"write", "inspect", "failed"}
      /\ UNCHANGED <<fresh, active, moved, backups, strays, before, kept>>
  BY DEF CreateStaging, WriteFile, Validate, RebuildFails, store
<1>2. /\ pc' \in {"write", "inspect"} => staging' \in Content /\ staging'.dict = fresh
      /\ pc' = "inspect" => staging'.files = NumFiles
      /\ pc' = "failed" => staging' = NoDir
  <2>1. CASE CreateStaging
    <3>1. 0 \in 0 .. NumFiles /\ fresh \in Dictionaries
      BY <2>1 DEF CreateStaging, IInv, Fresh, Running
    <3> QED
      BY <2>1, <3>1 DEF CreateStaging, Content
  <2>2. CASE WriteFile
    <3>1. staging \in Content /\ staging.dict = fresh
      BY <2>2 DEF WriteFile, IInv, TypeOK, Directories, Staged
    <3>2. staging.files + 1 \in 0 .. NumFiles
      BY <2>2, <3>1 DEF WriteFile, Content
    <3> QED
      BY <2>2, <3>1, <3>2 DEF WriteFile, Content
  <2>3. CASE Validate
    BY <2>3 DEF Validate, IInv, TypeOK, Directories, Staged, store
  <2>4. CASE RebuildFails
    BY <2>4 DEF RebuildFails
  <2> QED
    BY <2>1, <2>2, <2>3, <2>4
<1>3. TypeOK'
  BY <1>1, <1>2 DEF IInv, TypeOK, Directories, session, files, bounds, history
<1>4. OpenFiles' /\ ReadersFollowSystem' /\ MemoryFollowsDisk'
  BY <1>1, SessionUntouched DEF AtRest
<1>5. CorrectionsKept' /\ FailureRestores' /\ SoundDirectories'
  BY <1>1 DEF IInv, CorrectionsKept, FailureRestores, SoundDirectories, Sound, Untouched,
              history
<1>6. Source' /\ Fresh' /\ Untouched' /\ SwitchedAway' /\ Switched'
  BY <1>1 DEF IInv, Source, Fresh, Untouched, SwitchedAway, Switched, Running,
              session, bounds, history
<1>7. Staged'
  BY <1>1, <1>2 DEF Staged
<1> QED
  BY <1>3, <1>4, <1>5, <1>6, <1>7 DEF IInv

\* The active directory is moved out of the way; it is not lost by that.
LEMMA MoveStep ==
  IInv /\ (NothingToMove \/ SetCatalogAside \/ Archive)
       /\ UNCHANGED <<session, files, bounds, history>> => IInv'
<1> SUFFICES ASSUME IInv, NothingToMove \/ SetCatalogAside \/ Archive,
                    UNCHANGED <<session, files, bounds, history>>
             PROVE  IInv'
  OBVIOUS
<1>1. /\ pc = "inspect" /\ pc' = "activate"
      /\ active' = NoDir /\ moved' = active
      /\ UNCHANGED <<fresh, staging, strays, before, kept>>
  BY DEF NothingToMove, SetCatalogAside, Archive
<1>2. /\ backups \subseteq backups' /\ backups' \subseteq Content
      /\ active # NoDir => active \in backups' \/ active.dict = None
  BY DEF NothingToMove, SetCatalogAside, Archive, CatalogOnly, IInv, TypeOK, Directories
<1>3. TypeOK'
  BY <1>1, <1>2 DEF IInv, TypeOK, Directories, session, files, bounds, history
<1>4. OpenFiles' /\ ReadersFollowSystem' /\ MemoryFollowsDisk'
  BY <1>1, SessionUntouched DEF AtRest
<1>5. CorrectionsKept'
  <2>1. None \notin kept
    BY DEF IInv, TypeOK
  <2> QED
    BY <1>1, <1>2, <2>1 DEF IInv, CorrectionsKept
<1>6. FailureRestores' /\ SoundDirectories'
  BY <1>1 DEF IInv, FailureRestores, SoundDirectories, Sound, history
<1>7. SwitchedAway'
  BY <1>1, <1>2 DEF IInv, Untouched, SwitchedAway
<1>8. Source' /\ Fresh' /\ Untouched' /\ Staged' /\ Switched'
  BY <1>1 DEF IInv, Source, Fresh, Untouched, Staged, Switched, Running,
              session, bounds, history
<1> QED
  BY <1>3, <1>4, <1>5, <1>6, <1>7, <1>8 DEF IInv

\* The staging directory becomes the active one.
LEMMA ActivateStep ==
  IInv /\ Activate /\ UNCHANGED <<session, files, bounds, history>> => IInv'
<1> SUFFICES ASSUME IInv, Activate, UNCHANGED <<session, files, bounds, history>>
             PROVE  IInv'
  OBVIOUS
<1>1. /\ pc = "activate" /\ pc' = "discard"
      /\ active' = staging /\ staging' = NoDir
      /\ kept' = kept \cup {staging.dict}
      /\ UNCHANGED <<fresh, moved, backups, strays, before>>
  BY DEF Activate
<1>2. /\ staging \in Content /\ staging # NoDir
      /\ staging.dict = fresh /\ staging.files = NumFiles
      /\ fresh \in Dictionary
      /\ confirmed => fresh.from = fresh.of
      /\ active = NoDir
  BY <1>1 DEF IInv, TypeOK, Directories, Staged, Fresh, Running, SwitchedAway
<1>3. TypeOK'
  BY <1>1, <1>2 DEF IInv, TypeOK, Directories, session, files, bounds, history
<1>4. OpenFiles' /\ ReadersFollowSystem' /\ MemoryFollowsDisk'
  BY <1>1, SessionUntouched DEF AtRest
<1>5. CorrectionsKept' /\ FailureRestores'
  BY <1>1, <1>2 DEF IInv, CorrectionsKept, FailureRestores
<1>6. SoundDirectories'
  BY <1>1, <1>2 DEF IInv, SoundDirectories, Sound, history
<1>7. Source' /\ Fresh' /\ Untouched' /\ Staged' /\ SwitchedAway' /\ Switched'
  BY <1>1, <1>2 DEF IInv, Source, Fresh, Untouched, Staged, SwitchedAway, Switched, Running,
                   session, bounds, history
<1> QED
  BY <1>3, <1>4, <1>5, <1>6, <1>7 DEF IInv

\* What was moved is moved back.
LEMMA ActivateFailsStep ==
  IInv /\ ActivateFails /\ UNCHANGED <<session, files, bounds, history>> => IInv'
<1> SUFFICES ASSUME IInv, ActivateFails, UNCHANGED <<session, files, bounds, history>>
             PROVE  IInv'
  OBVIOUS
<1>1. /\ pc = "activate" /\ pc' = "failed"
      /\ staging' = NoDir /\ moved' = NoDir
      /\ active' = moved /\ backups' = backups \ {moved}
      /\ UNCHANGED <<fresh, strays, before, kept>>
  BY DEF ActivateFails
<1>2. active = NoDir /\ moved = before
  BY <1>1 DEF IInv, SwitchedAway
<1>3. TypeOK'
  BY <1>1 DEF IInv, TypeOK, Directories, session, files, bounds, history
<1>4. OpenFiles' /\ ReadersFollowSystem' /\ MemoryFollowsDisk'
  BY <1>1, SessionUntouched DEF AtRest
<1>5. CorrectionsKept'
  <2>1. NoDir \notin backups
    BY DEF IInv, TypeOK
  <2> QED
    BY <1>1, <1>2, <2>1 DEF IInv, CorrectionsKept
<1>6. FailureRestores' /\ SoundDirectories'
  BY <1>1, <1>2 DEF IInv, FailureRestores, SoundDirectories, Sound, history
<1>7. Source' /\ Fresh' /\ Untouched' /\ Staged' /\ SwitchedAway' /\ Switched'
  BY <1>1 DEF IInv, Source, Fresh, Untouched, Staged, SwitchedAway, Switched, Running
<1> QED
  BY <1>3, <1>4, <1>5, <1>6, <1>7 DEF IInv

LEMMA RestoreFailsStep ==
  IInv /\ RestoreFails /\ UNCHANGED <<session, files, bounds, history>> => IInv'
<1> SUFFICES ASSUME IInv, RestoreFails, UNCHANGED <<session, files, bounds, history>>
             PROVE  IInv'
  OBVIOUS
<1>1. /\ pc = "activate" /\ pc' = "unrestored"
      /\ staging' = NoDir /\ moved' = NoDir
      /\ strays' \in BOOLEAN
      /\ UNCHANGED <<fresh, active, backups, before, kept>>
  BY DEF RestoreFails, IInv, TypeOK, CatalogOnly
<1>2. TypeOK'
  BY <1>1 DEF IInv, TypeOK, Directories, session, files, bounds, history
<1>3. OpenFiles' /\ ReadersFollowSystem' /\ MemoryFollowsDisk'
  BY <1>1, SessionUntouched DEF AtRest
<1>4. CorrectionsKept' /\ FailureRestores' /\ SoundDirectories'
  BY <1>1 DEF IInv, CorrectionsKept, FailureRestores, SoundDirectories, Sound, history
<1>5. Source' /\ Fresh' /\ Untouched' /\ Staged' /\ SwitchedAway' /\ Switched'
  BY <1>1 DEF IInv, Source, Fresh, Untouched, Staged, SwitchedAway, Switched, Running
<1> QED
  BY <1>2, <1>3, <1>4, <1>5 DEF IInv

LEMMA DiscardStep ==
  IInv /\ Discard /\ UNCHANGED <<session, files, bounds, history>> => IInv'
<1> SUFFICES ASSUME IInv, Discard, UNCHANGED <<session, files, bounds, history>>
             PROVE  IInv'
  OBVIOUS
<1>1. /\ pc = "discard" /\ pc' = "rebuilt" /\ moved' = NoDir
      /\ UNCHANGED <<fresh, active, staging, backups, strays, before, kept>>
  BY DEF Discard
<1>2. TypeOK'
  BY <1>1 DEF IInv, TypeOK, Directories, session, files, bounds, history
<1>3. OpenFiles' /\ ReadersFollowSystem' /\ MemoryFollowsDisk'
  BY <1>1, SessionUntouched DEF AtRest
<1>4. CorrectionsKept' /\ FailureRestores' /\ SoundDirectories'
  BY <1>1 DEF IInv, CorrectionsKept, FailureRestores, SoundDirectories, Sound, history
<1>5. Source' /\ Fresh' /\ Untouched' /\ Staged' /\ SwitchedAway' /\ Switched'
  BY <1>1 DEF IInv, Source, Fresh, Untouched, Staged, SwitchedAway, Switched, Running,
              session, bounds, history
<1> QED
  BY <1>2, <1>3, <1>4, <1>5 DEF IInv

(***************************************************************************)
(* The end of a bootstrap                                                  *)
(***************************************************************************)
\* What the end of a bootstrap owes for the directories.
LEMMA ReturnStep ==
  ASSUME IInv, pc \in {"rebuilt", "failed", "unrestored"}, pc' = "idle",
         Return(active) \/ Return(WithCatalog(active)),
         UNCHANGED confirmed
  PROVE  /\ fresh' \in Dictionary \cup {None}
         /\ {active', staging', moved', before'} \subseteq Directories
         /\ backups' \subseteq Content /\ strays' \in BOOLEAN /\ kept' = kept
         /\ CorrectionsKept' /\ FailureRestores' /\ SoundDirectories'
         /\ Source' /\ Fresh' /\ Untouched' /\ Staged' /\ SwitchedAway' /\ Switched'
<1> USE DEF IInv
<1>1. active \in Directories
  BY DEF TypeOK
<1>2. WithCatalog(active) \in Content
  BY <1>1, CatalogLeavesDictionary
<1>3. /\ active = NoDir => active' = NoDir \/ active'.dict = None
      /\ active # NoDir => /\ active' # NoDir
                          /\ active'.dict = active.dict /\ active'.files = active.files
  BY <1>1, <1>2, CatalogLeavesDictionary DEF Return
<1>4. /\ active' \in Directories
      /\ fresh' = None /\ before' = NoDir /\ moved = NoDir
      /\ UNCHANGED <<staging, moved, backups, strays, kept>>
  BY <1>1, <1>2 DEF Return, Directories, Untouched
<1>5. /\ fresh' \in Dictionary \cup {None}
      /\ {active', staging', moved', before'} \subseteq Directories
      /\ backups' \subseteq Content /\ strays' \in BOOLEAN /\ kept' = kept
  BY <1>4 DEF TypeOK, Directories
<1>6. CorrectionsKept' /\ FailureRestores'
  BY <1>3, <1>4 DEF CorrectionsKept, FailureRestores
<1>7. SoundDirectories'
  BY <1>3, <1>4 DEF SoundDirectories, Sound
<1>8. Source' /\ Fresh' /\ Untouched' /\ Staged' /\ SwitchedAway' /\ Switched'
  BY <1>4 DEF Source, Fresh, Untouched, Staged, SwitchedAway, Switched, Running
<1> QED
  BY <1>5, <1>6, <1>7, <1>8

\* The dictionary that is taken over has been switched to.
LEMMA TakenOver ==
  ASSUME IInv, pc = "rebuilt", TakeOver
  PROVE  /\ dictionary' \in Dictionary /\ dictionary' \in kept
         /\ dictionary'.of = system /\ system \in Databases
         /\ confirmed => dictionary'.from = system
         /\ control' \in HasControl \cup {None}
         /\ \E d \in kept : d.run = dictionary'.run /\ d.edits >= dictionary'.edits
<1>1. fresh \in Dictionary /\ fresh \in kept /\ fresh.of = system
      /\ (confirmed => fresh.from = system) /\ system \in Databases
  BY DEF IInv, Fresh, Switched, Source, Running, Databases
<1>2. fresh.edits >= fresh.edits /\ fresh.control \in HasControl \cup {None}
  BY <1>1 DEF Dictionary
<1> QED
  BY <1>1, <1>2 DEF TakeOver

LEMMA FinishBootstrapStep == IInv /\ FinishBootstrap => IInv'
<1> SUFFICES ASSUME IInv, FinishBootstrap PROVE IInv'
  OBVIOUS
<1>1. /\ pc = "rebuilt" /\ pc' = "idle" /\ Saved /\ TakeOver /\ Return(active)
      /\ mustReload' = FALSE
      /\ UNCHANGED <<system, members, asm, controlDUL, bounds, confirmed, chosen, collected>>
  BY DEF FinishBootstrap, TakeOver
<1>2. /\ dictionary' \in Dictionary /\ dictionary' \in kept
      /\ dictionary'.of = system /\ system \in Databases
      /\ confirmed => dictionary'.from = system
      /\ control' \in HasControl \cup {None}
      /\ \E d \in kept : d.run = dictionary'.run /\ d.edits >= dictionary'.edits
  BY <1>1, TakenOver
<1>3. initDUL' \in [system : Databases \cup {Blank}, control : HasControl \cup {None},
                   members : SUBSET Asm]
  BY <1>1, <1>2, SavedType DEF IInv, TypeOK
<1>4. TypeOK'
  BY <1>1, <1>2, <1>3, ReturnStep DEF IInv, TypeOK, bounds
<1>5. kept' = kept
  BY <1>1 DEF Return
<1>6. OpenFiles' /\ ReadersFollowSystem' /\ MemoryFollowsDisk'
  BY <1>1, <1>2, <1>5 DEF IInv, OpenFiles, ReadersFollowSystem, MemoryFollowsDisk
<1> QED
  BY <1>1, <1>4, <1>6, ReturnStep DEF IInv

\* The bootstrap ran with files open, on the members, so that the database is
\* found there again.
LEMMA FinishAsmBootstrapStep == IInv /\ FinishAsmBootstrap => IInv'
<1> SUFFICES ASSUME IInv, FinishAsmBootstrap PROVE IInv'
  OBVIOUS
<1>1. /\ pc = "rebuilt" /\ pc' = "idle" /\ Saved /\ TakeOver
      /\ Return(WithCatalog(active))
      /\ fresh.of \in Asm /\ system' = fresh.of
      /\ asm' \in {Selected(system, members), None} \ {Blank}
      /\ mustReload' = FALSE /\ collected' = TRUE
      /\ UNCHANGED <<members, controlDUL, bounds, confirmed, chosen>>
  BY DEF FinishAsmBootstrap, TakeOver
<1>2. /\ dictionary' \in Dictionary /\ dictionary' \in kept
      /\ dictionary'.of = system /\ system \in Databases
      /\ confirmed => dictionary'.from = system
      /\ control' \in HasControl \cup {None}
      /\ \E d \in kept : d.run = dictionary'.run /\ d.edits >= dictionary'.edits
  BY <1>1, TakenOver
<1>3. system' = system /\ system \in Asm
  BY <1>1 DEF IInv, Fresh, Running
<1>4. /\ Selected(system, members) \in members \cup {Blank}
      /\ system \in members => Selected(system, members) = system
  BY <1>2, SelectedType DEF IInv, TypeOK
<1>5. /\ asm' \in Asm \cup {None}
      /\ asm' # None => asm' \in members
  BY <1>1, <1>4 DEF IInv, TypeOK
<1>6. confirmed /\ asm' # None => asm' = system
  <2>1. asm # None /\ asm \in members /\ (confirmed => asm = system)
    BY <1>1, <1>3 DEF IInv, Source, Running, OpenFiles, ReadersFollowSystem
  <2> QED
    BY <1>1, <1>4, <2>1
<1>7. initDUL' \in [system : Databases \cup {Blank}, control : HasControl \cup {None},
                   members : SUBSET Asm]
  BY <1>1, <1>2, <1>3, SavedType DEF IInv, TypeOK
<1>8. TypeOK'
  BY <1>1, <1>2, <1>3, <1>5, <1>7, ReturnStep DEF IInv, TypeOK, bounds
<1>9. kept' = kept
  BY <1>1 DEF Return
<1>10. OpenFiles' /\ ReadersFollowSystem' /\ MemoryFollowsDisk'
  BY <1>1, <1>2, <1>3, <1>5, <1>6, <1>9
     DEF OpenFiles, ReadersFollowSystem, MemoryFollowsDisk
<1> QED
  BY <1>1, <1>8, <1>10, ReturnStep DEF IInv

LEMMA CatalogFailsStep == IInv /\ CatalogFails => IInv'
<1> SUFFICES ASSUME IInv, CatalogFails PROVE IInv'
  OBVIOUS
<1>1. /\ pc = "rebuilt" /\ pc' = "idle" /\ Return(active) /\ dictionary = None
      /\ system' = Selected(system, members)
      /\ asm' \in {system', None} \ {Blank}
      /\ mustReload' = TRUE
      /\ UNCHANGED <<control, members, dictionary, files, bounds, confirmed, chosen,
                     collected>>
  BY DEF CatalogFails, IInv, MemoryFollowsDisk
<1>2. system' \in members \cup {Blank}
  BY <1>1, SelectedType DEF IInv, TypeOK
<1>3. /\ system' \in Databases \cup {Blank}
      /\ asm' \in Asm \cup {None}
      /\ asm' # None => asm' \in members /\ asm' = system'
  BY <1>1, <1>2 DEF IInv, TypeOK, Databases
<1>4. TypeOK'
  BY <1>1, <1>3, ReturnStep DEF IInv, TypeOK, files, bounds
<1>5. OpenFiles' /\ ReadersFollowSystem' /\ MemoryFollowsDisk'
  BY <1>1, <1>3 DEF OpenFiles, ReadersFollowSystem, MemoryFollowsDisk
<1> QED
  BY <1>1, <1>4, <1>5, ReturnStep DEF IInv

LEMMA ReportFailureStep == IInv /\ ReportFailure => IInv'
<1> SUFFICES ASSUME IInv, ReportFailure PROVE IInv'
  OBVIOUS
<1>1. /\ pc \in {"failed", "unrestored"} /\ pc' = "idle" /\ Return(active)
      /\ mustReload' = TRUE
      /\ UNCHANGED <<session, files, bounds, confirmed, chosen, collected>>
  BY DEF ReportFailure
<1>2. TypeOK'
  BY <1>1, ReturnStep DEF IInv, TypeOK, session, files, bounds
<1>3. OpenFiles' /\ ReadersFollowSystem' /\ MemoryFollowsDisk'
  BY <1>1 DEF IInv, OpenFiles, ReadersFollowSystem, MemoryFollowsDisk, session
<1> QED
  BY <1>1, <1>2, <1>3, ReturnStep DEF IInv

\* Killed anywhere, the program leaves active directory and backups to the next
\* session, and that starts without a dictionary.
LEMMA KillStep == IInv /\ Kill => IInv'
<1> SUFFICES ASSUME IInv, Kill PROVE IInv'
  OBVIOUS
<1>1. /\ pc' = "start" /\ kills < MaxKills /\ kills' = kills + 1
      /\ system' = initDUL.system /\ members' = initDUL.members
      /\ control' = initDUL.control
      /\ dictionary' = None /\ asm' = None /\ mustReload' = FALSE
      /\ staging' = NoDir /\ moved' = NoDir /\ before' = NoDir /\ fresh' = None
      /\ strays' \in BOOLEAN
      /\ UNCHANGED <<active, backups, kept, files, confirmed, chosen, collected, runs>>
  BY DEF Kill, NewSession, Undiscovered, Killed, CatalogOnly, IInv, TypeOK
<1>2. kills' \in 0 .. MaxKills
  BY <1>1 DEF IInv, TypeOK
<1>3. TypeOK'
  BY <1>1, <1>2 DEF IInv, TypeOK, Directories, files
<1>4. OpenFiles' /\ ReadersFollowSystem' /\ MemoryFollowsDisk'
  BY <1>1 DEF OpenFiles, ReadersFollowSystem, MemoryFollowsDisk
<1>5. CorrectionsKept' /\ FailureRestores' /\ SoundDirectories'
  BY <1>1 DEF IInv, CorrectionsKept, FailureRestores, SoundDirectories, Sound
<1>6. Source' /\ Fresh' /\ Untouched' /\ Staged' /\ SwitchedAway' /\ Switched'
  BY <1>1 DEF Source, Fresh, Untouched, Staged, SwitchedAway, Switched, Running
<1> QED
  BY <1>3, <1>4, <1>5, <1>6 DEF IInv

LEMMA RebuildStepStep == IInv /\ RebuildStep => IInv'
BY StagingStep, MoveStep, ActivateStep, ActivateFailsStep, RestoreFailsStep, DiscardStep
   DEF RebuildStep, Rebuild

LEMMA StutterStep == IInv /\ UNCHANGED vars => IInv'
<1> SUFFICES ASSUME IInv, UNCHANGED vars PROVE IInv'
  OBVIOUS
<1> USE DEF vars, store, session, files, bounds, history
<1>1. TypeOK'
  BY DEF IInv, TypeOK
<1>2. OpenFiles' /\ ReadersFollowSystem' /\ MemoryFollowsDisk'
  BY DEF IInv, OpenFiles, ReadersFollowSystem, MemoryFollowsDisk
<1>3. CorrectionsKept' /\ FailureRestores' /\ SoundDirectories'
  BY DEF IInv, CorrectionsKept, FailureRestores, SoundDirectories, Sound
<1>4. Source' /\ Fresh' /\ Untouched' /\ Staged' /\ SwitchedAway' /\ Switched'
  BY DEF IInv, Source, Fresh, Untouched, Staged, SwitchedAway, Switched, Running
<1> QED
  BY <1>1, <1>2, <1>3, <1>4 DEF IInv

(***************************************************************************)
(* The theorems                                                            *)
(***************************************************************************)
\* Session memory and dictionary directories stay consistent through every
\* command, failure, restart and kill.
THEOREM Invariance == Spec => []IInv
<1>1. IInv /\ [Next]_vars => IInv'
  BY SetSystemStep, SetMembersStep, SetControlStep, SetCharsetStep,
     StartBootstrapStep, BootstrapStopsStep, ScanStep, ScanFailsStep,
     RebuildStepStep, FinishBootstrapStep, FinishAsmBootstrapStep, CatalogFailsStep,
     ReportFailureStep, LoadDictionaryStep, LoadInitStep, AutoLoadStep,
     StartUnloadStep, FinishUnloadStep, CorrectFilesStep, RestartStep, KillStep,
     StartUpStep, StutterStep
     DEF Next
<1> QED
  BY <1>1, InitInv, PTL DEF Spec

\* Every variable keeps its type.
THEOREM TypeCorrect == Spec => []TypeOK
<1>1. IInv => TypeOK
  BY DEF IInv
<1> QED
  BY <1>1, Invariance, PTL

\* Whatever fails and wherever the program is killed, RebuildDictionaryFiles
\* loses no dictionary that was active, nor a correction made to one.
THEOREM CorrectionsAreKept == Spec => []CorrectionsKept
<1>1. IInv => CorrectionsKept
  BY DEF IInv
<1> QED
  BY <1>1, Invariance, PTL

\* A bootstrap that fails before the switch leaves dmdul_dict as it found it.
THEOREM FailuresRestore == Spec => []FailureRestores
<1>1. IInv => FailureRestores
  BY DEF IInv
<1> QED
  BY <1>1, Invariance, PTL

\* dmdul_dict never holds part of a dictionary.
THEOREM ActiveIsWhole == Spec => []ActiveWhole
<1> QED
  BY WholeFollows, Invariance, PTL

\* A session never reads one database with the dictionary of another, but for
\* a load the operator asked for.
THEOREM ReadersAlwaysFollow == Spec => []ReadersFollowSystem
<1>1. IInv => ReadersFollowSystem
  BY DEF IInv
<1> QED
  BY <1>1, Invariance, PTL

\* The dictionary in memory has been switched to on disk.
THEOREM MemoryAlwaysFollows == Spec => []MemoryFollowsDisk
<1>1. IInv => MemoryFollowsDisk
  BY DEF IInv
<1> QED
  BY <1>1, Invariance, PTL
==============================================================================
