------------------------------ MODULE DataFiles -----------------------------
(***************************************************************************)
(* Which file is read for each (group, file) identity when the database is *)
(* on a file system: dm.ctl, the control.dul written by a bootstrap, and   *)
(* the headers of the files in data_dir (data_files.go, control_dul.go,    *)
(* ctl.go).                                                                *)
(*                                                                         *)
(* A path is a directory and a base name.  What the files hold before any  *)
(* is copied and what dm.ctl says are fixed for a behaviour; the sources    *)
(* may contradict one another.                                             *)
(***************************************************************************)
EXTENDS Selection

CONSTANTS
  Worlds,       \* records [name, ctl, header] TLC tries
  Directories,  \* data_dir, and the places where databases ran
  Here,         \* data_dir
  Moves,        \* bound on the files copied, lost or restored
  NoPlace       \* a recorded path that leads to no file, a page zero that tells nothing

UserGroup == 4     \* groups below are those of the system

Keys == Nat \X Nat
Places == Directories \X Nat

\* header[path]: the identity on page zero of the file that was at the path, or
\* NoPlace; name[b]: the identity that the code takes from the name of a file
IsDatabase(w) ==
  /\ IsFiniteSet(DOMAIN w.header) /\ DOMAIN w.header \subseteq Places
  /\ \A p \in DOMAIN w.header : w.header[p] \in Keys \cup {NoPlace}
  /\ \A b \in DOMAIN w.name : w.name[b] \in Keys
  /\ w.ctl \in Seq([group : Nat, paths : Seq(Places)])

ASSUME FilesAssumption ==
  /\ \A w \in Worlds : IsDatabase(w)
  /\ Here \in Directories /\ NoPlace \notin Keys \cup Places

VARIABLES
  world,     \* what there was, and what dm.ctl says
  onDisk,    \* onDisk[path]: page zero of the files that exist now
  useCtl,    \* whether a dm.ctl is set
  dul,       \* the lines of control.dul
  refs,      \* what the last unload resolved
  listed,    \* what the last bootstrap resolved
  moves, filesPhase

filesVars == <<world, onDisk, useCtl, dul, refs, listed, moves, filesPhase>>

Header(path) == onDisk[path]
Claim(key, path) == [key |-> key, path |-> path]

\* resolveDataFilePath: a file of that name in data_dir comes first.
Resolved(path) ==
  IF <<Here, path[2]>> \in DOMAIN onDisk THEN <<Here, path[2]>>
  ELSE IF path \in DOMAIN onDisk THEN path ELSE NoPlace

\* Fault: a file that is gone uses up no number.
EntryClaimsFound(entry) ==
  LET there == SelectSeq(entry.paths, LAMBDA p : Resolved(p) # NoPlace)
  IN [n \in DOMAIN there |-> Claim(<<entry.group, n - 1>>, Resolved(there[n]))]
\* dm.ctl lists the files of a group in the order of their numbers; a number
\* is used up by a file that is gone, too.
ControlEntryClaims(entry) ==
  [n \in DOMAIN entry.paths |-> Claim(<<entry.group, n - 1>>, Resolved(entry.paths[n]))]

ControlClaims ==
  IF useCtl
  THEN FlattenSeq([e \in DOMAIN world.ctl |-> ControlEntryClaims(world.ctl[e])])
  ELSE <<>>

DulClaims == [n \in DOMAIN dul |-> Claim(dul[n].key, Resolved(dul[n].path))]

\* The files in data_dir
Directory == {p[2] : p \in {q \in DOMAIN onDisk : q[1] = Here}}
ByBase == {pair \in Directory \X Directory : pair[1] < pair[2]}

\* scanDataFilesByPageHeader, and scanAllDBFFilesByPageHeader with the names
\* that fix the identity whatever the header says, in the order of the names
HeaderClaims(id) ==
  LET known == Sorted({b \in Directory : Header(<<Here, b>>) # NoPlace}, ByBase)
  IN [n \in DOMAIN known |-> Claim(id[known[n]], <<Here, known[n]>>)]

OnPageZero == [b \in Directory |-> Header(<<Here, b>>)]
ByName ==
  [b \in Directory |-> IF b \in DOMAIN world.name THEN world.name[b] ELSE Header(<<Here, b>>)]

\* Of several claims to an identity the first that leads to a file counts.
FirstOf(claims) ==
  {claims[n] : n \in {m \in DOMAIN claims :
     /\ claims[m].path # NoPlace
     /\ \A l \in 1 .. m - 1 : claims[l].key = claims[m].key => claims[l].path = NoPlace}}

\* resolveDataFiles
DataFileRefs ==
  {c \in FirstOf(ControlClaims \o DulClaims \o HeaderClaims(OnPageZero)) :
     c.key[1] >= UserGroup}

\* ScanOfflineDataFiles: the same, then all other files in the directory
OfflineFiles ==
  LET keys == {c.key : c \in DataFileRefs}
  IN DataFileRefs \cup {c \in FirstOf(HeaderClaims(ByName)) : c.key \notin keys}

ByKey ==
  {pair \in OfflineFiles \X OfflineFiles :
     LET k == pair[1].key  l == pair[2].key
     IN k[1] < l[1] \/ (k[1] = l[1] /\ k[2] < l[2])}

FilesInit ==
  /\ world \in Worlds
  /\ \E there \in SUBSET DOMAIN world.header : onDisk = [p \in there |-> world.header[p]]
  /\ useCtl \in BOOLEAN
  /\ dul = <<>> /\ refs = {} /\ listed = {} /\ moves = 0 /\ filesPhase = "idle"

\* A bootstrap writes control.dul anew.
WriteControlDUL ==
  /\ dul' = Sorted(OfflineFiles, ByKey)
  /\ listed' = DataFileRefs
  /\ filesPhase' = "listed"
  /\ UNCHANGED <<world, onDisk, useCtl, refs, moves>>

UnloadResolves ==
  /\ refs' = DataFileRefs
  /\ filesPhase' = IF filesPhase \in {"listed", "same"} THEN "same" ELSE "resolved"
  /\ UNCHANGED <<world, onDisk, useCtl, dul, listed, moves>>

\* The disk with one file more, or another in its place
Stored(path, header) ==
  [p \in DOMAIN onDisk \cup {path} |-> IF p = path THEN header ELSE onDisk[p]]

\* The operator copies a file to data_dir, over one of its name if there is one,
\* loses a file or has it back, or sets or clears dm.ctl.
FilesChange ==
  /\ moves < Moves
  /\ moves' = moves + 1
  /\ \/ /\ \/ \E path \in DOMAIN onDisk : onDisk' = Stored(<<Here, path[2]>>, onDisk[path])
           \/ \E path \in DOMAIN onDisk :
                onDisk' = [p \in DOMAIN onDisk \ {path} |-> onDisk[p]]
           \/ \E path \in DOMAIN world.header : onDisk' = Stored(path, world.header[path])
        /\ UNCHANGED useCtl
     \/ useCtl' = ~useCtl /\ UNCHANGED onDisk
  /\ filesPhase' = "idle"
  /\ UNCHANGED <<world, dul, refs, listed>>

FilesNext == WriteControlDUL \/ UnloadResolves \/ FilesChange

FilesSpec == FilesInit /\ [][FilesNext]_filesVars

-----------------------------------------------------------------------------

FilesTypeOK ==
  /\ DOMAIN onDisk \subseteq Places
  /\ \A c \in refs \cup listed : c.path \in Places
  /\ \A n \in DOMAIN dul : dul[n].path # NoPlace
  /\ filesPhase \in {"idle", "listed", "same", "resolved"}

\* The identities that dm.ctl gives the file at a path
ControlKeys(path) ==
  UNION {{<<world.ctl[e].group, n - 1>> :
            n \in {m \in DOMAIN world.ctl[e].paths : world.ctl[e].paths[m] = path}} :
         e \in DOMAIN world.ctl}
\* ... and its first page does
HeaderKeys(path) == {world.header[p] : p \in {path} \cap DOMAIN world.header} \ {NoPlace}

\* The identities that anything gives the file at a path.  A file of data_dir
\* may be any file of its name.
Identities(path) ==
  IF path[1] = Here
  THEN (UNION {HeaderKeys(<<d, path[2]>>) \cup ControlKeys(<<d, path[2]>>) : d \in Directories})
         \cup {world.name[b] : b \in {path[2]} \cap DOMAIN world.name}
  ELSE HeaderKeys(path) \cup ControlKeys(path)

SaysSo(c) == Header(c.path) \in {c.key, NoPlace}

\* However often files are copied, lost and restored and whichever control
\* files are left from earlier: what is read as file f of group g was given that
\* identity by its first page, its name or its place in dm.ctl, and where these
\* give one identity only the file that is read says so itself.  In data_dir a
\* file may stand for several files of its name, elsewhere for itself alone.  No
\* identity found in data_dir is left out (resolveDataFiles).  control.dul keeps
\* what the bootstrap saw: as long as no file moves, an unload reads each identity
\* from the file the bootstrap took it from.
EachFileServed ==
  /\ filesPhase \in {"same", "resolved"} =>
       /\ \A c \in refs :
            /\ c.key \in Identities(c.path)
            /\ (\A k, l \in Identities(c.path) : k = l) => SaysSo(c)
       /\ \A b \in Directory :
            Header(<<Here, b>>) # NoPlace /\ Header(<<Here, b>>)[1] >= UserGroup
              => \E c \in refs : c.key = Header(<<Here, b>>)
  /\ filesPhase = "same" => listed \subseteq refs
=============================================================================
