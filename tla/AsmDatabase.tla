---------------------------- MODULE AsmDatabase -----------------------------
(***************************************************************************)
(* Which of the files on the disk groups belong to one database, and under *)
(* which identity (dmasm_storage.go: DatabaseFile, DataFiles,              *)
(* selectASMDatabaseDataFiles; dmasm_raw.go: DataFiles).                   *)
(*                                                                         *)
(* A file is a record: the group in its path, the directory below that,    *)
(* its base name (temp is the number of a name TEMPnn, -1 of any other),   *)
(* and what its first page says.  owner is the database it really belongs  *)
(* to, which nothing on the disks says.                                    *)
(***************************************************************************)
EXTENDS Integers, FiniteSets

CONSTANTS
  Snapshots,   \* what TLC finds on the groups: sets of files
  Refused      \* the result of a lookup that ends in an error

\* How databases are laid out: a directory of a group is of one database; a
\* database that has a file in a directory of the name of a SYSTEM.DBF's keeps
\* its own SYSTEM.DBF in a directory of that name; and a dm.ctl lists its own
\* database's files, SYSTEM.DBF among them.
IsSnapshot(S) ==
  /\ IsFiniteSet(S)
  /\ \A f \in S, g \in S : f.group = g.group /\ f.dir = g.dir => f.owner = g.owner
  /\ \A f \in S, s \in S, t \in S :
       s.base = "SYSTEM" /\ t.base = "SYSTEM" /\ f.dir = s.dir /\ f.owner = t.owner
         => t.dir = s.dir
  /\ \A c \in S, f \in S :
       c.base = "DM.CTL" => /\ f.path \in c.lists => f.owner = c.owner
                            /\ f.base = "SYSTEM" /\ f.owner = c.owner => f.path \in c.lists

ASSUME SnapshotAssumption == \A S \in Snapshots : IsSnapshot(S)

VARIABLES
  found,       \* the files recovered from the groups
  system,      \* the SYSTEM.DBF the operator chose
  control,     \* paths listed by the dm.ctl found for it, or Refused
  sources,     \* the result: identities of files, or Refused
  stage

databaseVars == <<found, system, control, sources, stage>>

DbfFiles == {f \in found : f.base \notin {"DM.CTL", "LOG"}}
SystemFiles == {f \in found : f.base = "SYSTEM"}

DatabaseInit ==
  /\ found \in Snapshots
  /\ system \in {f \in found : f.base = "SYSTEM"}
  /\ control = {} /\ sources = {} /\ stage = "control"

\* DatabaseFile: a file of that name in the directory, in the group of
\* SYSTEM.DBF if there is one there; several are as good as none.
Beside(base) ==
  LET here == {f \in found : f.base = base /\ f.dir = system.dir}
      near == {f \in here : f.group = system.group}
      matches == IF near # {} THEN near ELSE here
  IN IF Cardinality(matches) = 1 THEN matches ELSE {}

\* A dm.ctl that is absent, ambiguous or damaged is no evidence and no error.
FindControl ==
  /\ stage = "control"
  /\ control' = UNION {c.lists : c \in {f \in Beside("DM.CTL") : f.readable}}
  /\ stage' = "select"
  /\ UNCHANGED <<found, system, sources>>

\* The directory reaches across groups only when one SYSTEM.DBF is in it.
CrossGroups == Cardinality({f \in SystemFiles : f.dir = system.dir}) <= 1

Selected == {f \in DbfFiles :
  \/ f.path \in control
  \/ f.dir = system.dir /\ (f.group = system.group \/ CrossGroups)}

\* The identity in the header of page zero, except for the files whose names
\* fix it; pages that are no page zero and ids beyond 16 bits are passed over.
Identity(f) ==
  CASE f.base = "SYSTEM" -> <<0, 0>>
    [] f.base = "ROLL" -> <<1, 0>>
    [] f.base = "TEMP" -> <<3, 0>>
    [] f.base = "MAIN" -> <<4, 0>>
    [] OTHER -> IF f.temp >= 0 THEN <<3, f.temp>> ELSE f.header

HasIdentity(f) == f.pageZero

\* Fault: only files of users are compared.
ClashOfUsers(S) ==
  \E f, g \in S : f # g /\ Identity(f) = Identity(g) /\ Identity(f)[1] >= 4
\* Two files of one identity
Clash(S) == \E f, g \in S : f # g /\ Identity(f) = Identity(g)

\* Opening a file, reading its header, and two files of one identity can fail.
TakeSources ==
  /\ stage = "select"
  /\ LET counted == {f \in Selected : HasIdentity(f)} IN
     sources' = IF \/ \E f \in Selected : ~f.readable
                   \/ Clash(counted)
                   \/ counted = {}
                THEN Refused
                ELSE {[id |-> Identity(f), file |-> f] : f \in counted}
  /\ stage' = "done"
  /\ UNCHANGED <<found, system, control>>

DatabaseNext == FindControl \/ TakeSources

DatabaseSpec == DatabaseInit /\ [][DatabaseNext]_databaseVars

-----------------------------------------------------------------------------

\* Two databases may use one directory name in different groups, and one of
\* them may have lost its dm.ctl.  Whatever control file is taken for the
\* chosen SYSTEM.DBF, no file of the other database is read as one of its own
\* (the comment above DataFiles, dmasm_storage.go).  The code goes by the
\* SYSTEM.DBF files it finds and by their identities: every database with a
\* file must have one, with a sound page zero.
DatabasesNotMixed ==
  /\ stage = "done" /\ sources # Refused
  /\ {f.owner : f \in found} = {f.owner : f \in SystemFiles}
  /\ \A f \in SystemFiles : f.pageZero
  => \A s \in sources : s.file.owner = system.owner
=============================================================================
