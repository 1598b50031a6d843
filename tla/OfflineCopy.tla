---------------------------- MODULE OfflineCopy -----------------------------
(***************************************************************************)
(* Copying the files of a database from raw DMASM disks to a directory     *)
(* (cli/copy.go, offline_copy.go).  A step is one call of the file system; *)
(* each may fail, the process may be killed between any two, and another   *)
(* program may create files in the directory.                              *)
(***************************************************************************)
EXTENDS Integers, Sequences, FiniteSets

CONSTANTS
  CopySources,  \* the files to copy, in order: sequence of base names
  Intrusions    \* bound on the files others create

ASSUME CopyAssumption ==
  /\ CopySources \in Seq(STRING) /\ CopySources # <<>>
  /\ Intrusions \in Nat

VARIABLES
  target,    \* what is under each base name: "absent", "partial", "whole", "foreign"
  temp,      \* "absent", or how much of the current copy is written
  next,      \* index of the file being copied
  step,      \* where the copy command stands
  late,      \* names of files others created between the last look and the
             \* rename (history)
  lost,      \* names whose foreign file was replaced (history)
  intrusions

copyVars == <<target, temp, next, step, late, lost, intrusions>>

CopyNames == {CopySources[n] : n \in DOMAIN CopySources}
CopyName == CopySources[next]

CopyInit ==
  /\ target \in [CopyNames -> {"absent", "foreign"}]
  /\ temp = "absent" /\ next = 1 /\ step = "plan" 
  /\ late = {} /\ lost = {} /\ intrusions = 0

\* planASMDataFileCopies: nothing is copied if a name is taken already, or
\* if two files would get the same name.
PlanCopies ==
  /\ step = "plan"
  /\ step' = IF /\ \A b \in CopyNames : target[b] = "absent"
                /\ Cardinality(CopyNames) = Len(CopySources)
                /\ CopySources # <<>>
             THEN "look" ELSE "ended"
  /\ UNCHANGED <<target, temp, next, late, lost, intrusions>>

\* CopyOfflineFile looks whether the name is free, and creates a temporary
\* file beside it.
CreateTemporary ==
  /\ step = "look"
  /\ \/ target[CopyName] = "absent" /\ temp' = "partial" /\ step' = "write"
     \/ temp' = temp /\ step' = "ended"      \* taken, or a call fails
  /\ UNCHANGED <<target, next, late, lost, intrusions>>

\* Fault: the temporary file stays.
GiveUpOnly == step' = "ended" /\ UNCHANGED temp
\* Every way out but success removes the temporary file, and an error of that
\* is not reported: "littered" stands for an end where it could not be removed.
GiveUp ==
  \/ temp' = "absent" /\ step' = "ended"
  \/ UNCHANGED temp /\ step' = "littered"

\* Copy all bytes, set permissions, sync, close, and compare the size
WriteAll ==
  /\ step = "write"
  /\ \/ temp' = "whole" /\ step' = "check"
     \/ GiveUp
  /\ UNCHANGED <<target, next, late, lost, intrusions>>

CheckAgain ==
  /\ step = "check"
  /\ \/ target[CopyName] = "absent" /\ step' = "rename" /\ UNCHANGED temp
     \/ GiveUp
  /\ UNCHANGED <<target, next, late, lost, intrusions>>

\* The rename replaces what is there: a file created since CheckAgain is lost
\* on systems where rename does so.
Publish ==
  /\ step = "rename"
  /\ \/ /\ target' = [target EXCEPT ![CopyName] = temp]
        /\ lost' = lost \cup {b \in {CopyName} : target[b] = "foreign"}
        /\ temp' = "absent"
        /\ IF next < Len(CopySources)
           THEN next' = next + 1 /\ step' = "look"
           ELSE next' = next /\ step' = "ended"
     \/ GiveUp /\ UNCHANGED <<target, next, lost>>
  /\ UNCHANGED <<late, intrusions>>

\* Another program creates a file.
Intrude ==
  /\ intrusions < Intrusions
  /\ \E b \in CopyNames :
       /\ target[b] = "absent"
       /\ target' = [target EXCEPT ![b] = "foreign"]
       /\ late' = IF step = "rename" /\ b = CopyName THEN late \cup {b} ELSE late
  /\ intrusions' = intrusions + 1
  /\ UNCHANGED <<temp, next, step, lost>>

KillCopy ==
  /\ step \notin {"plan", "ended", "littered", "killed"}
  /\ step' = "killed"
  /\ UNCHANGED <<target, temp, next, late, lost, intrusions>>

CopyNext ==
  \/ PlanCopies \/ CreateTemporary \/ WriteAll \/ CheckAgain \/ Publish
  \/ Intrude \/ KillCopy

CopySpec == CopyInit /\ [][CopyNext]_copyVars

-----------------------------------------------------------------------------

CopyTypeOK ==
  /\ target \in [CopyNames -> {"absent", "partial", "whole", "foreign"}]
  /\ temp \in {"absent", "partial", "whole"}
  /\ next \in DOMAIN CopySources
  /\ step \in {"plan", "look", "write", "check", "rename", "ended", "littered", "killed"}

\* Under the name of a data file there is a complete copy, a file of somebody
\* else, or nothing, at every instant and after every failure; no file of
\* somebody else is replaced but one that appears between the last look and
\* the rename; and the command leaves no temporary file behind unless it was
\* killed or the file system refused to remove it (CopyOfflineFile, "minimizes
\* the already narrow race").
CopiesWhole ==
  /\ \A b \in CopyNames : target[b] # "partial"
  /\ lost \subseteq late
  /\ step \in {"plan", "ended"} => temp = "absent"
=============================================================================
