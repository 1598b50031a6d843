-------------------------- MODULE DictionaryRebuild --------------------------
(***************************************************************************)
(* The dictionary directory dmdul_dict and its replacement by a bootstrap  *)
(* (RebuildDictionaryFiles): the new dictionary is written and validated   *)
(* in a staging directory beside the active one, the active directory is   *)
(* moved out of the way, the staging directory takes its name.  Every call *)
(* of the file system may fail, and the program may be killed between any  *)
(* two of them.                                                            *)
(*                                                                         *)
(* A directory holds a dictionary of NumFiles TSV files, of which files    *)
(* have been written, or none; and the catalog of the ASM databases, or    *)
(* not.  The steps here leave the rest of the session alone: module        *)
(* Session says when they are taken.                                       *)
(***************************************************************************)
EXTENDS Naturals, FiniteSets

CONSTANTS
  Dictionaries,  \* what the TSV files of a dictionary may say
  NumFiles,      \* TSV files of a dictionary, in the order they are written
  Required,      \* LoadDictionaryFiles fails without the first Required files
  Counted,       \* the validation compares what the first Counted files hold
  None,
  NoDir          \* the directory does not exist

ASSUME RebuildAssumption ==
  /\ NumFiles \in Nat /\ Counted \in 1 .. NumFiles /\ Required \in 1 .. Counted
  /\ None \notin Dictionaries

Content == [dict : Dictionaries \cup {None}, files : 0 .. NumFiles, catalog : BOOLEAN]

ASSUME NoDirAssumption == NoDir \notin Content

VARIABLES
  pc,        \* the step the running command has come to
  fresh,     \* the dictionary the bootstrap is writing
  active,    \* dmdul_dict
  staging,   \* the .bootstrap- sibling of the running bootstrap
  moved,     \* what the bootstrap has moved out of the way
  backups,   \* the .backup- siblings
  strays,    \* a .catalog- sibling is left of a bootstrap that was killed
  before,    \* history: active when the bootstrap began
  kept       \* history: the dictionaries that have been active, as last corrected

store == <<fresh, active, staging, moved, backups, strays, before, kept>>

\* Fault: a dictionary with a catalog counts as catalog only.
HasCatalog(d) == d.catalog

\* isASMCatalogOnlyDirectory
CatalogOnly(d) == d.dict = None /\ d.catalog

Loadable(d) == d # NoDir /\ d.dict # None /\ d.files >= Required

StoreInit ==
  /\ fresh = None
  /\ active = NoDir
  /\ staging = NoDir
  /\ moved = NoDir
  /\ backups = {}
  /\ strays = FALSE
  /\ before = NoDir
  /\ kept = {}

\* A bootstrap begins.
Begin ==
  /\ before' = active
  /\ UNCHANGED <<fresh, active, staging, moved, backups, strays, kept>>

CreateStaging ==
  /\ pc = "stage"
  /\ pc' = "write"
  /\ staging' = [dict |-> fresh, files |-> 0, catalog |-> FALSE]
  /\ UNCHANGED <<fresh, active, moved, backups, strays, before, kept>>

\* Fault: one file too many.
WriteFilePastEnd ==
  /\ pc = "write"
  /\ staging.files <= NumFiles
  /\ staging' = [staging EXCEPT !.files = @ + 1]
  /\ UNCHANGED <<pc, fresh, active, moved, backups, strays, before, kept>>

WriteFile ==
  /\ pc = "write"
  /\ staging.files < NumFiles
  /\ staging' = [staging EXCEPT !.files = @ + 1]
  /\ UNCHANGED <<pc, fresh, active, moved, backups, strays, before, kept>>

\* Fault: the writer stops early and says nothing.
ValidateShort ==
  /\ pc = "write"
  /\ Loadable(staging) /\ staging.files >= Counted
  /\ pc' = "inspect"
  /\ UNCHANGED store

\* The staged files are loaded again and the counts compared.
Validate ==
  /\ pc = "write"
  /\ staging.files = NumFiles
  /\ Loadable(staging) /\ staging.files >= Counted
  /\ pc' = "inspect"
  /\ UNCHANGED store

\* Staging, writing, validating or inspecting fails: the deferred RemoveAll.
RebuildFails ==
  /\ pc \in {"write", "inspect"}
  /\ pc' = "failed"
  /\ staging' = NoDir
  /\ UNCHANGED <<fresh, active, moved, backups, strays, before, kept>>

NothingToMove ==
  /\ pc = "inspect"
  /\ active = NoDir
  /\ moved' = NoDir
  /\ pc' = "activate"
  /\ UNCHANGED <<fresh, active, staging, backups, strays, before, kept>>

SetCatalogAside ==
  /\ pc = "inspect"
  /\ active # NoDir /\ CatalogOnly(active)
  /\ moved' = active
  /\ active' = NoDir
  /\ pc' = "activate"
  /\ UNCHANGED <<fresh, staging, backups, strays, before, kept>>

Archive ==
  /\ pc = "inspect"
  /\ active # NoDir /\ ~CatalogOnly(active)
  /\ moved' = active
  /\ backups' = backups \cup {active}
  /\ active' = NoDir
  /\ pc' = "activate"
  /\ UNCHANGED <<fresh, staging, strays, before, kept>>

Activate ==
  /\ pc = "activate"
  /\ active' = staging
  /\ staging' = NoDir
  /\ kept' = kept \cup {staging.dict}
  /\ pc' = "discard"
  /\ UNCHANGED <<fresh, moved, backups, strays, before>>

\* Fault: what was moved is not moved back.
ActivateFailsUnrestored ==
  /\ pc = "activate"
  /\ staging' = NoDir
  /\ moved' = NoDir
  /\ pc' = "failed"
  /\ UNCHANGED <<fresh, active, backups, strays, before, kept>>

\* The rename of the staging directory fails: what was moved is moved back.
ActivateFails ==
  /\ pc = "activate"
  /\ staging' = NoDir
  /\ active' = moved
  /\ backups' = backups \ {moved}
  /\ moved' = NoDir
  /\ pc' = "failed"
  /\ UNCHANGED <<fresh, strays, before, kept>>

\* The move back fails as well, which nobody is told.
RestoreFails ==
  /\ pc = "activate"
  /\ moved # NoDir
  /\ staging' = NoDir
  /\ strays' = (strays \/ CatalogOnly(moved))
  /\ moved' = NoDir
  /\ pc' = "unrestored"
  /\ UNCHANGED <<fresh, active, backups, before, kept>>

\* RemoveAll of a catalog-only directory; a backup stays.
Discard ==
  /\ pc = "discard"
  /\ moved' = NoDir
  /\ pc' = "rebuilt"
  /\ UNCHANGED <<fresh, active, staging, backups, strays, before, kept>>

\* The bootstrap returns, with the active directory as given.
Return(directory) ==
  /\ active' = directory
  /\ fresh' = None
  /\ before' = NoDir
  /\ UNCHANGED <<staging, moved, backups, strays, kept>>

Rebuild ==
  \/ CreateStaging \/ WriteFile \/ Validate \/ RebuildFails
  \/ NothingToMove \/ SetCatalogAside \/ Archive
  \/ Activate \/ ActivateFails \/ RestoreFails \/ Discard

(***************************************************************************)
(* What else happens to the directories                                    *)
(***************************************************************************)
\* WriteASMCatalogFiles
WithCatalog(d) ==
  IF d = NoDir THEN [dict |-> None, files |-> 0, catalog |-> TRUE]
  ELSE [d EXCEPT !.catalog = TRUE]

\* The operator corrects the TSV files by hand, and they then say new.
Correct(new) ==
  /\ Loadable(active)
  /\ active' = [active EXCEPT !.dict = new]
  /\ kept' = (kept \ {active.dict}) \cup {new}
  /\ UNCHANGED <<fresh, staging, moved, backups, strays, before>>

\* The program is killed.  Nothing ever reads a staging directory again.
Killed ==
  /\ staging' = NoDir
  /\ strays' = (strays \/ (moved # NoDir /\ CatalogOnly(moved)))
  /\ moved' = NoDir
  /\ fresh' = None
  /\ before' = NoDir
  /\ UNCHANGED <<active, backups, kept>>

(***************************************************************************)
(* Properties                                                              *)
(***************************************************************************)
\* A dictionary that was ever active, with the corrections made to it by hand,
\* is still in the active directory or in a backup, whatever failed and
\* wherever the program was killed.
CorrectionsKept ==
  kept \subseteq {d.dict : d \in backups} \cup
                 (IF active = NoDir THEN {} ELSE {active.dict})

\* A bootstrap that reports an error before the switch leaves the active
\* directory as it found it, unless moving it back failed too.
FailureRestores == pc = "failed" => active = before

\* The active directory never holds part of a dictionary.
ActiveWhole ==
  active # NoDir /\ active.dict # None => active.files = NumFiles
==============================================================================
