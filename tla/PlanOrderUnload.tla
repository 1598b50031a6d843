--------------------------- MODULE PlanOrderUnload --------------------------
(***************************************************************************)
(* The sequential direct unload: the loop of ExportData that takes the     *)
(* planned pages one by one, in plan order, and stops at the first write   *)
(* error.  It is the promise the parallel pipeline makes ("counters,       *)
(* coverage marking, pending partial rows and the output bytes are         *)
(* identical to the sequential path").  MaxRows is 0: with a row limit     *)
(* the code never takes the parallel path.                                 *)
(***************************************************************************)
EXTENDS DirectBook

CONSTANT Disks        \* the page contents the planned pages may have

VARIABLES
  disk,       \* what decoding each planned page yields
  applied,    \* planned pages taken so far
  book        \* the books kept of them

vars == <<disk, applied, book>>

Init ==
  /\ disk \in Disks
  /\ applied = 0
  /\ book = EmptyBook

ApplyPage ==
  /\ ~book.err
  /\ applied < NumPages
  /\ book' \in Recorded(book, applied, disk[applied],
                        RenderedKeys(disk[applied], ~book.overflow))
  /\ applied' = applied + 1
  /\ UNCHANGED disk

Next == ApplyPage

Spec == Init /\ [][Next]_vars
=============================================================================
