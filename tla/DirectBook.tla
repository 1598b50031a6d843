----------------------------- MODULE DirectBook -----------------------------
(***************************************************************************)
(* What ExportData remembers of the planned pages it has exported: the     *)
(* rows written, the partial rows put aside, the pages finished, the       *)
(* storage units whose plan failed and the row-coverage keys.  The         *)
(* sequential loop and the parallel pipeline share these operators, as     *)
(* processPage and applyDirectResult share their effects.                  *)
(*                                                                         *)
(* A page stands for one unit of result: its rows are either all good,     *)
(* all partial (cut short by an ALTER) or all unparsable.                  *)
(***************************************************************************)
EXTENDS Naturals, Sequences, FiniteSets

CONSTANTS
  NumPages,   \* planned pages, in plan order 0 .. NumPages - 1
  Keys,       \* row-coverage keys
  Units,      \* storage units
  MaxKeys     \* maxCoverageKeysPerTable

ASSUME BookAssumption == NumPages \in Nat /\ MaxKeys \in Nat

Pages == 0 .. NumPages - 1

PageKinds == {"full", "partial", "bad", "skipped", "mismatched", "unreadable"}

\* What decoding a page yields: it could not be read, is not the page the
\* plan expected, has no owner among the candidates, or holds rows.
PageResult == [kind : PageKinds, bytes : Nat, key : Keys, unit : Units]

Book == [out       : Seq(Pages),       \* pages whose rows reached the output
         pending   : Seq(Pages),       \* pages whose rows are put aside
         processed : SUBSET Pages,     \* processedDirectPages
         failed    : SUBSET Units,     \* failedPlanUnits
         keys      : SUBSET Keys,      \* tableCoverageState.keys
         overflow  : BOOLEAN,          \* tableCoverageState.overflow
         err       : BOOLEAN]          \* the write error that ends the export

EmptyBook == [out |-> <<>>, pending |-> <<>>, processed |-> {}, failed |-> {},
              keys |-> {}, overflow |-> FALSE, err |-> FALSE]

\* tableCoverageState.mark: reaching the cap drops the map and stops marking.
Mark(b, ks) ==
  IF b.overflow \/ ks = {} THEN b
  ELSE IF Cardinality(b.keys \cup ks) >= MaxKeys
       THEN [b EXCEPT !.overflow = TRUE, !.keys = {}]
       ELSE [b EXCEPT !.keys = b.keys \cup ks]

\* The coverage keys a render produces: none once tracking is off.
RenderedKeys(r, active) == IF active THEN {r.key} ELSE {}

Failed(b, r) == [b EXCEPT !.failed = @ \cup {r.unit}]

Finished(b, p) == [b EXCEPT !.processed = @ \cup {p}]

Exported(b, p, ks) == [Mark(b, ks) EXCEPT !.out = Append(@, p)]

PutAside(b, p) == [b EXCEPT !.pending = Append(@, p)]

Aborted(b) == [b EXCEPT !.err = TRUE]

\* The books that recording the result r of page p can lead to.  The keys are
\* marked before the row is written, so a failed write leaves them marked.
Recorded(b, p, r, ks) ==
  CASE r.kind \in {"unreadable", "mismatched"} -> {Failed(b, r)}
    [] r.kind = "skipped" -> {Finished(b, p)}
    [] r.kind = "partial" -> {Finished(PutAside(b, p), p)}
    [] r.kind = "bad"     -> {Finished(b, p), Aborted(b)}
    [] r.kind = "full"    -> {Finished(Exported(b, p, ks), p),
                              Aborted(Mark(b, ks))}
=============================================================================
