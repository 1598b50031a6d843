------------------------------ MODULE Selection -----------------------------
(***************************************************************************)
(* A loop that appends to a slice what passes its test, as the unloader    *)
(* picks candidates, rows and evidence from lists, and a slice sorted.     *)
(***************************************************************************)
EXTENDS Integers, Sequences, FiniteSets, SequencesExt

\* The elements of s that are in T, in their order
Kept(s, T) ==
  FoldLeft(LAMBDA kept, e : IF e \in T THEN Append(kept, e) ELSE kept, <<>>, s)

\* The elements of S in the order of R, a set of pairs: the n-th one has n - 1
\* before it
Sorted(S, R) ==
  [n \in 1 .. Cardinality(S) |->
     CHOOSE x \in S : Cardinality({y \in S : <<y, x>> \in R}) = n - 1]
=============================================================================
