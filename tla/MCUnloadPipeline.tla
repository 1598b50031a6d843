-------------------------- MODULE MCUnloadPipeline --------------------------
(***************************************************************************)
(* Small instances of UnloadPipeline for TLC.                              *)
(***************************************************************************)
EXTENDS UnloadPipeline, TLC

CONSTANTS k1, k2, k3, u1, u2

MCKeys == {k1, k2, k3}
MCUnits == {u1, u2}

Page(kind, bytes, key, unit) ==
  [kind |-> kind, bytes |-> bytes, key |-> key, unit |-> unit]

\* Pages 0 .. NumPages - 1 from a list
OnDisk(list) == [p \in Pages |-> list[p + 1]]

\* Five pages, three jobs of two, two and one pages.
EvenRows == OnDisk(<<
  Page("full", 1, k1, u1), Page("full", 1, k2, u1), Page("full", 1, k3, u1),
  Page("full", 1, k1, u2), Page("full", 1, k2, u2)>>)

\* Pages whose LOB columns make single chunks larger than the whole limit
LargeRows == OnDisk(<<
  Page("full", 4, k1, u1), Page("full", 0, k2, u1), Page("full", 4, k2, u1),
  Page("partial", 1, k1, u1), Page("full", 5, k3, u2)>>)

\* Every way a page can fail
Damaged == OnDisk(<<
  Page("unreadable", 0, k1, u1), Page("partial", 2, k1, u1),
  Page("skipped", 0, k2, u2), Page("mismatched", 0, k2, u2),
  Page("bad", 2, k3, u2)>>)

\* The coverage cap is met in the middle of the plan.
Overflowing == OnDisk(<<
  Page("full", 2, k1, u1), Page("full", 2, k2, u1), Page("partial", 2, k1, u1),
  Page("full", 1, k3, u1), Page("full", 3, k1, u1)>>)

MCDisks == {EvenRows, LargeRows, Damaged, Overflowing}
=============================================================================
