----------------------------- MODULE MCPagePlan -----------------------------
(***************************************************************************)
(* Small storage units for PagePlan: a tree of two internal pages over     *)
(* four leaves, a root that is a leaf, and a heap of two branches.  In     *)
(* each, one link is pointed elsewhere or none, and up to MaxDamage pages  *)
(* are destroyed.                                                          *)
(***************************************************************************)
EXTENDS PagePlan, TLC

CONSTANTS Other, MaxDamage

MCRefs == 0 .. 7

Intact(r, kind, child, next) ==
  [read |-> "ok", self |-> r, kind |-> kind, storage |-> Unit,
   child |-> child, next |-> next, branches |-> {}, rows |-> FALSE]

\* Page 7 is past the end of the file.
PastEnd == [Intact(7, "other", Null, Null) EXCEPT !.read = "absent"]

\* 0 over 1 and 2; 1 over the leaves 3 and 4, 2 over 5 and 6.
Tree ==
  [r \in MCRefs |->
     CASE r = 0 -> Intact(r, "root", 1, Null)
       [] r = 1 -> Intact(r, "root", 3, 2)
       [] r = 2 -> Intact(r, "root", 5, Null)
       [] r \in 3 .. 5 -> Intact(r, "leaf", Null, r + 1)
       [] r = 6 -> Intact(r, "leaf", Null, Null)
       [] r = 7 -> PastEnd]

\* The root page 0 of a heap lists the branches 3 and 5.
Heap == [Tree EXCEPT ![0] = [Intact(0, "leaf", Null, Null)
                               EXCEPT !.branches = {3, 5}, !.rows = TRUE],
                     ![4].next = Null]

\* The leaves joined to the leaf r by links, as the links stand
Joined(page, r) ==
  LET after[s \in SUBSET (3 .. 6)] ==
        LET more == s \cup ({page[x].next : x \in s} \cap (3 .. 6))
        IN IF more = s THEN s ELSE after[more]
  IN after[{r}]

Ruined(p) ==
  {[p EXCEPT !.read = "error"], [p EXCEPT !.self = 7],
   [p EXCEPT !.storage = Other], [p EXCEPT !.kind = "other"]}

\* One page ruined in any way, or several unreadable.
Destroyed(page, n) ==
  {page} \cup
  UNION {{[page EXCEPT ![a] = x] : x \in Ruined(page[a])} : a \in 0 .. 6} \cup
  {[r \in MCRefs |-> [page[r] EXCEPT !.read = IF r \in gone THEN "error" ELSE @]] :
     gone \in {s \in SUBSET (0 .. 6) : Cardinality(s) \in 2 .. n}}

Relinked(page) ==
  {page} \cup
  {[page EXCEPT ![a].next = b] : a \in 1 .. 6, b \in (1 .. 7) \cup {Null, Garbage}}

Files(root, heap, page, spine, firsts) ==
  UNION {
    LET leaves == UNION {Joined(linked, f) : f \in firsts}
    IN {[root |-> root, nobranch |-> heap, page |-> damaged,
           spine |-> spine, leaves |-> leaves] :
          damaged \in Destroyed(linked, MaxDamage)} :
    linked \in Relinked(page)}

MCLayouts ==
  Files(0, FALSE, Tree, {0, 1, 3}, {3}) \cup
  Files(3, FALSE, Tree, {3}, {3}) \cup
  Files(0, TRUE, Heap, {}, {3, 5}) \cup
  {[root |-> 0, nobranch |-> TRUE, page |-> [Heap EXCEPT ![0].branches = {}],
    spine |-> {}, leaves |-> {0}]}
=============================================================================
