------------------------------ MODULE PagePlan ------------------------------
(***************************************************************************)
(* How the unloader plans the data pages of one storage unit: from the     *)
(* root page of its index down the leftmost children to a leaf, and along  *)
(* the leaf chain to its end; or, for a NOBRANCH heap, along the chain of  *)
(* every branch the root lists.  The pages are read from files that may    *)
(* be damaged.  A plan is all or nothing: the first page that cannot be    *)
(* validated discards it, and the unit is left to the fallback scans.      *)
(***************************************************************************)
EXTENDS Naturals, FiniteSets

CONSTANTS
  Refs,       \* page references (group, file, page number)
  Storages,   \* storage ids
  Unit,       \* the id of the unit being planned
  Null,       \* an all-0xFF page reference
  Garbage,    \* a page reference that readDMPageRef rejects
  MaxDepth,   \* maxBTreeDescentDepth
  Layouts     \* the file contents to plan over

\* What a page holds.  "absent" is past the end of its file, "error" a page
\* inside it that cannot be read.  self is the reference in its header.
Page == [read    : {"ok", "error", "absent"},
         self    : Refs,
         kind    : {"leaf", "root", "other"},
         storage : Storages,
         child   : Refs \cup {Null},
         next    : Refs \cup {Null, Garbage},
         branches : SUBSET Refs,
         rows    : BOOLEAN]

\* A layout also records, for the properties, the pages on the leftmost path
\* of the tree as it was written (spine), and the leaves that the links still
\* join to the first leaf (leaves).
Layout == [root : Refs, nobranch : BOOLEAN, page : [Refs -> Page],
           spine : SUBSET Refs, leaves : SUBSET Refs]

Genuine(l, r, kind) ==
  /\ l.page[r].read = "ok"
  /\ l.page[r].self = r
  /\ l.page[r].storage = Unit
  /\ l.page[r].kind = kind

\* Who starts at the pages in s and follows the links meets every leaf.
LeadToAll(l, s) ==
  \A t \in SUBSET l.leaves :
    /\ s \cap l.leaves \subseteq t
    /\ \A r \in t : l.page[r].next \in l.leaves => l.page[r].next \in t
    => t = l.leaves

\* spine and leaves are true of the layout: a page that is still itself has
\* the children, branches and kind it was written with.  A heap whose root
\* lists no branch has no other page.
SpineTrue(l) ==
  /\ l.root \in l.spine
  /\ \A r \in l.spine :
       /\ Genuine(l, r, "root") /\ l.page[r].child # Null =>
            l.page[r].child \in l.spine
       /\ Genuine(l, r, "leaf") => LeadToAll(l, {r})

BranchesTrue(l) ==
  Genuine(l, l.root, "leaf") =>
    IF l.page[l.root].branches = {} THEN l.leaves \subseteq {l.root}
    ELSE LeadToAll(l, l.page[l.root].branches)

ASSUME PlanAssumption ==
  /\ IsFiniteSet(Refs)
  /\ Null \notin Refs /\ Garbage \notin Refs /\ Null # Garbage
  /\ MaxDepth \in Nat \ {0}
  /\ Layouts \subseteq Layout

ASSUME RecordAssumption ==
  \A l \in Layouts : IF l.nobranch THEN BranchesTrue(l) ELSE SpineTrue(l)

Reasons == {"none", "invalid", "cycle", "limit"}

VARIABLES
  layout,    \* the files
  pc,        \* where the planner is
  current,   \* the page it looks at next
  seen,      \* internal pages passed (seen)
  chain,     \* leaves of the chain being walked (planned)
  plan,      \* leaves of the chains already walked
  branches,  \* NOBRANCH chains still to walk
  reason,    \* why there is no plan
  bypassed   \* history: a child or branch that did not validate was passed by

vars == <<layout, pc, current, seen, chain, plan, branches, reason, bypassed>>

PageAt(r) == layout.page[r]

\* Fault: the storage id is not compared.
OursUnchecked(r) ==
  /\ PageAt(r).read = "ok"
  /\ PageAt(r).self = r

\* readPage succeeds, the header names the page, and it belongs to the unit.
Ours(r) ==
  /\ PageAt(r).read = "ok"
  /\ PageAt(r).self = r
  /\ PageAt(r).storage = Unit

OurLeaf(r) == Ours(r) /\ PageAt(r).kind = "leaf"

OurTreePage(r) == Ours(r) /\ PageAt(r).kind \in {"leaf", "root"}

\* totalPageCount: the pages inside the files, readable or not
PageCount == Cardinality({r \in Refs : PageAt(r).read # "absent"})

\* Fault: the leaf chain is held to the depth of the tree.
DescentBound == MaxDepth

MaxSteps == IF PageCount = 0 THEN 1 ELSE PageCount * 2

Init ==
  /\ layout \in Layouts
  /\ pc = "open"
  /\ current = layout.root
  /\ seen = {}
  /\ chain = {}
  /\ plan = {}
  /\ branches = {}
  /\ reason = "none"
  /\ bypassed = FALSE

Fail(why) ==
  /\ pc' = "done"
  /\ reason' = why
  /\ plan' = {}
  /\ UNCHANGED <<layout, current, seen, chain, branches, bypassed>>

Finish(pages) ==
  /\ pc' = "done"
  /\ plan' = pages
  /\ UNCHANGED <<layout, current, seen, chain, branches, reason, bypassed>>

(***************************************************************************)
(* buildStoragePagePlanDetailed up to the choice by the kind of the root   *)
(***************************************************************************)
OpenInvalid ==
  /\ pc = "open"
  /\ \/ ~OurTreePage(layout.root)
     \/ layout.nobranch /\ PageAt(layout.root).kind # "leaf"
  /\ Fail("invalid")

OpenTree ==
  /\ pc = "open"
  /\ ~layout.nobranch
  /\ OurTreePage(layout.root)
  /\ pc' = IF PageAt(layout.root).kind = "leaf" THEN "walk" ELSE "descend"
  /\ UNCHANGED <<layout, current, seen, chain, plan, branches, reason, bypassed>>

\* noBranchChildPageRefs keeps the branches whose page validates.
Branches ==
  {r \in PageAt(layout.root).branches : r # layout.root /\ OurLeaf(r)}

OpenHeap ==
  /\ pc = "open"
  /\ layout.nobranch
  /\ OurLeaf(layout.root)
  /\ \E r \in Branches : current' = r /\ branches' = Branches \ {r}
  /\ pc' = "walk"
  /\ bypassed' = (Branches # PageAt(layout.root).branches)
  /\ UNCHANGED <<layout, seen, chain, plan, reason>>

\* Rows may live on the root itself of a heap that lists no valid branch.
OpenRootOnly ==
  /\ pc = "open"
  /\ layout.nobranch
  /\ OurLeaf(layout.root)
  /\ Branches = {}
  /\ pc' = "done"
  /\ IF PageAt(layout.root).rows
     THEN plan' = {layout.root} /\ UNCHANGED reason
     ELSE reason' = "invalid" /\ UNCHANGED plan
  /\ bypassed' = (PageAt(layout.root).branches # {})
  /\ UNCHANGED <<layout, current, seen, chain, branches>>

(***************************************************************************)
(* One iteration of descendLeftmostLeafDetailed.  Every iteration adds     *)
(* its page to seen, so the depth is the number of pages seen.             *)
(***************************************************************************)
\* Fault: neither depth nor pages seen are looked at.
TooDeepUnchecked(r) == FALSE

TooDeep(r) == r \in seen \/ Cardinality(seen) >= MaxDepth

DescentFails ==
  /\ pc = "descend"
  /\ \/ TooDeep(current)
     \/ ~OurTreePage(current)
  /\ Fail(IF Cardinality(seen) >= MaxDepth THEN "limit"
          ELSE IF current \in seen THEN "cycle" ELSE "invalid")

LeafFound ==
  /\ pc = "descend"
  /\ ~TooDeep(current)
  /\ OurLeaf(current)
  /\ pc' = "walk"
  /\ UNCHANGED <<layout, current, seen, chain, plan, branches, reason, bypassed>>

ChildOK(r) == PageAt(r).child # Null /\ OurTreePage(PageAt(r).child)

ToChild ==
  /\ pc = "descend"
  /\ ~TooDeep(current)
  /\ Ours(current) /\ PageAt(current).kind = "root"
  /\ ChildOK(current)
  /\ seen' = seen \cup {current}
  /\ current' = PageAt(current).child
  /\ UNCHANGED <<layout, pc, chain, plan, branches, reason, bypassed>>

\* The leftmost child is damaged: go on to the next page of this level.
ToSibling ==
  /\ pc = "descend"
  /\ ~TooDeep(current)
  /\ Ours(current) /\ PageAt(current).kind = "root"
  /\ ~ChildOK(current)
  /\ PageAt(current).next \in Refs
  /\ seen' = seen \cup {current}
  /\ current' = PageAt(current).next
  /\ bypassed' = TRUE
  /\ UNCHANGED <<layout, pc, chain, plan, branches, reason>>

NoSibling ==
  /\ pc = "descend"
  /\ ~TooDeep(current)
  /\ Ours(current) /\ PageAt(current).kind = "root"
  /\ ~ChildOK(current)
  /\ PageAt(current).next \notin Refs
  /\ Fail("invalid")

(***************************************************************************)
(* One iteration of walkLeafChainDetailed.  Every iteration adds its leaf  *)
(* to chain, so the steps taken are the number of leaves in it.            *)
(***************************************************************************)
Exhausted == Cardinality(chain) >= MaxSteps

\* Fault: a damaged next leaf ends the chain quietly.
EndsAtDamage(r) ==
  LET n == PageAt(r).next IN n = Null \/ (n \in Refs /\ ~OurLeaf(n))

\* The link after a leaf ends the chain, or leads on.
Ends(r) == PageAt(r).next = Null

WalkFails ==
  /\ pc = "walk"
  /\ \/ Exhausted
     \/ current \in chain
     \/ ~OurLeaf(current)
     \/ PageAt(current).next = Garbage
  /\ Fail(IF Exhausted THEN "limit"
          ELSE IF current \in chain THEN "cycle" ELSE "invalid")

\* Fault: the link is followed unchecked.
WalkAnywhere ==
  /\ pc = "walk"
  /\ ~Exhausted
  /\ current \notin chain
  /\ OurLeaf(current)
  /\ ~Ends(current)
  /\ chain' = chain \cup {current}
  /\ current' = PageAt(current).next
  /\ UNCHANGED <<layout, pc, seen, plan, branches, reason, bypassed>>

WalkOn ==
  /\ pc = "walk"
  /\ ~Exhausted
  /\ current \notin chain
  /\ OurLeaf(current)
  /\ ~Ends(current)
  /\ PageAt(current).next \in Refs
  /\ chain' = chain \cup {current}
  /\ current' = PageAt(current).next
  /\ UNCHANGED <<layout, pc, seen, plan, branches, reason, bypassed>>

WalkEnds ==
  /\ pc = "walk"
  /\ ~Exhausted
  /\ current \notin chain
  /\ OurLeaf(current)
  /\ Ends(current)
  /\ IF branches = {}
     THEN Finish(plan \cup chain \cup {current})
     ELSE /\ \E r \in branches : current' = r /\ branches' = branches \ {r}
          /\ plan' = plan \cup chain \cup {current}
          /\ chain' = {}
          /\ UNCHANGED <<layout, pc, seen, reason, bypassed>>

Done == pc = "done" /\ UNCHANGED vars

Open == OpenInvalid \/ OpenTree \/ OpenHeap \/ OpenRootOnly
Descend == DescentFails \/ LeafFound \/ ToChild \/ ToSibling \/ NoSibling
Walk == WalkFails \/ WalkOn \/ WalkEnds

Next == Open \/ Descend \/ Walk \/ Done

SafeSpec == Init /\ [][Next]_vars

\* The planner is a loop of one goroutine: it keeps taking steps.
Spec == SafeSpec /\ WF_vars(Open \/ Descend \/ Walk)

(***************************************************************************)
(* Properties                                                              *)
(***************************************************************************)
TypeOK ==
  /\ layout \in Layout
  /\ pc \in {"open", "descend", "walk", "done"}
  /\ current \in Refs
  /\ seen \subseteq Refs
  /\ chain \subseteq Refs
  /\ plan \subseteq Refs
  /\ branches \subseteq Refs
  /\ reason \in Reasons
  /\ bypassed \in BOOLEAN

Complete == pc = "done" /\ reason = "none"

\* A plan names validated leaves of the unit only, and it is closed under the
\* links of those leaves: no chain in it was abandoned half way.  The one page
\* not judged by its link is the root of a heap that lists no valid branch.
PlanClosed ==
  Complete =>
    /\ plan # {}
    /\ \A r \in plan : LET p == PageAt(r) IN
         p.read = "ok" /\ p.self = r /\ p.storage = Unit /\ p.kind = "leaf"
    /\ \/ layout.nobranch /\ plan = {layout.root}
       \/ \A r \in plan : PageAt(r).next \in plan \cup {Null}

\* Pages that cannot be read or validated never shorten a plan unnoticed: a
\* complete plan that passed nothing by holds every leaf of the unit.
NoLeafDropped == Complete /\ ~bypassed => layout.leaves \subseteq plan

\* Links that lead in a circle are recognised as such: the walk along the
\* leaves never runs into its own step limit first.
CyclesRecognised == pc = "done" /\ reason = "limit" => Cardinality(seen) = MaxDepth

\* Whatever the files hold, the planner ends.
Terminates == <>(pc = "done")

\* README.md, "table data location strategy": with a complete plan only the
\* planned pages are read, and a broken chain or page is left to the scan of
\* the group.  So a complete plan has to hold every leaf of the unit.
CompletePlanCovers == Complete => layout.leaves \subseteq plan
=============================================================================
