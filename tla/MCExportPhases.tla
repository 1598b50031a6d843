--------------------------- MODULE MCExportPhases ---------------------------
(***************************************************************************)
(* Small dictionaries and files for ExportPhases: the tables a and b, with *)
(* the storage ids sa and sb, and four pages in two groups.                *)
(***************************************************************************)
EXTENDS ExportPhases, TLC

CONSTANTS a, b, sa, sb, g1, g2, x, y, z, fx, fz

MCUnits == {a, b}
MCSids == {sa, sb}
MCGroups == {g1, g2}
MCKeys == {x, y, z, fx, fz}

\* x and y agree in the first column.
Full(k) == [key |-> k, weak |-> IF k = z THEN fz ELSE fx, cut |-> FALSE]
Cut(k) == [Full(k) EXCEPT !.cut = TRUE]

Group(p) == IF p < 2 THEN g1 ELSE g2

Data(p, sid, fits, rows) ==
  [kind |-> "data", sid |-> sid, group |-> Group(p), fits |-> fits, rows |-> rows]

Bad(p, kind) == [Data(p, sa, {}, <<>>) EXCEPT !.kind = kind]

Plain(u, group) ==
  [unit |-> u, planned |-> FALSE, plan |-> {}, recovery |-> FALSE,
   segmented |-> FALSE, known |-> TRUE, loose |-> FALSE, group |-> group,
   range |-> {p \in Pages : Group(p) = group}]

Guess(u, group) == [Plain(u, group) EXCEPT !.known = FALSE]

\* addKnownDataAssistID: the planned entry, if there is a plan, then the plain.
Known(u, plan, group) ==
  IF plan = {} THEN <<Plain(u, group)>>
  ELSE <<[Plain(u, group) EXCEPT !.planned = TRUE, !.plan = plan],
         Plain(u, group)>>

Normal(page, assist, segment, tracked, maxRows) ==
  [page |-> page, assist |-> assist, segment |-> segment, tracked |-> tracked,
   recovery |-> FALSE, live |-> MCSids, orphan |-> <<>>, maxRows |-> maxRows]

Assist(la, lb) == [s \in MCSids |-> IF s = sa THEN la ELSE lb]
Segment(ra, rb) == [u \in MCUnits |-> IF u = a THEN ra ELSE rb]

\* What each of the four pages may hold: a's rows, rows with a's storage id
\* that parse as b's, b's rows, or damage.
Contents(p) ==
  {Data(p, sa, {a}, <<Full(x), Full(z)>>), Data(p, sa, {b}, <<Full(x)>>),
   Data(p, sb, {a, b}, <<Full(z)>>)} \cup
  {Bad(p, k) : k \in IF p < 2 THEN {"unreadable", "broken"} ELSE {"foreign", "index"}}

\* The plan of a may be complete, broken before or after planning; b has its
\* storage, a guess or nothing; segment ranges are known or not.
Phases ==
  {Normal([p \in Pages |-> IF p = 0 THEN c0 ELSE IF p = 1 THEN c1
                           ELSE IF p = 2 THEN c2 ELSE c3],
          Assist(Known(a, plan, g1), lb), Segment(ra, {2, 3}), {}, max) :
     c0 \in Contents(0), c1 \in Contents(1), c2 \in Contents(2), c3 \in Contents(3),
     plan \in {{}, {0}, {0, 1}}, ra \in {{}, {1, 2}},
     lb \in {<<Guess(b, g2)>>, <<>>}, max \in {0, 3}}

\* Two tables claim the storage id sa, in either order.
Shared ==
  {Normal([p \in Pages |-> IF p \in as THEN Data(p, sa, {a}, <<Full(x)>>)
                           ELSE Data(p, sa, {b}, <<Full(z)>>)],
          Assist(la, <<>>), Segment({0, 1}, {}), {}, max) :
     as \in SUBSET (0 .. 3), max \in {0, 2},
     la \in {<<Plain(a, ga), Guess(b, gb)>> : ga \in MCGroups, gb \in MCGroups} \cup
            {<<Guess(b, gb), Plain(a, ga)>> : ga \in MCGroups, gb \in MCGroups} \cup
            {Known(a, {0, 2}, g1) \o <<Guess(b, gb)>> : gb \in MCGroups}}

\* Rows cut short, read from a plan, by a fallback or by a recovery scan
History(p) ==
  {Data(p, sa, {a}, rows) :
     rows \in {<<Full(x), Cut(x)>>, <<Cut(x)>>, <<Cut(y)>>, <<Cut(z)>>,
               <<Cut(y), Full(z)>>}}

Files(c0, c2, c3) ==
  [p \in Pages |-> CASE p = 0 -> c0 [] p = 1 -> Bad(p, "index")
                     [] p = 2 -> c2 [] p = 3 -> c3]

LastPage == {Data(3, sa, {a}, <<Full(z)>>), Bad(3, "foreign"), Bad(3, "unreadable")}

\* A former storage id of a: it turns coverage tracking on, and that is all.
Loose == [Guess(a, g1) EXCEPT !.loose = TRUE]

Historical ==
  {Normal(Files(c0, c2, c3), Assist(la, IF tr = {} THEN <<>> ELSE <<Loose>>),
          Segment({}, {}), tr, max) :
     c0 \in History(0), c2 \in History(2), c3 \in LastPage,
     la \in {Known(a, {0, 2}, g1), Known(a, {0, 2, 3}, g2)},
     tr \in {{}, {a}}, max \in {0, 3}}

\* A recovery export: sa still belongs to a, or to no live object.
Claimant == [Guess(a, g1) EXCEPT !.recovery = TRUE, !.range = Pages]

Recovery ==
  {[Normal(Files(c0, c2, c3), Assist(la, <<>>), Segment({}, {}), {a, b}, max)
      EXCEPT !.recovery = TRUE, !.live = {sb}, !.orphan = <<Claimant>>] :
     c0 \in History(0), c2 \in History(2), c3 \in LastPage,
     la \in {<<>>, <<Plain(b, g1), Claimant>>, <<Plain(a, g1)>>}, max \in {0, 3}}

MCLayouts == Phases \cup Shared \cup Historical \cup Recovery
=============================================================================
