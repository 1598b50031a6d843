------------------------------- MODULE MCDisks -------------------------------
(* Disks of ASM groups, the files of two databases on them, and the files of
   a directory, as TLC tries them. *)
EXTENDS AsmGroup, AsmDatabase, DataFiles

Unit(file, seq, gen) == [file |-> file, seq |-> seq, gen |-> gen]
MCRequests == [off : {0, 1, 3}, len : {2, 9}]

Inode(path, id, size, extents) ==
  [path |-> path, id |-> id, size |-> size, extents |-> extents, dir |-> FALSE,
   gname |-> "G", copies |-> 2, striped |-> FALSE, auGroup |-> 0,
   first |-> NoCopy, at |-> <<0, 0, 0>>]

\* A mirror group of disks 0 and 1, where disk 1 was later replaced by disk 2.
\* Unit 0 holds the inodes, units 1 and 2 a file.
DiskNames == <<"DMASM0", "DMASM1", "DMASM2", "DMASM3">>
Member(id, state) == id :> [state |-> state, name |-> DiskNames[id + 1], units |-> 3]
Two(x, y) == Member(0, "normal") @@ Member(x, "normal") @@ Member(y, "deleted")
Link(id, unit) == <<id, unit>>
MirrorTable(id, other) ==
  0 :> [file |-> InodeFile, seq |-> 0, mirrors |-> {Link(other, 0)},
        prev |-> NoCopy, next |-> NoCopy] @@
  1 :> [file |-> 5, seq |-> 0, mirrors |-> {Link(other, 1)},
        prev |-> NoCopy, next |-> Link(id, 2)] @@
  2 :> [file |-> 5, seq |-> 1, mirrors |-> {Link(other, 2)},
        prev |-> Link(id, 1), next |-> NoCopy]

MirrorDisk(id, other, gen, catalog, striped) ==
  [valid |-> TRUE, layout |-> "mirror", group |-> 1, id |-> id, name |-> DiskNames[id + 1], gen |-> gen,
   now |-> 2, gname |-> "DATA", catalog |-> catalog, mapped |-> TRUE,
   table |-> MirrorTable(id, other), kind |-> <<>>, units |-> 3,
   content |-> 0 :> {[Inode("f", 5, 4, 2) EXCEPT !.striped = striped,
                        !.auGroup = IF striped THEN 2 ELSE 0]} @@
               1 :> Unit(5, 0, gen) @@ 2 :> Unit(5, 1, gen)]

Replaced(striped) ==
  "a" :> MirrorDisk(0, 2, 2, Two(2, 1), striped) @@
  "b" :> MirrorDisk(1, 0, 1, Two(1, 3), striped) @@
  "c" :> MirrorDisk(2, 0, 2, Two(2, 1), striped)

\* A group of the older layout: an extent is two units; unit 0 of each disk
\* describes extents, unit 1 holds inodes.
LegacyInode(at) == [Inode("g", 7, 7, 2) EXCEPT !.first = <<0, 0, 1>>, !.at = at]
LegacyDisk(id, inodes, chain, c) ==
  [valid |-> TRUE, layout |-> "legacy", group |-> 2, id |-> id, name |-> DiskNames[id + 1], gen |-> 0, now |-> 0,
   gname |-> "OLD", catalog |-> <<>>, mapped |-> TRUE, table |-> <<>>, units |-> 6,
   kind |-> [u \in 0 .. 5 |-> IF u = 0 THEN "xdesc" ELSE IF u = 1 THEN "inode" ELSE "data"],
   content |-> 0 :> chain @@ 1 :> inodes @@ 2 :> c[1] @@ 3 :> c[2]
                 @@ [u \in 4 .. 5 |-> Unit(0, 10 * id + u, 0)]]
Older ==
  "d" :> LegacyDisk(0, {LegacyInode(<<0, 0, 1>>)}, 1 :> <<1, 0, 1>> @@ 2 :> Bad,
                    <<Unit(7, 0, 0), Unit(7, 1, 0)>>) @@
  "e" :> LegacyDisk(1, {LegacyInode(<<0, 0, 2>>)}, 1 :> <<0, 0, 1>> @@ 2 :> <<9, 0, 1>>,
                    <<Unit(7, 2, 0), Unit(7, 3, 0)>>)

\* Everything that may be wrong with one disk of a set: with any disk, with one
\* of a mirror group, and with one of the older layout
AnyHarm(d) ==
  {[d EXCEPT !.valid = FALSE], [d EXCEPT !.id = 0]}
  \cup {[d EXCEPT !.content[u] = Bad] : u \in DOMAIN d.content}
MirrorHarm(d) ==
  {[d EXCEPT !.gen = 0], [d EXCEPT !.catalog = Bad], [d EXCEPT !.catalog = <<>>],
   [d EXCEPT !.catalog = Two(2, 3)], [d EXCEPT !.gen = 1, !.catalog = Two(1, 3)],
   [d EXCEPT !.gname = "OTHER"], [d EXCEPT !.mapped = FALSE]}
  \cup {[d EXCEPT !.table[u].mirrors = {Link(0, 2)}] : u \in DOMAIN d.table}
  \cup {[d EXCEPT !.content[0] = {[i EXCEPT !.auGroup = 0] : i \in I}] :
           I \in {d.content[0]} \ {Bad}}
LegacyHarm(d) ==
  {[d EXCEPT !.layout = "mirror"]}
  \cup {[d EXCEPT !.content[1] = {[i EXCEPT !.size = 6] : i \in I}] :
           I \in {d.content[1]} \ {Bad}}
  \cup {[d EXCEPT !.content[1] = {[i EXCEPT !.first = <<1, 0, 1>>] : i \in I}] :
           I \in {d.content[1]} \ {Bad}}
  \cup IF d.content[0] = Bad THEN {}
       ELSE {[d EXCEPT !.content[0][1] = x] :
               x \in {<<0, 0, 1>>, <<1, 0, 1>>, <<0, 0, 2>>, <<1, 1, 1>>, <<3, 0, 1>>}}
Harm(m) == UNION {{[m EXCEPT ![p] = d] :
    d \in AnyHarm(m[p]) \cup IF m[p].group = 1 THEN MirrorHarm(m[p]) ELSE LegacyHarm(m[p])} :
  p \in DOMAIN m}

Parts(m) == {[p \in P |-> m[p]] : P \in SUBSET DOMAIN m \ {{}}}

MCMedia ==
  LET whole == UNION {Parts(m) : m \in {Replaced(TRUE), Replaced(FALSE), Older}}
  IN whole \cup UNION {Harm(m) : m \in whole} \cup {Replaced(TRUE) @@ Older}
       \cup UNION {Harm(m) : m \in Harm(Replaced(FALSE))}
-----------------------------------------------------------------------------

\* Database A has its files in groups 1 and 3, database B in group 2, in a
\* directory of the same name
AsmFile(g, d, b, own, h) ==
  [path |-> <<g, d, b>>, group |-> g, dir |-> d, base |-> b, temp |-> -1, owner |-> own,
   header |-> h, pageZero |-> TRUE, readable |-> TRUE, lists |-> {}]
AsmFiles ==
  {AsmFile(1, "D", "SYSTEM", "A", <<0, 0>>), AsmFile(1, "D", "MAIN", "A", <<4, 0>>),
   AsmFile(3, "D", "X", "A", <<6, 0>>),
   [AsmFile(1, "D", "DM.CTL", "A", <<0, 0>>) EXCEPT
      !.lists = {<<1, "D", "SYSTEM">>, <<1, "D", "MAIN">>, <<3, "D", "X">>}],
   AsmFile(2, "D", "SYSTEM", "B", <<0, 0>>), AsmFile(2, "D", "MAIN", "B", <<4, 0>>),
   AsmFile(2, "D", "Y", "B", <<5, 0>>),
   [AsmFile(2, "D", "DM.CTL", "B", <<0, 0>>) EXCEPT
      !.lists = {<<2, "D", "SYSTEM">>, <<2, "D", "MAIN">>, <<2, "D", "Y">>}]}
AsmVaried(f) == {[f EXCEPT !.readable = FALSE], [f EXCEPT !.pageZero = FALSE]}
\* The files X and Y under the name TEMP1
AsTemporary(S) ==
  {IF f.base \in {"X", "Y"} THEN [f EXCEPT !.base = "TEMP1", !.temp = 1] ELSE f : f \in S}
MCSnapshots ==
  UNION {{S, AsTemporary(S)}
         \cup UNION {{(S \ {f}) \cup {g} : g \in AsmVaried(f)} : f \in S} :
           S \in SUBSET AsmFiles}
-----------------------------------------------------------------------------

\* Three files dm.ctl lists, and one it does not, which may claim a place that is
\* taken; the first one's page zero may be damaged
At(d, headers) == [p \in {d} \X DOMAIN headers |-> headers[p[2]]]
OfOne(h) ==
  [name |-> (1 :> <<4, 0>>),
   ctl |-> <<[group |-> 4, paths |-> <<<<"live", 1>>>>],
             [group |-> 5, paths |-> <<<<"live", 2>>, <<"live", 3>>>>]>>,
   header |-> At("here", <<h[1], <<5, 0>>, <<5, 1>>, h[2]>>)
              @@ At("live", <<h[1], <<5, 0>>, <<5, 1>>>>)]
\* Two files of one name, of two groups in two directories; one of them may be
\* in data_dir
SameNames(b) ==
  [name |-> (1 :> <<4, 0>>),
   ctl |-> <<[group |-> 4, paths |-> <<<<"live", 1>>>>],
             [group |-> 5, paths |-> <<<<"live", 2>>>>],
             [group |-> 6, paths |-> <<<<"other", b>>>>]>>,
   header |-> At("live", <<<<4, 0>>, <<5, 0>>>>)
              @@ (<<"other", b>> :> <<6, 0>>) @@ (<<"here", b>> :> <<6, 0>>)]
MCWorlds ==
  {OfOne(h) : h \in {<<<<4, 0>>, <<5, 1>>>>, <<NoPlace, <<6, 0>>>>}}
  \cup {SameNames(b) : b \in {1, 2}}
=============================================================================
