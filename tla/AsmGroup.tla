------------------------------ MODULE AsmGroup ------------------------------
(***************************************************************************)
(* Opening the member disks of DMASM disk groups and reading a file from   *)
(* them (dmasm_raw.go, dmasm_mirror.go, OpenRawASMStorage).                *)
(*                                                                         *)
(* The disks come from a group whose history the operator does not know:   *)
(* one of them may have been replaced and still carry a complete map of an *)
(* older time.  Which bytes of which disk are what is the constant world   *)
(* picked in Init; nothing is ever written to a disk.  A unit is a stripe: *)
(* the largest piece read by one call that no boundary can cut.            *)
(***************************************************************************)
EXTENDS Integers, Sequences, FiniteSets, SequencesExt

CONSTANTS
  Media,        \* the sets of disks TLC tries: functions from member paths to disks
  Requests,     \* reads asked of an open file: records [off, len], in units
  AUUnits,      \* units in an allocation unit
  ExtentAUs,    \* allocation units in an extent of the older layout
  InodeFile,    \* the file id under which a mirror group keeps its inodes
  NoCopy, Bad   \* no link; what an unreadable allocation unit yields

ASSUME AsmAssumption ==
  /\ AUUnits \in Nat \ {0}
  /\ ExtentAUs \in Nat \ {0}
  /\ \A r \in Requests : r.off \in Nat /\ r.len \in Nat
  /\ NoCopy \notin Nat \X Nat

-----------------------------------------------------------------------------
(* What the servers that write the disks see to *)

\* The entry of a disk in a catalog
Lists(d, catalog) ==
  /\ d.id \in DOMAIN catalog
  /\ catalog[d.id] = [state |-> "normal", name |-> d.name, units |-> d.units]

\* The numbers an inode gives are not negative.
InodesWritten(c) == \A i \in c : i.extents \in Nat /\ i.auGroup \in Nat

\* A disk of a mirror group: the table tells of each unit which file it is of.
TableWritten(d) ==
  \A a \in DOMAIN d.table :
    LET x == d.table[a]
    IN /\ a \in Nat /\ x.mirrors \subseteq Nat \X Nat
       /\ d.content[a] # Bad =>
            IF x.file = InodeFile
            THEN InodesWritten(d.content[a]) /\ \A i \in d.content[a] : i.id # InodeFile
            ELSE d.content[a].file = x.file /\ d.content[a].seq = x.seq

\* A disk of the older layout: the extents that descriptors stand for are of
\* units with data, and lie apart.
Descriptors(d) ==
  {x \in (DOMAIN d.kind) \X (1 .. d.units) :
     /\ d.kind[x[1]] = "xdesc" /\ d.content[x[1]] # Bad
     /\ x[2] \in DOMAIN d.content[x[1]] /\ x[1] + (x[2] + 1) * ExtentAUs <= d.units}
FirstUnit(x) == x[1] + x[2] * ExtentAUs
DescriptorsWritten(d) ==
  /\ \A a \in DOMAIN d.kind :
       /\ a \in Nat
       /\ d.kind[a] = "inode" /\ d.content[a] # Bad => InodesWritten(d.content[a])
       /\ d.kind[a] = "xdesc" /\ d.content[a] # Bad => DOMAIN d.content[a] \subseteq Nat \ {0}
  /\ \A x, y \in Descriptors(d) :
       /\ \A u \in 0 .. ExtentAUs - 1 :
            FirstUnit(x) + u \in DOMAIN d.kind /\ d.kind[FirstUnit(x) + u] = "data"
       /\ x = y \/ FirstUnit(x) + ExtentAUs <= FirstUnit(y)
          \/ FirstUnit(y) + ExtentAUs <= FirstUnit(x)

\* Two disks of a group know the same present generation, if any; what the
\* catalog of it lists under its name and size has been brought up to it.
TellsPresent(d) == d.gen = d.now /\ d.catalog \notin {Bad, <<>>}
GroupWritten(d, e) ==
  /\ d.now = e.now
  /\ TellsPresent(d) /\ Lists(e, d.catalog) =>
       \A a \in DOMAIN e.table :
         e.table[a].file # InodeFile /\ e.content[a] # Bad => e.content[a].gen = e.now

\* The older layout has no copies: two units of a group hold different things.
UnitsDiffer(d, e) ==
  \A a \in DOMAIN d.kind : \A b \in DOMAIN e.kind :
    d.kind[a] = "data" /\ e.kind[b] = "data" /\ d.content[a] # Bad
      => (d.content[a] = e.content[b] => d = e /\ a = b)

IsMedia(m) ==
  \A p \in DOMAIN m :
    /\ m[p].id \in Nat /\ m[p].units \in Nat
    /\ m[p].now \in Nat /\ m[p].gen \in 0 .. m[p].now
    /\ TellsPresent(m[p]) => m[p].layout = "mirror" /\ m[p].gen # 0
    /\ TableWritten(m[p]) /\ DescriptorsWritten(m[p])
    /\ \A q \in DOMAIN m : m[p].group = m[q].group =>
         GroupWritten(m[p], m[q]) /\ UnitsDiffer(m[p], m[q])
ASSUME MediaAssumption == \A m \in Media : IsMedia(m)
-----------------------------------------------------------------------------

VARIABLES
  media,     \* the world: the member paths given, and what is on each disk
  opening,   \* the group being opened: NoGroup, or a record
  groups,    \* storage.groups: the groups opened so far, by group id
  todo,      \* group ids still to open, the lowest first
  handles,   \* paths whose file handle is open
  reading,   \* the logical file in use: NotReading, or a record
  asmPhase   \* where OpenRawASMStorage stands

asmVars == <<media, opening, groups, todo, handles, reading, asmPhase>>

NoGroup == [gid |-> 0]
NotReading == [path |-> NoCopy]

Disk(p) == media[p]
Members(g) == {p \in DOMAIN media : Disk(p).group = g}

Init0(m) ==
  /\ media = m
  /\ opening = NoGroup /\ groups = <<>> /\ todo = {} /\ handles = {}
  /\ reading = NotReading /\ asmPhase = "start"

AsmInit == \E m \in Media : Init0(m)

\* Fault: the handles stay open.
FailsOpen ==
  /\ asmPhase' = "failed"
  /\ opening' = NoGroup /\ groups' = <<>> /\ todo' = {}
  /\ UNCHANGED <<media, reading, handles>>

\* storage.Close and group.Close: an error gives up every handle.
AsmFails ==
  /\ asmPhase' = "failed" /\ handles' = {}
  /\ opening' = NoGroup /\ groups' = <<>> /\ todo' = {}
  /\ UNCHANGED <<media, reading>>

-----------------------------------------------------------------------------
(* OpenRawASMStorage and OpenRawASMGroup *)

\* Each member is opened once only to learn its group, and closed again.
SortMembers ==
  /\ asmPhase = "start"
  /\ IF \A p \in DOMAIN media : Disk(p).valid
     THEN /\ todo' = {Disk(p).group : p \in DOMAIN media}
          /\ asmPhase' = "next"
          /\ UNCHANGED <<media, opening, groups, handles, reading>>
     ELSE AsmFails

Consistent(P) == \A p, q \in P :
  /\ Disk(p).layout = Disk(q).layout
  /\ Disk(p).id = Disk(q).id => p = q

OpenMembers ==
  /\ asmPhase = "next"
  /\ \E g \in todo :
       /\ \A h \in todo : g <= h
       /\ LET P == Members(g)
              layout == Disk(CHOOSE p \in P : TRUE).layout
          IN IF Consistent(P)
             THEN /\ opening' = [gid |-> g, layout |-> layout, disks |-> P, name |-> "",
                                 files |-> {}, maps |-> {}]
                  /\ handles' = handles \cup P
                  /\ todo' = todo \ {g}
                  /\ asmPhase' = IF layout = "mirror" THEN "header" ELSE "inodes"
                  /\ UNCHANGED <<media, groups, reading>>
             ELSE AsmFails

\* The disks whose group header is readable, of the newest generation among them
WithHeader == {p \in opening.disks : Disk(p).gen # 0}
Candidates ==
  {p \in WithHeader : \A q \in WithHeader : Disk(q).gen <= Disk(p).gen}

\* What the members of the newest generation say about the group; a catalog
\* that cannot be read, and one with no record in it, say nothing.
Catalogs == {Disk(p).catalog : p \in Candidates} \ {Bad, <<>>}

\* Fault: a disk is known by its number alone.
NormalById(p, catalog) == Disk(p).id \in DOMAIN catalog
Normal(p, catalog) == Lists(Disk(p), catalog)

\* The headers are met in the order of the disk numbers: a name is compared with
\* that of the generation which is the newest so far.
NamesConflict == \E p, q \in WithHeader :
  /\ Disk(p).id < Disk(q).id
  /\ Disk(p).gen = Disk(q).gen /\ Disk(p).gname # Disk(q).gname
  /\ \A r \in WithHeader : Disk(r).id < Disk(q).id => Disk(r).gen <= Disk(q).gen

GroupHeader ==
  /\ asmPhase = "header"
  /\ IF \/ WithHeader = {} \/ NamesConflict
        \/ Cardinality(Catalogs) > 1
        \/ Catalogs = {} /\ \E p \in Candidates : Disk(p).catalog = Bad
        \/ \E c \in Catalogs : \A p \in opening.disks : ~Normal(p, c)
     THEN AsmFails
     ELSE LET kept == {p \in opening.disks : \A c \in Catalogs : Normal(p, c)} IN
          /\ opening' = [opening EXCEPT
               !.name = Disk(CHOOSE p \in Candidates : TRUE).gname, !.disks = kept]
          /\ handles' = handles \ (opening.disks \ kept)
          /\ asmPhase' = "maps"
          /\ UNCHANGED <<media, groups, todo, reading>>

-----------------------------------------------------------------------------
(* Allocation maps of a mirror group *)

IdsOf(P) == {Disk(p).id : p \in P}
ById(P, id) == CHOOSE p \in P : Disk(p).id = id

\* All descriptors of files on the disks kept: the place, and what it holds
Placed(P) == UNION {
  {[at |-> <<Disk(p).id, a>>, d |-> Disk(p).table[a]] :
     a \in DOMAIN Disk(p).table} : p \in P}

\* validateMirrorDescriptors: a copy or link on a disk at hand must agree.
Agrees(placed, at, file, seq) == \E x \in placed :
  x.at = at /\ x.d.file = file /\ x.d.seq = seq

DescriptorsValid(P) ==
  LET placed == Placed(P)
      AtHand(c) == c # NoCopy /\ c[1] \in IdsOf(P)
  IN \A x \in placed :
       /\ \A c \in x.d.mirrors : AtHand(c) => Agrees(placed, c, x.d.file, x.d.seq)
       /\ AtHand(x.d.prev) => x.d.seq # 0 /\ Agrees(placed, x.d.prev, x.d.file, x.d.seq - 1)
       /\ AtHand(x.d.next) => Agrees(placed, x.d.next, x.d.file, x.d.seq + 1)

LoadMaps ==
  /\ asmPhase = "maps"
  /\ LET P == opening.disks IN
     IF (\A p \in P : Disk(p).mapped) /\ DescriptorsValid(P)
     THEN /\ opening' = [opening EXCEPT !.maps =
               UNION {{[file |-> x.d.file, seq |-> x.d.seq, copy |-> c] :
                         c \in {x.at} \cup x.d.mirrors} : x \in Placed(P)}]
          /\ asmPhase' = "inodes"
          /\ UNCHANGED <<media, groups, todo, handles, reading>>
     ELSE AsmFails

\* The copies of one allocation unit
CopiesOf(maps, file, seq) == {m.copy : m \in {x \in maps : x.file = file /\ x.seq = seq}}
SeqNumbers(maps, file) == {m.seq : m \in {x \in maps : x.file = file}}

\* What a copy yields: Bad when its disk is not at hand or cannot be read.
Fetch(P, c) ==
  IF c[1] \in IdsOf(P) THEN Disk(ById(P, c[1])).content[c[2]] ELSE Bad

\* The order of places: disk, unit and entry
Below(x, y) == \E k \in DOMAIN x : x[k] < y[k] /\ \A l \in 1 .. k - 1 : x[l] = y[l]

\* scanMirrorInodeAU, readMirrorChunk: the first copy that can be read
FirstReadable(P, copies) ==
  LET good == {c \in copies : Fetch(P, c) # Bad}
  IN IF good = {} THEN Bad
     ELSE Fetch(P, CHOOSE c \in good : \A d \in good : ~Below(d, c))

-----------------------------------------------------------------------------
(* Inodes *)

\* A hole in the inode file would hide the entries after it.
MirrorInodes ==
  LET seqs == SeqNumbers(opening.maps, InodeFile)
      entries == [s \in seqs |->
        FirstReadable(opening.disks, CopiesOf(opening.maps, InodeFile, s))]
  IN IF seqs = {} \/ seqs # 0 .. Cardinality(seqs) - 1 \/ \E s \in seqs : entries[s] = Bad
     THEN Bad
     ELSE \* an entry of a later unit replaces one of the same path
          {i \in UNION {entries[s] : s \in seqs} :
             \A s, t \in seqs : i \in entries[s] /\ s < t
                => \A j \in entries[t] : j.path # i.path}

\* The older layout looks at every unit whose header says that it holds
\* inodes; the same path twice must be the same file, and the lower place counts.
InodeUnits(p) == {a \in DOMAIN Disk(p).kind : Disk(p).kind[a] = "inode"}
LegacyEntries == UNION {UNION {
  {[i EXCEPT !.at = <<Disk(p).id, a, i.at[3]>>] : i \in Disk(p).content[a]} :
     a \in InodeUnits(p)} : p \in opening.disks}
SameFile(i, j) ==
  <<i.id, i.path, i.size, i.extents, i.dir>> = <<j.id, j.path, j.size, j.extents, j.dir>>
LegacyInodes ==
  IF \/ \E p \in opening.disks : \E a \in DOMAIN Disk(p).kind : Disk(p).content[a] = Bad
     \/ \E i, j \in LegacyEntries : i.path = j.path /\ ~SameFile(i, j)
  THEN Bad
  ELSE {i \in LegacyEntries : \A j \in LegacyEntries :
          i.path = j.path => ~Below(j.at, i.at)}

\* The group name of the older layout is that of a path in it.
LoadInodes ==
  /\ asmPhase = "inodes"
  /\ LET found == IF opening.layout = "mirror" THEN MirrorInodes ELSE LegacyInodes
         named == IF opening.name # "" THEN opening.name
                  ELSE (CHOOSE i \in found : TRUE).gname
     IN IF \/ found \in {Bad, {}}
           \/ named # "" /\ \E g \in DOMAIN groups : groups[g].name = named
        THEN AsmFails
        ELSE /\ groups' = [g \in DOMAIN groups \cup {opening.gid} |->
                  IF g = opening.gid THEN [opening EXCEPT !.files = found, !.name = named]
                  ELSE groups[g]]
             /\ opening' = NoGroup
             /\ asmPhase' = "next"
             /\ UNCHANGED <<media, todo, handles, reading>>

StorageOpen ==
  /\ asmPhase = "next" /\ todo = {}
  /\ asmPhase' = "open"
  /\ UNCHANGED <<media, opening, groups, todo, handles, reading>>

-----------------------------------------------------------------------------
(* Open: the extents of one file *)

\* loadMirrorExtentMap
MirrorExtents(g, i) ==
  LET copies == [s \in 0 .. i.extents - 1 |-> CopiesOf(g.maps, i.id, s)]
  IN IF \/ i.extents * AUUnits < i.size
        \/ \E s \in DOMAIN copies : Cardinality(copies[s]) < IF i.copies = 0 THEN 1 ELSE i.copies
     THEN Bad
     ELSE copies

\* validateXDescAddress: an address <<disk, unit, index>> is that of a descriptor.
ValidXDesc(g, x) ==
  /\ x[1] \in IdsOf(g.disks)
  /\ LET d == Disk(ById(g.disks, x[1])) IN
     /\ x[2] \in DOMAIN d.kind
     /\ d.kind[x[2]] = "xdesc" /\ d.content[x[2]] # Bad
     /\ x[3] \in DOMAIN d.content[x[2]]
     /\ x[2] + (x[3] + 1) * ExtentAUs <= d.units

NextXDesc(g, x) == Disk(ById(g.disks, x[1])).content[x[2]][x[3]]

\* loadExtentChain: the first Extents descriptors, none of them twice
Chain(g, i) ==
  LET walk[n \in 1 .. i.extents] ==
        IF n = 1 THEN i.first
        ELSE IF walk[n - 1] # Bad /\ ValidXDesc(g, walk[n - 1])
             THEN NextXDesc(g, walk[n - 1]) ELSE Bad
  IN walk
LegacyExtents(g, i) ==
  LET chain == Chain(g, i) IN
  IF \/ \E n \in 1 .. i.extents : chain[n] = Bad \/ ~ValidXDesc(g, chain[n])
     \/ \E m, n \in 1 .. i.extents : m # n /\ \A k \in 1 .. 3 : chain[m][k] = chain[n][k]
     \/ i.extents * ExtentAUs * AUUnits < i.size
  THEN Bad
  ELSE [s \in 0 .. i.extents - 1 |->
          {<<chain[s + 1][1], chain[s + 1][2] + chain[s + 1][3] * ExtentAUs>>}]

Extents(g, i) ==
  IF g.layout = "mirror" THEN MirrorExtents(g, i) ELSE LegacyExtents(g, i)

\* RawASMStorage.Open; ReadAt clips what is asked to the size of the file.
OpenFile ==
  /\ asmPhase = "open"
  /\ \E gid \in DOMAIN groups : \E i \in groups[gid].files : \E r \in Requests :
       /\ ~i.dir
       /\ r.off < i.size /\ r.len > 0
       /\ LET x == Extents(groups[gid], i)
              end == IF r.off + r.len < i.size THEN r.off + r.len ELSE i.size
          IN reading' = [path |-> i.path, gid |-> gid, inode |-> i, extents |-> x,
                         off |-> r.off, end |-> end, got |-> <<>>]
       /\ asmPhase' = IF Extents(groups[gid], i) = Bad THEN "refused" ELSE "reading"
  /\ UNCHANGED <<media, opening, groups, todo, handles>>

-----------------------------------------------------------------------------
(* ReadAt *)

\* mirrorLocation: which logical allocation unit, and which unit within it; a
\* file striped over no units has none.
Striping(layout, i) == layout = "mirror" /\ i.striped => i.auGroup > 0
Location(layout, i, k) ==
  IF layout # "mirror"
  THEN <<k \div (ExtentAUs * AUUnits), k % (ExtentAUs * AUUnits)>>
  ELSE IF ~i.striped THEN <<k \div AUUnits, k % AUUnits>>
  ELSE LET within == k % (AUUnits * i.auGroup)
       IN <<(k \div (AUUnits * i.auGroup)) * i.auGroup + (within % i.auGroup),
            within \div i.auGroup>>

\* The next unit the loop of ReadAt asks for
Position == reading.off + Len(reading.got)

\* The unit of a place: an extent of the older layout runs over several units
\* of allocation, a copy of a mirror group is one.
UnitAt(g, copies, within) ==
  LET shifted == {<<c[1], c[2] + within \div AUUnits>> : c \in copies}
      content == FirstReadable(g.disks, shifted)
  IN IF content = Bad THEN Bad ELSE <<content, within % AUUnits>>

UnitFor(g, i, extents, k) ==
  LET place == Location(g.layout, i, k)
  IN IF Striping(g.layout, i) /\ place[1] \in DOMAIN extents
     THEN UnitAt(g, extents[place[1]], place[2]) ELSE Bad

ReadUnit ==
  /\ asmPhase = "reading" /\ Position < reading.end
  /\ LET unit == UnitFor(groups[reading.gid], reading.inode, reading.extents, Position)
     IN IF unit = Bad
        THEN asmPhase' = "read_error" /\ UNCHANGED reading
        ELSE /\ reading' = [reading EXCEPT !.got = Append(@, unit)]
             /\ UNCHANGED asmPhase
  /\ UNCHANGED <<media, opening, groups, todo, handles>>

ReadDone ==
  /\ asmPhase = "reading" /\ Position = reading.end
  /\ asmPhase' = "read"
  /\ UNCHANGED <<media, opening, groups, todo, handles, reading>>

AsmNext ==
  \/ SortMembers \/ OpenMembers \/ GroupHeader \/ LoadMaps \/ LoadInodes
  \/ StorageOpen \/ OpenFile \/ ReadUnit \/ ReadDone

AsmSpec == AsmInit /\ [][AsmNext]_asmVars
-----------------------------------------------------------------------------
(* Properties *)

AsmTypeOK ==
  /\ asmPhase \in {"start", "next", "header", "maps", "inodes", "open", "refused",
                   "reading", "read_error", "read", "failed"}
  /\ handles \subseteq DOMAIN media
  /\ \A g \in DOMAIN groups : groups[g].disks \subseteq Members(g)
  /\ asmPhase \in {"reading", "read_error", "read"} => reading.gid \in DOMAIN groups

\* Whether the present state of the group is told by a disk at hand: "now" is
\* the generation the group really has, which no disk need know.
NewestAtHand(g) == \E p \in Members(g) : TellsPresent(Disk(p))

\* A disk that was replaced may be among those given, with a complete map and
\* old contents.  Whenever one disk at hand still tells the present generation
\* and its members, what is read is what the group holds now, of the file
\* asked for (the comment on AU 2 in loadMirrorGroupHeader); and striping and
\* extents tile a file: no read yields the same unit of the file twice,
\* whichever copies it came from (mirrorLocation, ReadAt).
ReadsCurrent ==
  /\ asmPhase \in {"reading", "read"} /\ NewestAtHand(reading.gid) =>
       \A n \in DOMAIN reading.got :
         /\ reading.got[n][1].file = reading.inode.id
         /\ reading.got[n][1].gen = Disk(CHOOSE p \in Members(reading.gid) : TRUE).now
  /\ reading # NotReading => IsInjective(reading.got)

\* No handle of a member disk outlives a failed open, a disk the catalog
\* excludes or the storage itself (the Close calls of OpenRawASMGroup,
\* loadMirrorGroupHeader and OpenRawASMStorage).
HandlesOwned ==
  handles = UNION ({groups[g].disks : g \in DOMAIN groups}
                     \cup IF opening = NoGroup THEN {} ELSE {opening.disks})
=============================================================================
