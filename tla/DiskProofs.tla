----------------------------- MODULE DiskProofs -----------------------------
(***************************************************************************)
(* What reads disks and writes files beside them, whatever is on the disks *)
(* and whatever others do meanwhile.  However many groups the disks form   *)
(* and wherever opening them fails, the open handles are those of the      *)
(* groups opened and of the one being opened; files of two databases are   *)
(* never taken for one; what is read as a file of a group was given that   *)
(* number by its first page, its name or dm.ctl, and no identity is left   *)
(* out; no name of a data file that is copied ever stands for a part of it.*)
(***************************************************************************)
EXTENDS AsmGroup, AsmDatabase, DataFiles, OfflineCopy, Induction

(* Groups of disks (AsmGroup) *)

\* The record of a group, whose disks are its members
GroupRecord(x) ==
  x = [gid |-> x.gid, layout |-> x.layout, disks |-> x.disks, name |-> x.name,
       files |-> x.files, maps |-> x.maps]
Phases == {"start", "next", "header", "maps", "inodes", "open", "refused", "reading",
           "read_error", "read", "failed"}
Opening == asmPhase \in {"header", "maps", "inodes"}

\* No group is opened twice, so a disk the catalog of one group excludes is
\* none of another group.
AsmInv ==
  /\ asmPhase \in Phases
  /\ asmPhase = "start" => DOMAIN groups = {}
  /\ ~Opening => opening = NoGroup
  /\ Opening => /\ GroupRecord(opening) /\ opening # NoGroup
                /\ opening.disks \subseteq Members(opening.gid)
                /\ opening.gid \notin todo \cup DOMAIN groups
  /\ \A g \in DOMAIN groups : g \notin todo /\ groups[g].disks \subseteq Members(g)
  /\ HandlesOwned

LEMMA MembersApart ==
  ASSUME NEW g, NEW h, g # h
  PROVE  Members(g) \cap Members(h) = {}
BY DEF Members

LEMMA NoGroupIsNone ==
  ASSUME NEW x, GroupRecord(x)
  PROVE  x # NoGroup
<1>1. DOMAIN x = {"gid", "layout", "disks", "name", "files", "maps"}
  BY DEF GroupRecord
<1>2. DOMAIN NoGroup = {"gid"}
  BY DEF NoGroup
<1> QED BY <1>1, <1>2

LEMMA FailedStateIsOwned ==
  ASSUME AsmFails
  PROVE  AsmInv'
BY DEF AsmFails, AsmInv, Phases, Opening, HandlesOwned, NoGroup

LEMMA AsmInvHoldsAtFirst ==
  ASSUME AsmInit
  PROVE  AsmInv
<1>1. /\ asmPhase = "start" /\ opening = NoGroup /\ groups = <<>> /\ handles = {}
  BY DEF AsmInit, Init0
<1> QED BY <1>1 DEF AsmInv, Phases, Opening, HandlesOwned

LEMMA AsmInvIsKept ==
  ASSUME AsmInv, [AsmNext]_asmVars
  PROVE  AsmInv'
<1>1. CASE SortMembers
  <2>1. CASE AsmFails
    BY <2>1, FailedStateIsOwned
  <2>2. CASE ~AsmFails
    <3>1. /\ asmPhase = "start" /\ asmPhase' = "next"
          /\ UNCHANGED <<media, opening, groups, handles, reading>>
      BY <1>1, <2>2 DEF SortMembers
    <3> QED BY <3>1 DEF AsmInv, Phases, Opening, HandlesOwned
  <2> QED BY <2>1, <2>2
<1>2. CASE OpenMembers
  <2>1. CASE AsmFails
    BY <2>1, FailedStateIsOwned
  <2>2. CASE ~AsmFails
    <3>a. PICK g \in todo :
            /\ \E l : opening' = [gid |-> g, layout |-> l, disks |-> Members(g), name |-> "",
                                  files |-> {}, maps |-> {}]
            /\ handles' = handles \cup Members(g)
            /\ todo' = todo \ {g}
            /\ asmPhase' \in {"header", "inodes"}
            /\ UNCHANGED <<media, groups, reading>>
      BY <1>2, <2>2 DEF OpenMembers
    <3>1. /\ opening'.gid = g /\ opening'.disks = Members(g) /\ GroupRecord(opening')
          /\ handles' = handles \cup Members(g)
          /\ todo' = todo \ {g}
          /\ asmPhase' \in {"header", "inodes"}
          /\ UNCHANGED <<media, groups, reading>>
      <4>1. PICK l : opening' = [gid |-> g, layout |-> l, disks |-> Members(g), name |-> "",
                                 files |-> {}, maps |-> {}]
        BY <3>a
      <4>2. GroupRecord(opening')
        BY <4>1 DEF GroupRecord
      <4> QED BY <3>a, <4>1, <4>2
    <3>2. asmPhase = "next"
      BY <1>2 DEF OpenMembers
    <3>3. opening' # NoGroup
      BY <3>1, NoGroupIsNone
    <3>4. opening = NoGroup
      BY <3>2 DEF AsmInv, Opening
    <3>5. \A h : Members(h)' = Members(h)
      BY <3>1 DEF Members, Disk
    <3>6. HandlesOwned'
      BY <3>1, <3>3, <3>4 DEF AsmInv, HandlesOwned, NoGroup
    <3> QED BY <3>1, <3>2, <3>3, <3>5, <3>6 DEF AsmInv, Phases, Opening, NoGroup
  <2> QED BY <2>1, <2>2
<1>3. CASE GroupHeader
  <2>1. CASE AsmFails
    BY <2>1, FailedStateIsOwned
  <2>2. CASE ~AsmFails
    <3>0. asmPhase = "header" /\ Opening
      BY <1>3 DEF GroupHeader, Opening
    <3>1. PICK kept \in SUBSET opening.disks :
            /\ \E n : opening' = [opening EXCEPT !.name = n, !.disks = kept]
            /\ handles' = handles \ (opening.disks \ kept)
            /\ asmPhase' = "maps"
            /\ UNCHANGED <<media, groups, todo, reading>>
      <4> DEFINE kept == {p \in opening.disks : \A c \in Catalogs : Normal(p, c)}
      <4>1. /\ opening' = [opening EXCEPT
                 !.name = Disk(CHOOSE p \in Candidates : TRUE).gname, !.disks = kept]
            /\ handles' = handles \ (opening.disks \ kept)
            /\ asmPhase' = "maps"
            /\ UNCHANGED <<media, groups, todo, reading>>
        BY <1>3, <2>2 DEF GroupHeader
      <4> HIDE DEF kept
      <4>2. kept \in SUBSET opening.disks
        BY DEF kept
      <4> QED BY <4>1, <4>2
    <3>2. GroupRecord(opening)
      BY <3>0 DEF AsmInv
    <3>3. /\ GroupRecord(opening')
          /\ opening'.gid = opening.gid /\ opening'.disks = kept
      BY <3>1, <3>2 DEF GroupRecord
    <3>4. opening' # NoGroup
      BY <3>3, NoGroupIsNone
    <3>5. \A h : Members(h)' = Members(h)
      BY <3>1 DEF Members, Disk
    <3>6. \A h \in DOMAIN groups : groups[h].disks \cap opening.disks = {}
      <4> SUFFICES ASSUME NEW h \in DOMAIN groups
                   PROVE  groups[h].disks \cap opening.disks = {}
        OBVIOUS
      <4>1. h # opening.gid
        BY <3>0 DEF AsmInv
      <4>2. groups[h].disks \subseteq Members(h) /\ opening.disks \subseteq Members(opening.gid)
        BY <3>0 DEF AsmInv
      <4> QED BY <4>1, <4>2, MembersApart
    <3>7. HandlesOwned'
      <4>1. handles = UNION ({groups[h].disks : h \in DOMAIN groups} \cup {opening.disks})
        BY <3>0 DEF AsmInv, HandlesOwned
      <4>2. handles' = UNION ({groups[h].disks : h \in DOMAIN groups} \cup {kept})
        BY <4>1, <3>1, <3>6
      <4> QED BY <4>2, <3>1, <3>3, <3>4 DEF HandlesOwned, NoGroup
    <3>8. /\ (opening.disks \subseteq Members(opening.gid))'
          /\ opening'.gid \notin todo' \cup DOMAIN groups'
      <4>1. opening.disks \subseteq Members(opening.gid)
        BY <3>0 DEF AsmInv
      <4>2. opening.gid \notin todo \cup DOMAIN groups
        BY <3>0 DEF AsmInv
      <4>3. opening'.disks \subseteq Members(opening.gid)
        BY <3>1, <3>3, <4>1
      <4>4. Members(opening.gid)' = Members(opening.gid)
        BY <3>1, <3>3 DEF Members, Disk
      <4>5. todo' = todo /\ groups' = groups
        BY <3>1
      <4> QED BY <3>3, <4>2, <4>3, <4>4, <4>5
    <3>9. /\ asmPhase' = "maps"
          /\ \A h \in DOMAIN groups' : h \notin todo' /\ groups'[h].disks \subseteq Members(h)'
      BY <3>1, <3>5 DEF AsmInv
    <3>10. Opening' /\ asmPhase' \in Phases /\ asmPhase' # "start"
      BY <3>9 DEF Opening, Phases
    <3> QED BY <3>3, <3>4, <3>7, <3>8, <3>9, <3>10 DEF AsmInv
  <2> QED BY <2>1, <2>2
<1>4. CASE LoadMaps
  <2>1. CASE AsmFails
    BY <2>1, FailedStateIsOwned
  <2>2. CASE ~AsmFails
    <3>0. asmPhase = "maps" /\ Opening
      BY <1>4 DEF LoadMaps, Opening
    <3>1. /\ \E n : opening' = [opening EXCEPT !.maps = n]
          /\ asmPhase' = "inodes"
          /\ UNCHANGED <<media, groups, todo, handles, reading>>
      BY <1>4, <2>2 DEF LoadMaps
    <3>2. GroupRecord(opening)
      BY <3>0 DEF AsmInv
    <3>3. /\ GroupRecord(opening')
          /\ opening'.gid = opening.gid /\ opening'.disks = opening.disks
      BY <3>1, <3>2 DEF GroupRecord
    <3>4. opening' # NoGroup
      BY <3>3, NoGroupIsNone
    <3>5. \A h : Members(h)' = Members(h)
      BY <3>1 DEF Members, Disk
    <3>6. HandlesOwned'
      BY <3>0, <3>1, <3>3, <3>4 DEF AsmInv, HandlesOwned, NoGroup
    <3> QED BY <3>0, <3>1, <3>3, <3>4, <3>5, <3>6 DEF AsmInv, Phases, Opening, NoGroup
  <2> QED BY <2>1, <2>2
<1>5. CASE LoadInodes
  <2>1. CASE AsmFails
    BY <2>1, FailedStateIsOwned
  <2>2. CASE ~AsmFails
    <3>0. asmPhase = "inodes" /\ Opening
      BY <1>5 DEF LoadInodes, Opening
    <3>1. PICK new :
            /\ \E f, n : new = [opening EXCEPT !.files = f, !.name = n]
            /\ groups' = [g \in DOMAIN groups \cup {opening.gid} |->
                            IF g = opening.gid THEN new ELSE groups[g]]
            /\ opening' = NoGroup
            /\ asmPhase' = "next"
            /\ UNCHANGED <<media, todo, handles, reading>>
      BY <1>5, <2>2 DEF LoadInodes
    <3>2. GroupRecord(opening)
      BY <3>0 DEF AsmInv
    <3>3. new.disks = opening.disks
      BY <3>1, <3>2 DEF GroupRecord
    <3>4. \A h : Members(h)' = Members(h)
      BY <3>1 DEF Members, Disk
    <3>5. /\ DOMAIN groups' = DOMAIN groups \cup {opening.gid}
          /\ groups'[opening.gid] = new
          /\ \A h \in DOMAIN groups : groups'[h] = groups[h]
      <4>1. opening.gid \notin DOMAIN groups
        BY <3>0 DEF AsmInv
      <4> QED BY <3>1, <4>1
    <3>6. HandlesOwned'
      <4>1. handles = UNION ({groups[h].disks : h \in DOMAIN groups} \cup {opening.disks})
        BY <3>0 DEF AsmInv, HandlesOwned
      <4>2. {groups'[h].disks : h \in DOMAIN groups'}
              = {groups[h].disks : h \in DOMAIN groups} \cup {opening.disks}
        BY <3>3, <3>5
      <4> QED BY <3>1, <4>1, <4>2 DEF HandlesOwned, NoGroup
    <3>7. \A h \in DOMAIN groups' : h \notin todo' /\ groups'[h].disks \subseteq Members(h)'
      BY <3>0, <3>1, <3>3, <3>4, <3>5 DEF AsmInv
    <3> QED BY <3>1, <3>6, <3>7 DEF AsmInv, Phases, Opening, NoGroup
  <2> QED BY <2>1, <2>2
<1>6. CASE StorageOpen
  BY <1>6 DEF StorageOpen, AsmInv, Phases, Opening, HandlesOwned, Members, Disk
<1>7. CASE OpenFile
  <2>1. /\ asmPhase = "open" /\ asmPhase' \in {"refused", "reading"}
        /\ UNCHANGED <<media, opening, groups, todo, handles>>
    BY <1>7 DEF OpenFile
  <2> QED BY <2>1 DEF AsmInv, Phases, Opening, HandlesOwned, Members, Disk
<1>8. CASE ReadUnit
  <2>1. /\ asmPhase = "reading" /\ asmPhase' \in {"reading", "read_error"}
        /\ UNCHANGED <<media, opening, groups, todo, handles>>
    BY <1>8 DEF ReadUnit
  <2> QED BY <2>1 DEF AsmInv, Phases, Opening, HandlesOwned, Members, Disk
<1>9. CASE ReadDone
  BY <1>9 DEF ReadDone, AsmInv, Phases, Opening, HandlesOwned, Members, Disk
<1>10. CASE UNCHANGED asmVars
  BY <1>10 DEF asmVars, AsmInv, Phases, Opening, HandlesOwned, Members, Disk, GroupRecord
<1> QED
  BY <1>1, <1>2, <1>3, <1>4, <1>5, <1>6, <1>7, <1>8, <1>9, <1>10 DEF AsmNext

\* For any number of groups, disks and contents: the handles open are those
\* of the disks of the groups opened and of the one being opened, so that no
\* failed open, no disk the catalog excludes and no Close leaves one behind
\* (OpenRawASMGroup, loadMirrorGroupHeader, RawASMStorage.Close).
THEOREM HandlesAreOwned == AsmSpec => []HandlesOwned
<1>1. AsmInit => AsmInv
  BY AsmInvHoldsAtFirst
<1>2. AsmInv /\ [AsmNext]_asmVars => AsmInv'
  BY AsmInvIsKept
<1>3. AsmInv => HandlesOwned
  BY DEF AsmInv
<1> QED BY <1>1, <1>2, <1>3, PTL DEF AsmSpec

(* What is read of a file of a group.  The invariant follows one sentence     *)
(* through the opening of a group: what its maps and inodes say was read from *)
(* disks that are in it now.  Reading adds that the extents of a file lie     *)
(* apart and that a position is at one place of one of them.                  *)

\* A group that was found consistent; that its disks are in it now; and what
\* the maps and inodes read from them say.
GroupSound(x) ==
  /\ x.disks \subseteq Members(x.gid) /\ Consistent(Members(x.gid))
  /\ \A p \in Members(x.gid) : Disk(p).layout = x.layout
DisksCurrent(x) ==
  \A q \in Members(x.gid) : TellsPresent(Disk(q)) =>
    \A p \in x.disks : Lists(Disk(p), Disk(q).catalog)
MapsTold(x) ==
  \A e \in x.maps :
    /\ e.copy \in Nat \X Nat
    /\ e.copy[1] \in IdsOf(x.disks) =>
         LET d == Disk(ById(x.disks, e.copy[1]))
         IN /\ e.copy[2] \in DOMAIN d.table
            /\ d.table[e.copy[2]].file = e.file /\ d.table[e.copy[2]].seq = e.seq
InodeTold(layout, i) ==
  i.extents \in Nat /\ i.auGroup \in Nat /\ (layout = "mirror" => i.id # InodeFile)
GroupTold(x) ==
  GroupSound(x) /\ DisksCurrent(x) /\ MapsTold(x) /\ \A i \in x.files : InodeTold(x.layout, i)

\* Of any set of places one is tried first
LEMMA FirstPlace ==
  ASSUME NEW S, S \subseteq Nat \X Nat, S # {}
  PROVE  \E c \in S : \A d \in S : ~Below(d, c)
<1>1. \A c \in S : c[1] \in Nat /\ c[2] \in Nat /\ DOMAIN c = 1 .. 2 OBVIOUS
<1>2. PICK T : T = {c[1] : c \in S} OBVIOUS
<1>3. T \subseteq Nat /\ T # {} BY <1>1, <1>2
<1>4. PICK a \in T : \A x \in T : a <= x BY <1>3, LeastNat
<1>5. PICK U : U = {c[2] : c \in {s \in S : s[1] = a}} OBVIOUS
<1>6. U \subseteq Nat /\ U # {} BY <1>1, <1>2, <1>4, <1>5
<1>7. PICK b \in U : \A x \in U : b <= x BY <1>6, LeastNat
<1>8. PICK c \in S : c[1] = a /\ c[2] = b BY <1>5, <1>7
<1>9. ASSUME NEW d \in S, Below(d, c) PROVE FALSE
  <2>1. PICK k \in 1 .. 2 : d[k] < c[k] /\ \A l \in 1 .. k - 1 : d[l] = c[l]
    BY <1>1, <1>9 DEF Below
  <2>2. d[1] \in T /\ a \in Nat /\ d[1] \in Nat /\ a <= d[1] BY <1>1, <1>2, <1>3, <1>4
  <2>3. k # 1 BY <1>8, <2>1, <2>2
  <2>4. k = 2 /\ d[1] = a /\ d[2] < b BY <1>8, <2>1, <2>3
  <2>5. d[2] \in U BY <1>5, <2>4
  <2>6. b <= d[2] /\ b \in Nat /\ d[2] \in Nat BY <1>1, <1>6, <1>7, <2>5
  <2> QED BY <2>4, <2>6
<1> QED BY <1>8, <1>9

\* What is read is read from one of the copies
LEMMA ReadFromCopy ==
  ASSUME NEW P, NEW C, C \subseteq Nat \X Nat, FirstReadable(P, C) # Bad
  PROVE  \E c \in C : c[1] \in IdsOf(P) /\ FirstReadable(P, C) = Disk(ById(P, c[1])).content[c[2]]
<1>1. PICK good : good = {c \in C : Fetch(P, c) # Bad} OBVIOUS
<1>2. FirstReadable(P, C) = IF good = {} THEN Bad
        ELSE Fetch(P, CHOOSE c \in good : \A d \in good : ~Below(d, c))
  BY <1>1 DEF FirstReadable
<1>3. good # {} /\ good \subseteq Nat \X Nat BY <1>1, <1>2
<1>4. \E c \in good : \A d \in good : ~Below(d, c) BY <1>3, FirstPlace
<1>5. PICK c : c = CHOOSE x \in good : \A d \in good : ~Below(d, x) OBVIOUS
<1>6. c \in good BY <1>4, <1>5
<1>7. FirstReadable(P, C) = Fetch(P, c) BY <1>2, <1>3, <1>5
<1>8. c \in C /\ Fetch(P, c) # Bad BY <1>1, <1>6
<1> QED BY <1>7, <1>8 DEF Fetch

LEMMA DiskOfId ==
  ASSUME NEW P, NEW id \in IdsOf(P)
  PROVE  ById(P, id) \in P /\ Disk(ById(P, id)).id = id
BY DEF IdsOf, ById
LEMMA IdOfDisk ==
  ASSUME NEW Q, NEW P, P \subseteq Q, Consistent(Q), NEW p \in P
  PROVE  Disk(p).id \in IdsOf(P) /\ ById(P, Disk(p).id) = p
<1>1. Disk(p).id \in IdsOf(P) BY DEF IdsOf
<1>2. ById(P, Disk(p).id) \in P /\ Disk(ById(P, Disk(p).id)).id = Disk(p).id BY <1>1, DiskOfId
<1> QED BY <1>1, <1>2 DEF Consistent

\* What a division leaves
LEMMA Quotient ==
  ASSUME NEW w \in Nat \ {0}, NEW k \in Nat
  PROVE  k \div w \in Nat /\ k % w \in 0 .. w - 1 /\ k = w * (k \div w) + (k % w)
OBVIOUS

LEMMA Rest ==
  ASSUME NEW w \in Nat \ {0}, NEW q \in Nat, NEW r \in 0 .. w - 1, NEW y \in Nat, y = w * q + r
  PROVE  y \div w = q /\ y % w = r
<1>1. w * q <= y /\ y < w * q + w /\ y - w * q = r OBVIOUS
<1> QED BY <1>1, Divided

\* A place within a stripe is one of an allocation unit
LEMMA LocationIn ==
  ASSUME NEW i, InodeTold("mirror", i), Striping("mirror", i), NEW k \in Nat
  PROVE  Location("mirror", i, k)[1] \in Nat /\ Location("mirror", i, k)[2] \in 0 .. AUUnits - 1
<1>1. AUUnits \in Nat \ {0} BY AsmAssumption DEF AsmAssumption
<1>2. CASE ~i.striped BY <1>1, <1>2, Quotient DEF Location
<1>3. CASE i.striped
  <2>1. PICK g : g = i.auGroup OBVIOUS
  <2>2. g \in Nat \ {0} BY <1>3, <2>1 DEF InodeTold, Striping
  <2>3. PICK w : w = AUUnits * g OBVIOUS
  <2>4. w \in Nat \ {0} /\ w = g * AUUnits BY <1>1, <2>2, <2>3
  <2>5. PICK q, m : q = k \div w /\ m = k % w OBVIOUS
  <2>6. q \in Nat /\ m \in 0 .. w - 1 BY <2>4, <2>5, Quotient
  <2>7. m \in Nat /\ m < g * AUUnits BY <2>4, <2>6
  <2>8. m \div g \in 0 .. AUUnits - 1 /\ m % g \in 0 .. g - 1 BY <1>1, <2>2, <2>7, Divided
  <2>9. q * g + (m % g) \in Nat BY <2>2, <2>6, <2>8
  <2>10. Location("mirror", i, k) = <<q * g + (m % g), m \div g>>
    BY <1>3, <2>1, <2>3, <2>5 DEF Location
  <2> QED BY <2>8, <2>9, <2>10
<1> QED BY <1>2, <1>3

\* Two positions of a file are at two places
LEMMA LocationsApart ==
  ASSUME NEW i, InodeTold("mirror", i), Striping("mirror", i), NEW k \in Nat, NEW l \in Nat,
         Location("mirror", i, k) = Location("mirror", i, l)
  PROVE  k = l
<1>1. AUUnits \in Nat \ {0} BY AsmAssumption DEF AsmAssumption
<1>2. CASE ~i.striped
  <2>1. k \div AUUnits = l \div AUUnits /\ k % AUUnits = l % AUUnits BY <1>2 DEF Location
  <2> QED BY <1>1, <2>1, Quotient
<1>3. CASE i.striped
  <2>1. PICK g : g = i.auGroup OBVIOUS
  <2>2. g \in Nat \ {0} BY <1>3, <2>1 DEF InodeTold, Striping
  <2>3. PICK w : w = AUUnits * g OBVIOUS
  <2>4. w \in Nat \ {0} BY <1>1, <2>2, <2>3
  <2>5. PICK a, m, b, n : a = k \div w /\ m = k % w /\ b = l \div w /\ n = l % w OBVIOUS
  <2>6. /\ a \in Nat /\ m \in 0 .. w - 1 /\ k = w * a + m
        /\ b \in Nat /\ n \in 0 .. w - 1 /\ l = w * b + n
    BY <2>4, <2>5, Quotient
  <2>7. /\ Location("mirror", i, k) = <<a * g + (m % g), m \div g>>
        /\ Location("mirror", i, l) = <<b * g + (n % g), n \div g>>
    BY <1>3, <2>1, <2>3, <2>5 DEF Location
  <2>8. a * g + (m % g) = b * g + (n % g) /\ m \div g = n \div g BY <2>7
  <2>9. m \in Nat /\ n \in Nat BY <2>4, <2>6
  <2>10. PICK r, s : r = m % g /\ s = n % g OBVIOUS
  <2>11. r \in 0 .. g - 1 /\ s \in 0 .. g - 1 /\ m = g * (m \div g) + r /\ n = g * (n \div g) + s
    BY <2>2, <2>9, <2>10, Quotient
  <2>12. PICK y : y = a * g + r OBVIOUS
  <2>13. y = g * a + r /\ y = g * b + s /\ y \in Nat /\ g * a \in Nat /\ g * b \in Nat
    <3>1. g * a \in Nat /\ g * b \in Nat /\ a * g = g * a /\ b * g = g * b BY <2>2, <2>6
    <3> QED BY <2>2, <2>8, <2>10, <2>11, <2>12, <3>1
  <2>14. y \div g = a /\ y % g = r
    <3>1. g \in Nat \ {0} /\ a \in Nat /\ r \in 0 .. g - 1 /\ y \in Nat /\ y = g * a + r
      BY <2>2, <2>6, <2>11, <2>13
    <3> QED BY ONLY <3>1, Rest
  <2>15. y \div g = b /\ y % g = s
    <3>1. g \in Nat \ {0} /\ b \in Nat /\ s \in 0 .. g - 1 /\ y \in Nat /\ y = g * b + s
      BY <2>2, <2>6, <2>11, <2>13
    <3> QED BY ONLY <3>1, Rest
  <2>16. a = b /\ m = n BY <2>8, <2>11, <2>14, <2>15
  <2> QED BY <2>6, <2>16
<1> QED BY <1>2, <1>3

\* What is read of a file of a mirror group
LEMMA MirrorUnit ==
  ASSUME media \in Media, NEW g, GroupTold(g), g.layout = "mirror", NEW i \in g.files,
         NEW x, x = Extents(g, i), x # Bad, NEW k \in Nat, NEW u, u = UnitFor(g, i, x, k), u # Bad
  PROVE  /\ Striping("mirror", i)
         /\ \E c : /\ u = <<c, Location("mirror", i, k)[2]>>
                   /\ c.file = i.id /\ c.seq = Location("mirror", i, k)[1]
                   /\ NewestAtHand(g.gid) => \A p \in Members(g.gid) : c.gen = Disk(p).now
<1>1. PICK place : place = Location("mirror", i, k) OBVIOUS
<1>2. Striping("mirror", i) /\ place[1] \in DOMAIN x /\ u = UnitAt(g, x[place[1]], place[2])
  BY <1>1 DEF UnitFor
<1>3. InodeTold("mirror", i) BY DEF GroupTold
<1>4. place[1] \in Nat /\ place[2] \in 0 .. AUUnits - 1 BY <1>1, <1>2, <1>3, LocationIn
<1>5. AUUnits \in Nat \ {0} BY AsmAssumption DEF AsmAssumption
<1>6. PICK w, s : w = place[2] /\ s = place[1] OBVIOUS
<1>7. w \div AUUnits = 0 /\ w % AUUnits = w BY <1>4, <1>5, <1>6
<1>8. PICK C : C = CopiesOf(g.maps, i.id, s) OBVIOUS
<1>9. x[s] = C
  <2>1. x = [t \in 0 .. i.extents - 1 |-> CopiesOf(g.maps, i.id, t)]
    BY DEF Extents, MirrorExtents
  <2> QED BY <1>2, <1>6, <1>8, <2>1
<1>10. C \subseteq Nat \X Nat BY <1>8 DEF CopiesOf, GroupTold, MapsTold
<1>11. {<<c[1], c[2] + w \div AUUnits>> : c \in C} = C
  <2>1. \A c \in C : <<c[1], c[2] + w \div AUUnits>> = c BY <1>7, <1>10
  <2> QED BY <2>1
<1>12. PICK content : content = FirstReadable(g.disks, C) OBVIOUS
<1>13. content # Bad /\ u = <<content, w>>
  <2>1. u = UnitAt(g, C, w) BY <1>2, <1>6, <1>9
  <2>2. UnitAt(g, C, w) = IF content = Bad THEN Bad ELSE <<content, w % AUUnits>>
    BY <1>11, <1>12 DEF UnitAt
  <2> QED BY <1>7, <2>1, <2>2
<1>14. PICK c \in C : c[1] \in IdsOf(g.disks) /\ content = Disk(ById(g.disks, c[1])).content[c[2]]
  BY <1>10, <1>12, <1>13, ReadFromCopy
<1>15. PICK p : p = ById(g.disks, c[1]) OBVIOUS
<1>16. p \in g.disks /\ p \in Members(g.gid) /\ p \in DOMAIN media
  BY <1>14, <1>15, DiskOfId DEF GroupTold, GroupSound, Members
<1>17. PICK e \in g.maps : e.copy = c /\ e.file = i.id /\ e.seq = s BY <1>8 DEF CopiesOf
<1>18. /\ c[2] \in DOMAIN Disk(p).table
       /\ Disk(p).table[c[2]].file = i.id /\ Disk(p).table[c[2]].seq = s
  BY <1>14, <1>15, <1>17 DEF GroupTold, MapsTold
<1>19. i.id # InodeFile BY <1>3 DEF InodeTold
<1>20. content.file = i.id /\ content.seq = s
  <2>1. TableWritten(Disk(p)) BY <1>16, MediaAssumption DEF MediaAssumption, IsMedia, Disk
  <2> QED BY <1>13, <1>14, <1>15, <1>18, <1>19, <2>1 DEF TableWritten
<1>21. ASSUME NewestAtHand(g.gid), NEW o \in Members(g.gid) PROVE content.gen = Disk(o).now
  <2>1. PICK q \in Members(g.gid) : TellsPresent(Disk(q)) BY <1>21 DEF NewestAtHand
  <2>2. Lists(Disk(p), Disk(q).catalog) BY <1>16, <2>1 DEF GroupTold, DisksCurrent
  <2>3. /\ q \in DOMAIN media /\ o \in DOMAIN media
        /\ Disk(q).group = Disk(p).group /\ Disk(o).group = Disk(p).group
    BY <1>16, <2>1 DEF Members
  <2>4. GroupWritten(Disk(q), Disk(p)) /\ GroupWritten(Disk(o), Disk(p))
    BY <1>16, <2>3, MediaAssumption DEF MediaAssumption, IsMedia, Disk
  <2>5. content.gen = Disk(p).now
    BY <1>13, <1>14, <1>15, <1>18, <1>19, <2>1, <2>2, <2>4 DEF GroupWritten
  <2> QED BY <2>4, <2>5 DEF GroupWritten
<1>22. place[2] = w /\ place[1] = s BY <1>6
<1> QED BY <1>1, <1>2, <1>13, <1>20, <1>21, <1>22

\* What is read of a file of the older layout, from the extent a descriptor
\* of the chain stands for
LEMMA LegacyUnit ==
  ASSUME media \in Media, NEW g, GroupTold(g), g.layout # "mirror", NEW i \in g.files,
         NEW x, x = Extents(g, i), x # Bad, NEW k \in Nat, NEW u, u = UnitFor(g, i, x, k), u # Bad,
         NEW s, NEW w, <<s, w>> = Location(g.layout, i, k), NEW z, z = Chain(g, i)[s + 1]
  PROVE  /\ s \in Nat /\ s + 1 \in 1 .. i.extents
         /\ w \in 0 .. ExtentAUs * AUUnits - 1 /\ k = ExtentAUs * AUUnits * s + w
         /\ ById(g.disks, z[1]) \in g.disks /\ Disk(ById(g.disks, z[1])).id = z[1]
         /\ <<z[2], z[3]>> \in Descriptors(Disk(ById(g.disks, z[1])))
         /\ \E c : /\ c = Disk(ById(g.disks, z[1])).content[FirstUnit(<<z[2], z[3]>>) + w \div AUUnits]
                   /\ c # Bad /\ u = <<c, w % AUUnits>>
<1>1. AUUnits \in Nat \ {0} /\ ExtentAUs \in Nat \ {0} BY AsmAssumption DEF AsmAssumption
<1>2. PICK v : v = ExtentAUs * AUUnits OBVIOUS
<1>3. v \in Nat \ {0} BY <1>1, <1>2
<1>4. s = k \div v /\ w = k % v BY <1>2 DEF Location
<1>5. s \in Nat /\ w \in 0 .. v - 1 /\ k = v * s + w BY <1>3, <1>4, Quotient
<1>6. s \in DOMAIN x /\ u = UnitAt(g, x[s], w) BY DEF UnitFor
<1>7. i.extents \in Nat BY DEF GroupTold, InodeTold
<1>8. PICK chain : chain = Chain(g, i) OBVIOUS
<1>9. /\ \A n \in 1 .. i.extents : ValidXDesc(g, chain[n])
      /\ x = [t \in 0 .. i.extents - 1 |->
                {<<chain[t + 1][1], chain[t + 1][2] + chain[t + 1][3] * ExtentAUs>>}]
  BY <1>8 DEF Extents, LegacyExtents
<1>10. s + 1 \in 1 .. i.extents BY <1>5, <1>6, <1>7, <1>9
<1>11. ValidXDesc(g, z) BY <1>8, <1>9, <1>10
<1>12. x[s] = {<<z[1], z[2] + z[3] * ExtentAUs>>} BY <1>6, <1>8, <1>9
<1>13. PICK p : p = ById(g.disks, z[1]) OBVIOUS
<1>14. p \in g.disks /\ Disk(p).id = z[1] BY <1>11, <1>13, DiskOfId DEF ValidXDesc
<1>15. p \in DOMAIN media BY <1>14 DEF GroupTold, GroupSound, Members
<1>16. /\ Disk(p).id \in Nat /\ Disk(p).units \in Nat /\ DescriptorsWritten(Disk(p))
  BY <1>15, MediaAssumption DEF MediaAssumption, IsMedia, Disk
<1>17. /\ z[2] \in DOMAIN Disk(p).kind
       /\ Disk(p).kind[z[2]] = "xdesc" /\ Disk(p).content[z[2]] # Bad
       /\ z[3] \in DOMAIN Disk(p).content[z[2]]
       /\ z[2] + (z[3] + 1) * ExtentAUs <= Disk(p).units
  BY <1>11, <1>13 DEF ValidXDesc
<1>18. z[1] \in Nat /\ z[2] \in Nat /\ z[3] \in Nat \ {0}
  BY <1>14, <1>16, <1>17 DEF DescriptorsWritten
<1>19. z[3] \in 1 .. Disk(p).units
  <2>1. PICK a, b, e, y : a = z[2] /\ b = z[3] /\ e = ExtentAUs /\ y = Disk(p).units OBVIOUS
  <2>2. a \in Nat /\ b \in Nat \ {0} /\ e \in Nat \ {0} /\ y \in Nat /\ a + (b + 1) * e <= y
    BY <1>1, <1>16, <1>17, <1>18, <2>1
  <2>3. (b + 1) * e >= b + 1 BY <2>2
  <2>4. b \in 1 .. y BY <2>2, <2>3
  <2> QED BY <2>1, <2>4
<1>20. <<z[2], z[3]>> \in Descriptors(Disk(p)) BY <1>17, <1>19 DEF Descriptors
<1>21. PICK f : f = FirstUnit(<<z[2], z[3]>>) OBVIOUS
<1>22. f \in Nat /\ f = z[2] + z[3] * ExtentAUs BY <1>1, <1>18, <1>21 DEF FirstUnit
<1>23. w \in Nat /\ w \div AUUnits \in Nat
  <2>1. w \in Nat BY <1>3, <1>5
  <2> QED BY ONLY <1>1, <2>1, Quotient
<1>24. PICK C : C = {<<z[1], f + w \div AUUnits>>} OBVIOUS
<1>25. C \subseteq Nat \X Nat BY <1>18, <1>22, <1>23, <1>24
<1>26. {<<c[1], c[2] + w \div AUUnits>> : c \in x[s]} = C BY <1>12, <1>22, <1>24
<1>27. PICK content : content = FirstReadable(g.disks, C) OBVIOUS
<1>28. UnitAt(g, x[s], w) = IF content = Bad THEN Bad ELSE <<content, w % AUUnits>>
  BY <1>26, <1>27 DEF UnitAt
<1>29. content # Bad /\ u = <<content, w % AUUnits>> BY <1>6, <1>28
<1>30. PICK c \in C : content = Disk(ById(g.disks, c[1])).content[c[2]]
  BY <1>25, <1>27, <1>29, ReadFromCopy
<1>31. content = Disk(p).content[f + w \div AUUnits] BY <1>13, <1>24, <1>30
<1> QED BY <1>2, <1>5, <1>10, <1>13, <1>14, <1>20, <1>21, <1>29, <1>31

\* Two units of the older layout that are equal are the same one.
LEMMA LegacyApart ==
  ASSUME media \in Media, NEW g, GroupTold(g), g.layout # "mirror", NEW i \in g.files,
         NEW x, x = Extents(g, i), x # Bad, NEW k \in Nat, NEW l \in Nat,
         UnitFor(g, i, x, k) # Bad, UnitFor(g, i, x, k) = UnitFor(g, i, x, l)
  PROVE  k = l
<1>1. AUUnits \in Nat \ {0} /\ ExtentAUs \in Nat \ {0} BY AsmAssumption DEF AsmAssumption
<1>2. PICK s, w : <<s, w>> = Location(g.layout, i, k) BY DEF Location
<1>3. PICK t, v : <<t, v>> = Location(g.layout, i, l) BY DEF Location
<1>4. PICK y, z : y = Chain(g, i)[s + 1] /\ z = Chain(g, i)[t + 1] OBVIOUS
<1>5. PICK p, q : p = ById(g.disks, y[1]) /\ q = ById(g.disks, z[1]) OBVIOUS
<1>6. PICK f, h : f = FirstUnit(<<y[2], y[3]>>) /\ h = FirstUnit(<<z[2], z[3]>>) OBVIOUS
<1>7. PICK u : u = UnitFor(g, i, x, k) OBVIOUS
<1>8. /\ s \in Nat /\ s + 1 \in 1 .. i.extents
      /\ w \in 0 .. ExtentAUs * AUUnits - 1 /\ k = ExtentAUs * AUUnits * s + w
      /\ p \in g.disks /\ Disk(p).id = y[1] /\ <<y[2], y[3]>> \in Descriptors(Disk(p))
      /\ Disk(p).content[f + w \div AUUnits] # Bad
      /\ u = <<Disk(p).content[f + w \div AUUnits], w % AUUnits>>
  BY <1>2, <1>4, <1>5, <1>6, <1>7, LegacyUnit
<1>9. /\ t \in Nat /\ t + 1 \in 1 .. i.extents
      /\ v \in 0 .. ExtentAUs * AUUnits - 1 /\ l = ExtentAUs * AUUnits * t + v
      /\ q \in g.disks /\ Disk(q).id = z[1] /\ <<z[2], z[3]>> \in Descriptors(Disk(q))
      /\ Disk(q).content[h + v \div AUUnits] # Bad
      /\ u = <<Disk(q).content[h + v \div AUUnits], v % AUUnits>>
  BY <1>3, <1>4, <1>5, <1>6, <1>7, LegacyUnit
<1>10. PICK a, b : a = w \div AUUnits /\ b = v \div AUUnits OBVIOUS
<1>11. a \in 0 .. ExtentAUs - 1 /\ b \in 0 .. ExtentAUs - 1
  <2>1. PICK e : e = ExtentAUs * AUUnits OBVIOUS
  <2>2. e \in Nat /\ w \in 0 .. e - 1 /\ v \in 0 .. e - 1 BY <1>1, <1>8, <1>9, <2>1
  <2>3. w \in Nat /\ v \in Nat /\ w < ExtentAUs * AUUnits /\ v < ExtentAUs * AUUnits
    BY <2>1, <2>2
  <2>4. w < AUUnits * ExtentAUs /\ v < AUUnits * ExtentAUs BY <1>1, <2>3
  <2> QED BY ONLY <1>1, <1>10, <2>3, <2>4, Divided
<1>12. p \in DOMAIN media /\ q \in DOMAIN media /\ Disk(p).group = Disk(q).group
  BY <1>8, <1>9 DEF GroupTold, GroupSound, Members
<1>13. /\ DescriptorsWritten(Disk(p)) /\ DescriptorsWritten(Disk(q)) /\ UnitsDiffer(Disk(p), Disk(q))
  BY <1>12, MediaAssumption DEF MediaAssumption, IsMedia, Disk
<1>14. /\ f + a \in DOMAIN Disk(p).kind /\ Disk(p).kind[f + a] = "data"
       /\ h + b \in DOMAIN Disk(q).kind /\ Disk(q).kind[h + b] = "data"
  BY <1>6, <1>8, <1>9, <1>11, <1>13 DEF DescriptorsWritten
<1>15. Disk(p).content[f + a] = Disk(q).content[h + b] /\ w % AUUnits = v % AUUnits
  BY <1>8, <1>9, <1>10
<1>16. Disk(p) = Disk(q) /\ f + a = h + b
  BY <1>8, <1>10, <1>13, <1>14, <1>15 DEF UnitsDiffer
<1>17. y[1] = z[1] BY <1>8, <1>9, <1>16
<1>18. /\ y[2] \in Nat /\ y[3] \in Nat /\ z[2] \in Nat /\ z[3] \in Nat
  BY <1>8, <1>9, <1>13 DEF Descriptors, DescriptorsWritten
<1>19. f \in Nat /\ h \in Nat BY <1>1, <1>6, <1>18 DEF FirstUnit
<1>20. <<y[2], y[3]>> = <<z[2], z[3]>>
  <2>1. \/ <<y[2], y[3]>> = <<z[2], z[3]>> \/ f + ExtentAUs <= h \/ h + ExtentAUs <= f
    BY <1>6, <1>8, <1>9, <1>13, <1>16 DEF DescriptorsWritten
  <2> QED BY <1>1, <1>11, <1>16, <1>19, <2>1
<1>21. s = t
  <2>1. \A n \in 1 .. 3 : y[n] = z[n] BY <1>17, <1>20
  <2>2. \A m, n \in 1 .. i.extents : m # n => \E e \in 1 .. 3 : Chain(g, i)[m][e] # Chain(g, i)[n][e]
    BY DEF Extents, LegacyExtents
  <2>3. s + 1 = t + 1 BY <1>4, <1>8, <1>9, <2>1, <2>2
  <2> QED BY <1>8, <1>9, <2>3
<1>22. w = v
  <2>1. a = b BY <1>6, <1>11, <1>16, <1>19, <1>20
  <2>2. w \in Nat /\ v \in Nat BY <1>1, <1>8, <1>9
  <2> QED BY <1>1, <1>10, <1>15, <2>1, <2>2, Quotient
<1> QED BY <1>8, <1>9, <1>21, <1>22

\* A file is tiled by its units, in either layout.
LEMMA UnitsApart ==
  ASSUME media \in Media, NEW g, GroupTold(g), NEW i \in g.files,
         NEW x, x = Extents(g, i), x # Bad, NEW k \in Nat, NEW l \in Nat,
         UnitFor(g, i, x, k) # Bad, UnitFor(g, i, x, k) = UnitFor(g, i, x, l)
  PROVE  k = l
<1>1. CASE g.layout # "mirror" BY <1>1, LegacyApart
<1>2. CASE g.layout = "mirror"
  <2>1. PICK u : u = UnitFor(g, i, x, k) OBVIOUS
  <2>2. PICK c : /\ u = <<c, Location("mirror", i, k)[2]>> /\ c.seq = Location("mirror", i, k)[1]
                 /\ Striping("mirror", i)
    BY <1>2, <2>1, MirrorUnit
  <2>3. PICK d : u = <<d, Location("mirror", i, l)[2]>> /\ d.seq = Location("mirror", i, l)[1]
    BY <1>2, <2>1, MirrorUnit
  <2>4. /\ Location("mirror", i, k)[1] = Location("mirror", i, l)[1]
        /\ Location("mirror", i, k)[2] = Location("mirror", i, l)[2]
    BY <2>2, <2>3
  <2>5. \A n : \E a, b : Location("mirror", i, n) = <<a, b>> BY DEF Location
  <2>6. Location("mirror", i, k) = Location("mirror", i, l) BY <2>4, <2>5
  <2>7. InodeTold("mirror", i) BY <1>2 DEF GroupTold
  <2> QED BY <2>2, <2>6, <2>7, LocationsApart
<1> QED BY <1>1, <1>2

\* A unit read is one the group holds now.
LEMMA UnitCurrent ==
  ASSUME media \in Media, NEW g, GroupTold(g), NEW i \in g.files,
         NEW x, x = Extents(g, i), x # Bad, NEW k \in Nat, NEW u, u = UnitFor(g, i, x, k), u # Bad,
         NewestAtHand(g.gid)
  PROVE  u[1].file = i.id /\ u[1].gen = Disk(CHOOSE p \in Members(g.gid) : TRUE).now
<1>1. PICK q \in Members(g.gid) : TellsPresent(Disk(q)) BY DEF NewestAtHand
<1>2. (CHOOSE p \in Members(g.gid) : TRUE) \in Members(g.gid) BY <1>1
<1>3. g.layout = "mirror"
  <2>1. q \in DOMAIN media BY <1>1 DEF Members
  <2>2. Disk(q).layout = "mirror" BY <1>1, <2>1, MediaAssumption DEF MediaAssumption, IsMedia, Disk
  <2> QED BY <1>1, <2>2 DEF GroupTold, GroupSound
<1>4. PICK c : /\ u = <<c, Location("mirror", i, k)[2]>> /\ c.file = i.id
               /\ \A p \in Members(g.gid) : c.gen = Disk(p).now
  BY <1>3, MirrorUnit
<1> QED BY <1>2, <1>4

\* A file is open, or its extents were refused.
InUse == asmPhase \in {"refused", "reading", "read_error", "read"}
ReadingSound(x) ==
  /\ x = [path |-> x.path, gid |-> x.gid, inode |-> x.inode, extents |-> x.extents,
          off |-> x.off, end |-> x.end, got |-> x.got]
  /\ x.gid \in DOMAIN groups /\ x.inode \in groups[x.gid].files /\ x.off \in Nat
  /\ x.extents = Extents(groups[x.gid], x.inode)
  /\ x.got \in Seq({UnitFor(groups[x.gid], x.inode, x.extents, k) : k \in Nat})
  /\ \A n \in DOMAIN x.got :
       /\ x.got[n] # Bad
       /\ x.got[n] = UnitFor(groups[x.gid], x.inode, x.extents, x.off + n - 1)
  /\ x.extents = Bad => x.got = <<>>
GroupsTold == \A g \in DOMAIN groups : groups[g].gid = g /\ GroupTold(groups[g])

\* What was found of the group being opened, as far as it was looked at; of
\* the groups opened; and of the file in use
PlacesInv ==
  /\ media \in Media
  /\ Opening => GroupSound(opening)
  /\ asmPhase = "header" => opening.disks = Members(opening.gid)
  /\ asmPhase \in {"maps", "inodes"} => DisksCurrent(opening)
  /\ asmPhase = "inodes" => MapsTold(opening)
  /\ GroupsTold
  /\ IF InUse THEN ReadingSound(reading) /\ (asmPhase # "refused" => reading.extents # Bad)
     ELSE reading = NotReading

LEMMA ReadsFollow ==
  ASSUME PlacesInv
  PROVE  ReadsCurrent
<1>1. CASE ~InUse
  BY <1>1 DEF PlacesInv, ReadsCurrent, InUse
<1>2. CASE InUse
  <2>1. PICK g, i, x, off, got :
          /\ g = groups[reading.gid] /\ i = reading.inode /\ x = reading.extents
          /\ off = reading.off /\ got = reading.got
    OBVIOUS
  <2>2. /\ media \in Media /\ GroupTold(g) /\ g.gid = reading.gid /\ i \in g.files /\ off \in Nat
        /\ x = Extents(g, i) /\ (x = Bad => got = <<>>)
        /\ got \in Seq({UnitFor(g, i, x, k) : k \in Nat})
        /\ \A n \in DOMAIN got : got[n] # Bad /\ got[n] = UnitFor(g, i, x, off + n - 1)
    BY <1>2, <2>1 DEF PlacesInv, GroupsTold, ReadingSound
  <2>3. DOMAIN got \subseteq Nat \ {0} /\ (got = <<>> => DOMAIN got = {}) BY <2>2
  <2>4. \A n \in DOMAIN got : off + n - 1 \in Nat /\ x # Bad BY <2>2, <2>3
  <2>5. ASSUME NEW m \in DOMAIN got, NEW n \in DOMAIN got, got[m] = got[n] PROVE m = n
    <3>1. off + m - 1 = off + n - 1 BY <2>2, <2>4, <2>5, UnitsApart
    <3> QED BY <2>2, <2>3, <3>1
  <2>6. ASSUME NewestAtHand(reading.gid), NEW n \in DOMAIN got
        PROVE  /\ got[n][1].file = i.id
               /\ got[n][1].gen = Disk(CHOOSE p \in Members(reading.gid) : TRUE).now
    <3>1. NewestAtHand(g.gid) BY <2>2, <2>6
    <3>2. PICK k \in Nat : k = off + n - 1 BY <2>4
    <3>3. PICK u : u = UnitFor(g, i, x, k) /\ u = got[n] /\ u # Bad BY <2>2, <3>2
    <3>4. u[1].file = i.id /\ u[1].gen = Disk(CHOOSE p \in Members(g.gid) : TRUE).now
      <4>1. /\ media \in Media /\ GroupTold(g) /\ i \in g.files /\ x = Extents(g, i) /\ x # Bad
            /\ u = UnitFor(g, i, x, k) /\ u # Bad
        BY <2>2, <2>4, <3>3
      <4> QED BY ONLY <3>1, <4>1, k \in Nat, UnitCurrent, Zenon
    <3> QED BY <2>2, <3>3, <3>4
  <2>7. IsInjective(got) BY <2>5 DEF IsInjective
  <2> QED BY <2>1, <2>6, <2>7 DEF ReadsCurrent
<1> QED BY <1>1, <1>2

\* Nothing is written to a disk, so that what was found of it stays true.
LEMMA UnitsStay ==
  ASSUME UNCHANGED media
  PROVE  /\ \A p : Disk(p)' = Disk(p)
         /\ \A g : Members(g)' = Members(g)
         /\ \A P, id : ById(P, id)' = ById(P, id)
         /\ \A g, i : Extents(g, i)' = Extents(g, i)
         /\ \A g, i, x, k : UnitFor(g, i, x, k)' = UnitFor(g, i, x, k)
<1>1. \A p : Disk(p)' = Disk(p) BY DEF Disk
<1>2. \A g : Members(g)' = Members(g) BY DEF Members, Disk
<1>3. \A P, id : ById(P, id)' = ById(P, id) BY DEF ById, Disk
<1>4. \A P : IdsOf(P)' = IdsOf(P) BY DEF IdsOf, Disk
<1>5. ASSUME NEW g, NEW i PROVE Extents(g, i)' = Extents(g, i)
  <2>1. \A x : ValidXDesc(g, x)' = ValidXDesc(g, x) BY DEF ValidXDesc, ById, IdsOf, Disk
  <2>2. Chain(g, i)' = Chain(g, i) BY DEF Chain, NextXDesc, ValidXDesc, ById, Disk, IdsOf
  <2>3. LegacyExtents(g, i)' = LegacyExtents(g, i) BY <2>1, <2>2 DEF LegacyExtents
  <2>4. MirrorExtents(g, i)' = MirrorExtents(g, i) BY DEF MirrorExtents
  <2> QED BY <2>3, <2>4 DEF Extents
<1>6. ASSUME NEW g, NEW i, NEW x, NEW k PROVE UnitFor(g, i, x, k)' = UnitFor(g, i, x, k)
  <2>1. ASSUME NEW P, NEW C PROVE FirstReadable(P, C)' = FirstReadable(P, C)
    BY DEF FirstReadable, Fetch, ById, IdsOf, Disk
  <2>2. \A C, w : UnitAt(g, C, w)' = UnitAt(g, C, w) BY <2>1 DEF UnitAt
  <2> QED BY <2>2 DEF UnitFor
<1> QED BY <1>1, <1>2, <1>3, <1>5, <1>6

LEMMA SoundStays ==
  ASSUME UNCHANGED media, NEW x
  PROVE  /\ opening' = x =>
              /\ GroupSound(opening)' = GroupSound(x)
              /\ DisksCurrent(opening)' = DisksCurrent(x)
              /\ MapsTold(opening)' = MapsTold(x)
         /\ \A g : groups'[g] = x => GroupTold(groups[g])' = GroupTold(x)
<1>1. opening' = x => GroupSound(opening)' = GroupSound(x)
  BY DEF GroupSound, Members, Consistent, Disk
<1>2. opening' = x => DisksCurrent(opening)' = DisksCurrent(x)
  BY DEF DisksCurrent, Members, Disk
<1>3. opening' = x => MapsTold(opening)' = MapsTold(x)
  BY DEF MapsTold, ById, IdsOf, Disk
<1>4. ASSUME NEW g, groups'[g] = x PROVE GroupTold(groups[g])' = GroupTold(x)
  <2>1. GroupSound(groups[g])' = GroupSound(x)
    BY <1>4 DEF GroupSound, Members, Consistent, Disk
  <2>2. DisksCurrent(groups[g])' = DisksCurrent(x) BY <1>4 DEF DisksCurrent, Members, Disk
  <2>3. MapsTold(groups[g])' = MapsTold(x) BY <1>4 DEF MapsTold, ById, IdsOf, Disk
  <2> QED BY <1>4, <2>1, <2>2, <2>3 DEF GroupTold
<1> QED BY <1>1, <1>2, <1>3, <1>4

LEMMA ReadingStays ==
  ASSUME UNCHANGED <<media, groups>>, NEW x, reading' = x, ReadingSound(x)
  PROVE  ReadingSound(reading)'
<1>1. \A g, i : Extents(g, i)' = Extents(g, i) BY UnitsStay
<1>2. \A g, i, y, k : UnitFor(g, i, y, k)' = UnitFor(g, i, y, k) BY UnitsStay
<1>3. {UnitFor(groups[x.gid], x.inode, x.extents, k) : k \in Nat}'
        = {UnitFor(groups[x.gid], x.inode, x.extents, k) : k \in Nat}
  BY <1>2
<1> QED BY <1>1, <1>2, <1>3 DEF ReadingSound

\* What the disks kept tell of their members, whoever else was given
LEMMA HeaderTells ==
  ASSUME media \in Media, NEW kept,
         GroupSound(opening), opening.disks = Members(opening.gid),
         kept = {p \in opening.disks : \A c \in Catalogs : Normal(p, c)}
  PROVE  \A q \in Members(opening.gid) : TellsPresent(Disk(q)) =>
           \A p \in kept : Lists(Disk(p), Disk(q).catalog)
<1> SUFFICES ASSUME NEW q \in Members(opening.gid), TellsPresent(Disk(q)), NEW p \in kept
             PROVE  Lists(Disk(p), Disk(q).catalog)
  OBVIOUS
<1>1. q \in DOMAIN media /\ q \in opening.disks BY DEF Members
<1>2. Disk(q).gen # 0 /\ Disk(q).gen = Disk(q).now
  BY <1>1, MediaAssumption DEF MediaAssumption, IsMedia, Disk, TellsPresent
<1>3. q \in WithHeader BY <1>1, <1>2 DEF WithHeader
<1>4. ASSUME NEW r \in WithHeader PROVE Disk(r).gen <= Disk(q).gen
  <2>1. r \in DOMAIN media /\ Disk(r).group = Disk(q).group BY DEF WithHeader, Members
  <2>2. Disk(r).now \in Nat /\ Disk(r).gen \in 0 .. Disk(r).now /\ GroupWritten(Disk(r), Disk(q))
    BY <1>1, <2>1, MediaAssumption DEF MediaAssumption, IsMedia, Disk
  <2> QED BY <1>2, <2>2 DEF GroupWritten
<1>5. q \in Candidates BY <1>3, <1>4 DEF Candidates
<1>6. Disk(q).catalog \in Catalogs BY <1>5 DEF Catalogs, TellsPresent
<1> QED BY <1>6 DEF Normal

\* Every copy the maps give is described where it is.
LEMMA MapsTell ==
  ASSUME media \in Media, NEW P, NEW gid, P \subseteq Members(gid), Consistent(Members(gid)),
         DescriptorsValid(P), NEW x \in Placed(P), NEW c \in {x.at} \cup x.d.mirrors
  PROVE  /\ c \in Nat \X Nat
         /\ c[1] \in IdsOf(P) =>
              /\ c[2] \in DOMAIN Disk(ById(P, c[1])).table
              /\ Disk(ById(P, c[1])).table[c[2]].file = x.d.file
              /\ Disk(ById(P, c[1])).table[c[2]].seq = x.d.seq
<1>1. ASSUME NEW y \in Placed(P)
      PROVE  \E p \in P : \E a \in DOMAIN Disk(p).table :
               y.at = <<Disk(p).id, a>> /\ y.d = Disk(p).table[a]
  BY DEF Placed
<1>2. ASSUME NEW y \in Placed(P)
      PROVE  /\ y.at \in Nat \X Nat /\ y.d.mirrors \subseteq Nat \X Nat
             /\ y.at[2] \in DOMAIN Disk(ById(P, y.at[1])).table
             /\ Disk(ById(P, y.at[1])).table[y.at[2]] = y.d
  <2>1. PICK p \in P : \E a \in DOMAIN Disk(p).table :
          y.at = <<Disk(p).id, a>> /\ y.d = Disk(p).table[a]
    BY <1>1
  <2>2. PICK a \in DOMAIN Disk(p).table : y.at = <<Disk(p).id, a>> /\ y.d = Disk(p).table[a]
    BY <2>1
  <2>3. p \in DOMAIN media BY DEF Members
  <2>4. Disk(p).id \in Nat /\ TableWritten(Disk(p))
    BY <2>3, MediaAssumption DEF MediaAssumption, IsMedia, Disk
  <2>5. a \in Nat /\ y.d.mirrors \subseteq Nat \X Nat BY <2>2, <2>4 DEF TableWritten
  <2>6. ById(P, Disk(p).id) = p BY IdOfDisk
  <2> QED BY <2>2, <2>4, <2>5, <2>6
<1>3. CASE c = x.at BY <1>2, <1>3
<1>4. CASE c \in x.d.mirrors
  <2>1. c \in Nat \X Nat /\ c # NoCopy BY <1>2, <1>4, AsmAssumption DEF AsmAssumption
  <2>2. ASSUME c[1] \in IdsOf(P)
        PROVE  \E y \in Placed(P) : y.at = c /\ y.d.file = x.d.file /\ y.d.seq = x.d.seq
    BY <1>4, <2>1, <2>2 DEF DescriptorsValid, Agrees
  <2> QED BY <1>2, <2>1, <2>2
<1> QED BY <1>3, <1>4

LEMMA MirrorInodesTold ==
  ASSUME media \in Media, GroupSound(opening), MapsTold(opening),
         MirrorInodes # Bad, NEW i \in MirrorInodes
  PROVE  InodeTold("mirror", i)
<1>1. PICK seqs, entries :
        /\ seqs = SeqNumbers(opening.maps, InodeFile)
        /\ entries = [s \in seqs |->
             FirstReadable(opening.disks, CopiesOf(opening.maps, InodeFile, s))]
  OBVIOUS
<1>2. /\ \A s \in seqs : entries[s] # Bad
      /\ \E s \in seqs : i \in entries[s]
  BY <1>1 DEF MirrorInodes
<1>3. PICK s \in seqs : i \in entries[s] BY <1>2
<1>4. PICK C : C = CopiesOf(opening.maps, InodeFile, s) OBVIOUS
<1>5. C \subseteq Nat \X Nat BY <1>4 DEF CopiesOf, MapsTold
<1>6. entries[s] = FirstReadable(opening.disks, C) /\ entries[s] # Bad BY <1>1, <1>2, <1>4
<1>7. PICK c \in C : /\ c[1] \in IdsOf(opening.disks)
                     /\ entries[s] = Disk(ById(opening.disks, c[1])).content[c[2]]
  BY <1>5, <1>6, ReadFromCopy
<1>8. PICK p : p = ById(opening.disks, c[1]) OBVIOUS
<1>9. p \in DOMAIN media BY <1>7, <1>8, DiskOfId DEF GroupSound, Members
<1>10. PICK e \in opening.maps : e.copy = c /\ e.file = InodeFile BY <1>4 DEF CopiesOf
<1>11. c[2] \in DOMAIN Disk(p).table /\ Disk(p).table[c[2]].file = InodeFile
  BY <1>7, <1>8, <1>10 DEF MapsTold
<1>12. TableWritten(Disk(p)) BY <1>9, MediaAssumption DEF MediaAssumption, IsMedia, Disk
<1>13. InodesWritten(entries[s]) /\ \A j \in entries[s] : j.id # InodeFile
  BY <1>6, <1>7, <1>8, <1>11, <1>12 DEF TableWritten
<1> QED BY <1>3, <1>13 DEF InodesWritten, InodeTold

LEMMA LegacyInodesTold ==
  ASSUME media \in Media, GroupSound(opening), LegacyInodes # Bad, NEW i \in LegacyInodes,
         NEW layout, layout # "mirror"
  PROVE  InodeTold(layout, i)
<1>1. /\ \A p \in opening.disks : \A a \in DOMAIN Disk(p).kind : Disk(p).content[a] # Bad
      /\ i \in LegacyEntries
  BY DEF LegacyInodes
<1>2. PICK p \in opening.disks : \E a \in InodeUnits(p) : \E j \in Disk(p).content[a] :
        i = [j EXCEPT !.at = <<Disk(p).id, a, j.at[3]>>]
  BY <1>1 DEF LegacyEntries
<1>3. PICK a \in InodeUnits(p) : \E j \in Disk(p).content[a] :
        i = [j EXCEPT !.at = <<Disk(p).id, a, j.at[3]>>]
  BY <1>2
<1>4. PICK j \in Disk(p).content[a] : i = [j EXCEPT !.at = <<Disk(p).id, a, j.at[3]>>]
  BY <1>3
<1>5. p \in DOMAIN media BY DEF GroupSound, Members
<1>6. DescriptorsWritten(Disk(p)) BY <1>5, MediaAssumption DEF MediaAssumption, IsMedia, Disk
<1>7. a \in DOMAIN Disk(p).kind /\ Disk(p).kind[a] = "inode" BY DEF InodeUnits
<1>8. j.extents \in Nat /\ j.auGroup \in Nat
  BY <1>1, <1>6, <1>7 DEF DescriptorsWritten, InodesWritten
<1>9. i.extents = j.extents /\ i.auGroup = j.auGroup BY <1>4
<1> QED BY <1>8, <1>9 DEF InodeTold

LEMMA GroupsStay ==
  ASSUME UNCHANGED <<media, groups>>, GroupsTold
  PROVE  GroupsTold'
<1>1. ASSUME NEW g \in DOMAIN groups PROVE groups[g].gid = g /\ GroupTold(groups[g])'
  <2>1. groups[g].gid = g /\ GroupTold(groups[g]) BY DEF GroupsTold
  <2>2. PICK x : x = groups[g] /\ groups'[g] = x OBVIOUS
  <2>3. GroupTold(groups[g])' = GroupTold(x) BY <2>2, SoundStays
  <2> QED BY <2>1, <2>2, <2>3
<1> QED BY <1>1 DEF GroupsTold

LEMMA FailedStateIsTold ==
  ASSUME PlacesInv, ~InUse, AsmFails
  PROVE  PlacesInv'
<1>1. /\ asmPhase' = "failed" /\ opening' = NoGroup /\ groups' = <<>>
      /\ UNCHANGED <<media, reading>>
  BY DEF AsmFails
<1>2. DOMAIN groups' = {} BY <1>1
<1> QED BY <1>1, <1>2 DEF PlacesInv, GroupsTold, InUse, Opening

LEMMA PlacesInvHoldsAtFirst ==
  ASSUME AsmInit
  PROVE  PlacesInv
<1>1. /\ media \in Media /\ asmPhase = "start" /\ groups = <<>> /\ reading = NotReading
  BY DEF AsmInit, Init0
<1>2. DOMAIN groups = {} BY <1>1
<1> QED BY <1>1, <1>2 DEF PlacesInv, GroupsTold, InUse, Opening

LEMMA PlacesInvIsKept ==
  ASSUME AsmInv, PlacesInv, [AsmNext]_asmVars
  PROVE  PlacesInv'
<1>a. media \in Media /\ GroupsTold BY DEF PlacesInv, GroupsTold
<1>b. ~InUse => reading = NotReading BY DEF PlacesInv
<1>1. CASE SortMembers
  <2>0. ~InUse BY <1>1 DEF SortMembers, InUse
  <2>1. CASE AsmFails BY <2>0, <2>1, FailedStateIsTold
  <2>2. CASE ~AsmFails
    <3>1. asmPhase' = "next" /\ UNCHANGED <<media, groups, reading>>
      BY <1>1, <2>2 DEF SortMembers
    <3>2. GroupsTold' BY <1>a, <3>1, GroupsStay
    <3> QED BY <1>a, <1>b, <2>0, <3>1, <3>2 DEF PlacesInv, GroupsTold, InUse, Opening
  <2> QED BY <2>1, <2>2
<1>2. CASE OpenMembers
  <2>0. ~InUse BY <1>2 DEF OpenMembers, InUse
  <2>1. CASE AsmFails BY <2>0, <2>1, FailedStateIsTold
  <2>2. CASE ~AsmFails
    <3>1. PICK g, layout :
            /\ layout = Disk(CHOOSE p \in Members(g) : TRUE).layout
            /\ Consistent(Members(g))
            /\ opening' = [gid |-> g, layout |-> layout, disks |-> Members(g), name |-> "",
                           files |-> {}, maps |-> {}]
            /\ asmPhase' = IF layout = "mirror" THEN "header" ELSE "inodes"
            /\ UNCHANGED <<media, groups, reading>>
      BY <1>2, <2>2 DEF OpenMembers
    <3>2. PICK x : x = opening' OBVIOUS
    <3>3. x.gid = g /\ x.layout = layout /\ x.disks = Members(g) /\ x.maps = {}
      BY <3>1, <3>2
    <3>4. \A p \in Members(g) : Disk(p).layout = layout
      <4>1. ASSUME NEW p \in Members(g) PROVE Disk(p).layout = layout
        <5>1. (CHOOSE q \in Members(g) : TRUE) \in Members(g) OBVIOUS
        <5> QED BY <3>1, <5>1 DEF Consistent
      <4> QED BY <4>1
    <3>5. GroupSound(x) BY <3>1, <3>3, <3>4 DEF GroupSound
    <3>6. layout # "mirror" => DisksCurrent(x)
      <4>1. \A q \in Members(g) : TellsPresent(Disk(q)) => Disk(q).layout = "mirror"
        BY <1>a, MediaAssumption DEF MediaAssumption, IsMedia, Members, Disk
      <4> QED BY <3>3, <3>4, <4>1 DEF DisksCurrent
    <3>7. MapsTold(x) BY <3>3 DEF MapsTold
    <3>8. /\ GroupSound(opening)' /\ MapsTold(opening)'
          /\ asmPhase' = "inodes" => DisksCurrent(opening)'
      BY <3>1, <3>2, <3>5, <3>6, <3>7, SoundStays
    <3>9. opening'.disks = Members(opening.gid)'
      <4>1. Members(g)' = Members(g) BY <3>1, UnitsStay
      <4> QED BY <3>2, <3>3, <4>1
    <3>10. GroupsTold' BY <1>a, <3>1, GroupsStay
    <3>11. asmPhase' \in {"header", "inodes"} BY <3>1
    <3> QED BY <1>a, <1>b, <2>0, <3>1, <3>8, <3>9, <3>10, <3>11
            DEF PlacesInv, GroupsTold, InUse, Opening
  <2> QED BY <2>1, <2>2
<1>3. CASE GroupHeader
  <2>0. asmPhase = "header" /\ ~InUse /\ Opening BY <1>3 DEF GroupHeader, InUse, Opening
  <2>1. CASE AsmFails BY <2>0, <2>1, FailedStateIsTold
  <2>2. CASE ~AsmFails
    <3>1. PICK kept, n :
            /\ kept = {p \in opening.disks : \A c \in Catalogs : Normal(p, c)}
            /\ opening' = [opening EXCEPT !.name = n, !.disks = kept]
            /\ asmPhase' = "maps"
            /\ UNCHANGED <<media, groups, reading>>
      BY <1>3, <2>2 DEF GroupHeader
    <3>2. PICK x : x = opening' OBVIOUS
    <3>3. /\ x.gid = opening.gid /\ x.layout = opening.layout /\ x.disks = kept
      <4>1. GroupRecord(opening) BY <2>0 DEF AsmInv
      <4> QED BY <3>1, <3>2, <4>1 DEF GroupRecord
    <3>4. GroupSound(opening) /\ opening.disks = Members(opening.gid) BY <2>0 DEF PlacesInv
    <3>5. GroupSound(x) BY <3>1, <3>3, <3>4 DEF GroupSound
    <3>6. DisksCurrent(x)
      <4>1. \A q \in Members(opening.gid) : TellsPresent(Disk(q)) =>
              \A p \in kept : Lists(Disk(p), Disk(q).catalog)
        BY <1>a, <3>1, <3>4, HeaderTells
      <4> QED BY <3>3, <4>1 DEF DisksCurrent
    <3>7. GroupSound(opening)' /\ DisksCurrent(opening)'
      BY <3>1, <3>2, <3>5, <3>6, SoundStays
    <3>8. GroupsTold' BY <1>a, <3>1, GroupsStay
    <3> QED BY <1>a, <1>b, <2>0, <3>1, <3>7, <3>8 DEF PlacesInv, GroupsTold, InUse, Opening
  <2> QED BY <2>1, <2>2
<1>4. CASE LoadMaps
  <2>0. asmPhase = "maps" /\ ~InUse /\ Opening BY <1>4 DEF LoadMaps, InUse, Opening
  <2>1. CASE AsmFails BY <2>0, <2>1, FailedStateIsTold
  <2>2. CASE ~AsmFails
    <3>1. PICK maps :
            /\ maps = UNION {{[file |-> y.d.file, seq |-> y.d.seq, copy |-> c] :
                                c \in {y.at} \cup y.d.mirrors} : y \in Placed(opening.disks)}
            /\ opening' = [opening EXCEPT !.maps = maps]
            /\ DescriptorsValid(opening.disks)
            /\ asmPhase' = "inodes"
            /\ UNCHANGED <<media, groups, reading>>
      BY <1>4, <2>2 DEF LoadMaps
    <3>2. PICK x : x = opening' OBVIOUS
    <3>3. /\ x.gid = opening.gid /\ x.layout = opening.layout /\ x.disks = opening.disks
          /\ x.maps = maps
      <4>1. GroupRecord(opening) BY <2>0 DEF AsmInv
      <4> QED BY <3>1, <3>2, <4>1 DEF GroupRecord
    <3>4. GroupSound(opening) /\ DisksCurrent(opening) BY <2>0 DEF PlacesInv
    <3>5. GroupSound(x) /\ DisksCurrent(x) BY <3>3, <3>4 DEF GroupSound, DisksCurrent
    <3>6. MapsTold(x)
      <4>1. PICK P : P = opening.disks OBVIOUS
      <4>2. P \subseteq Members(opening.gid) /\ Consistent(Members(opening.gid)) /\ DescriptorsValid(P)
        BY <3>1, <3>4, <4>1 DEF GroupSound
      <4>3. ASSUME NEW e \in maps
            PROVE  /\ e.copy \in Nat \X Nat
                   /\ e.copy[1] \in IdsOf(P) =>
                        /\ e.copy[2] \in DOMAIN Disk(ById(P, e.copy[1])).table
                        /\ Disk(ById(P, e.copy[1])).table[e.copy[2]].file = e.file
                        /\ Disk(ById(P, e.copy[1])).table[e.copy[2]].seq = e.seq
        <5>1. PICK y \in Placed(P) :
                e \in {[file |-> y.d.file, seq |-> y.d.seq, copy |-> c] : c \in {y.at} \cup y.d.mirrors}
          BY <3>1, <4>1
        <5>2. PICK c \in {y.at} \cup y.d.mirrors :
                e = [file |-> y.d.file, seq |-> y.d.seq, copy |-> c]
          BY <5>1
        <5>3. e.copy = c /\ e.file = y.d.file /\ e.seq = y.d.seq BY <5>2
        <5>4. /\ c \in Nat \X Nat
              /\ c[1] \in IdsOf(P) =>
                   /\ c[2] \in DOMAIN Disk(ById(P, c[1])).table
                   /\ Disk(ById(P, c[1])).table[c[2]].file = y.d.file
                   /\ Disk(ById(P, c[1])).table[c[2]].seq = y.d.seq
          BY <1>a, <4>2, MapsTell
        <5> QED BY <5>3, <5>4
      <4> QED BY <3>3, <4>1, <4>3 DEF MapsTold
    <3>7. GroupSound(opening)' /\ DisksCurrent(opening)' /\ MapsTold(opening)'
      BY <3>1, <3>2, <3>5, <3>6, SoundStays
    <3>8. GroupsTold' BY <1>a, <3>1, GroupsStay
    <3> QED BY <1>a, <1>b, <2>0, <3>1, <3>7, <3>8 DEF PlacesInv, GroupsTold, InUse, Opening
  <2> QED BY <2>1, <2>2
<1>5. CASE LoadInodes
  <2>0. asmPhase = "inodes" /\ ~InUse /\ Opening BY <1>5 DEF LoadInodes, InUse, Opening
  <2>1. CASE AsmFails BY <2>0, <2>1, FailedStateIsTold
  <2>2. CASE ~AsmFails
    <3>0. PICK inodes : inodes = IF opening.layout = "mirror" THEN MirrorInodes ELSE LegacyInodes
      OBVIOUS
    <3> DEFINE n == IF opening.name # "" THEN opening.name ELSE (CHOOSE i \in inodes : TRUE).gname
           new == [opening EXCEPT !.files = inodes, !.name = n]
    <3>1. /\ inodes # Bad
          /\ groups' = [g \in DOMAIN groups \cup {opening.gid} |->
                          IF g = opening.gid THEN new ELSE groups[g]]
          /\ opening' = NoGroup
          /\ asmPhase' = "next"
          /\ UNCHANGED <<media, reading>>
      BY <1>5, <2>2, <3>0 DEF LoadInodes
    <3>2. /\ new.gid = opening.gid /\ new.layout = opening.layout /\ new.disks = opening.disks
          /\ new.maps = opening.maps /\ new.files = inodes
      <4>1. GroupRecord(opening) BY <2>0 DEF AsmInv
      <4> QED BY <4>1 DEF GroupRecord
    <3> HIDE DEF n, new
    <3>3. GroupSound(opening) /\ DisksCurrent(opening) /\ MapsTold(opening)
      BY <2>0 DEF PlacesInv
    <3>4. GroupSound(new) /\ DisksCurrent(new) /\ MapsTold(new)
      BY <3>2, <3>3 DEF GroupSound, DisksCurrent, MapsTold
    <3>5. \A i \in new.files : InodeTold(new.layout, i)
      <4>1. CASE opening.layout = "mirror"
        BY <1>a, <3>0, <3>1, <3>2, <3>3, <4>1, MirrorInodesTold
      <4>2. CASE opening.layout # "mirror"
        BY <1>a, <3>0, <3>1, <3>2, <3>3, <4>2, LegacyInodesTold
      <4> QED BY <4>1, <4>2
    <3>6. GroupTold(new) BY <3>4, <3>5 DEF GroupTold
    <3>7. ASSUME NEW g \in DOMAIN groups' PROVE groups'[g].gid = g /\ GroupTold(groups[g])'
      <4>1. CASE g = opening.gid
        <5>1. groups'[g] = new BY <3>1, <4>1
        <5> QED BY <3>1, <3>2, <3>6, <4>1, <5>1, SoundStays
      <4>2. CASE g # opening.gid
        <5>1. g \in DOMAIN groups /\ groups'[g] = groups[g] BY <3>1, <4>2
        <5>2. PICK y : y = groups[g] OBVIOUS
        <5>3. GroupTold(y) /\ y.gid = g BY <1>a, <5>1, <5>2 DEF GroupsTold
        <5>4. groups'[g] = y BY <5>1, <5>2
        <5> QED BY <3>1, <5>3, <5>4, SoundStays
      <4> QED BY <4>1, <4>2
    <3> QED BY <1>a, <1>b, <2>0, <3>1, <3>7 DEF PlacesInv, GroupsTold, InUse, Opening
  <2> QED BY <2>1, <2>2
<1>6. CASE StorageOpen
  <2>1. ~InUse /\ asmPhase' = "open" /\ UNCHANGED <<media, groups, reading>>
    BY <1>6 DEF StorageOpen, InUse
  <2>2. GroupsTold' BY <1>a, <2>1, GroupsStay
  <2> QED BY <1>a, <1>b, <2>1, <2>2 DEF PlacesInv, GroupsTold, InUse, Opening
<1>7. CASE OpenFile
  <2>1. PICK gid \in DOMAIN groups : \E i \in groups[gid].files : \E r \in Requests : \E end :
          /\ reading' = [path |-> i.path, gid |-> gid, inode |-> i, extents |-> Extents(groups[gid], i),
                         off |-> r.off, end |-> end, got |-> <<>>]
          /\ asmPhase' = IF Extents(groups[gid], i) = Bad THEN "refused" ELSE "reading"
          /\ UNCHANGED <<media, groups>>
    BY <1>7 DEF OpenFile
  <2>2. PICK i, r, end :
          /\ i \in groups[gid].files /\ r \in Requests
          /\ reading' = [path |-> i.path, gid |-> gid, inode |-> i, extents |-> Extents(groups[gid], i),
                         off |-> r.off, end |-> end, got |-> <<>>]
          /\ asmPhase' = IF Extents(groups[gid], i) = Bad THEN "refused" ELSE "reading"
          /\ UNCHANGED <<media, groups>>
    BY <2>1
  <2>3. PICK x : x = reading' OBVIOUS
  <2>4. r.off \in Nat BY <2>2, AsmAssumption DEF AsmAssumption
  <2>5. ReadingSound(x) BY <2>2, <2>3, <2>4 DEF ReadingSound
  <2>6. ReadingSound(reading)' BY <2>2, <2>3, <2>5, ReadingStays
  <2>7. asmPhase' # "refused" => reading'.extents # Bad BY <2>2
  <2>8. asmPhase' \in {"refused", "reading"} BY <2>2
  <2>9. GroupsTold' BY <1>a, <2>2, GroupsStay
  <2> QED BY <1>a, <2>2, <2>6, <2>7, <2>8, <2>9 DEF PlacesInv, GroupsTold, InUse, Opening
<1>8. CASE ReadUnit
  <2>1. asmPhase = "reading" /\ UNCHANGED <<media, groups>> BY <1>8 DEF ReadUnit
  <2>2. ReadingSound(reading) /\ reading.extents # Bad BY <2>1 DEF PlacesInv, InUse
  <2>3. PICK y, unit :
          /\ y = reading
          /\ unit = UnitFor(groups[y.gid], y.inode, y.extents, y.off + Len(y.got))
    OBVIOUS
  <2>4. \/ asmPhase' = "read_error" /\ UNCHANGED reading
        \/ /\ unit # Bad /\ reading' = [y EXCEPT !.got = Append(y.got, unit)]
           /\ UNCHANGED asmPhase
    BY <1>8, <2>3 DEF ReadUnit, UnitFor, Position
  <2>5. PICK x : x = reading' OBVIOUS
  <2>6. ReadingSound(x) /\ x.extents # Bad
    <3>1. CASE UNCHANGED reading BY <2>2, <2>5, <3>1
    <3>2. CASE unit # Bad /\ x = [y EXCEPT !.got = Append(y.got, unit)]
      <4>1. PICK S : S = {UnitFor(groups[y.gid], y.inode, y.extents, k) : k \in Nat} OBVIOUS
      <4>2. /\ y = [path |-> y.path, gid |-> y.gid, inode |-> y.inode, extents |-> y.extents,
                    off |-> y.off, end |-> y.end, got |-> y.got]
            /\ y.gid \in DOMAIN groups /\ y.inode \in groups[y.gid].files /\ y.off \in Nat
            /\ y.extents = Extents(groups[y.gid], y.inode) /\ y.extents # Bad
            /\ y.got \in Seq(S)
            /\ \A n \in DOMAIN y.got :
                 /\ y.got[n] # Bad
                 /\ y.got[n] = UnitFor(groups[y.gid], y.inode, y.extents, y.off + n - 1)
        BY <2>2, <2>3, <4>1 DEF ReadingSound
      <4>3. x = [path |-> y.path, gid |-> y.gid, inode |-> y.inode, extents |-> y.extents,
                 off |-> y.off, end |-> y.end, got |-> Append(y.got, unit)]
        BY <3>2, <4>2
      <4>4. Len(y.got) \in Nat /\ y.off + Len(y.got) \in Nat BY <4>2
      <4>5. unit \in S BY <2>3, <4>1, <4>4
      <4>6. /\ Append(y.got, unit) \in Seq(S)
            /\ DOMAIN Append(y.got, unit) = DOMAIN y.got \cup {Len(y.got) + 1}
            /\ \A n \in DOMAIN y.got : Append(y.got, unit)[n] = y.got[n]
            /\ Append(y.got, unit)[Len(y.got) + 1] = unit
        BY <4>2, <4>5
      <4>7. ASSUME NEW n \in DOMAIN Append(y.got, unit)
            PROVE  /\ Append(y.got, unit)[n] # Bad
                   /\ Append(y.got, unit)[n]
                        = UnitFor(groups[y.gid], y.inode, y.extents, y.off + n - 1)
        <5>1. CASE n \in DOMAIN y.got BY <4>2, <4>6, <5>1
        <5>2. CASE n = Len(y.got) + 1
          <6>1. y.off + n - 1 = y.off + Len(y.got) BY <4>2, <4>4, <5>2
          <6> QED BY <2>3, <3>2, <4>6, <5>2, <6>1
        <5> QED BY <4>6, <5>1, <5>2
      <4> QED BY <4>1, <4>2, <4>3, <4>6, <4>7 DEF ReadingSound
    <3> QED BY <2>4, <2>5, <3>1, <3>2
  <2>7. ReadingSound(reading)' BY <2>1, <2>5, <2>6, ReadingStays
  <2>8. asmPhase' \in {"reading", "read_error"} BY <2>1, <2>4
  <2>9. GroupsTold' BY <1>a, <2>1, GroupsStay
  <2> QED BY <1>a, <2>1, <2>5, <2>6, <2>7, <2>8, <2>9 DEF PlacesInv, GroupsTold, InUse, Opening
<1>9. CASE ReadDone
  <2>1. asmPhase = "reading" /\ asmPhase' = "read" /\ UNCHANGED <<media, groups, reading>>
    BY <1>9 DEF ReadDone
  <2>2. ReadingSound(reading) /\ reading.extents # Bad BY <2>1 DEF PlacesInv, InUse
  <2>3. PICK x : x = reading /\ x = reading' BY <2>1
  <2>4. ReadingSound(reading)' BY <2>1, <2>2, <2>3, ReadingStays
  <2>5. GroupsTold' BY <1>a, <2>1, GroupsStay
  <2> QED BY <1>a, <2>1, <2>2, <2>4, <2>5 DEF PlacesInv, GroupsTold, InUse, Opening
<1>10. CASE UNCHANGED asmVars
  <2>1. UNCHANGED <<media, opening, groups, reading, asmPhase>> BY <1>10 DEF asmVars
  <2>2. PICK x : x = opening /\ opening' = x BY <2>1
  <2>3. /\ GroupSound(opening)' = GroupSound(opening)
        /\ DisksCurrent(opening)' = DisksCurrent(opening)
        /\ MapsTold(opening)' = MapsTold(opening)
    BY <2>1, <2>2, SoundStays
  <2>4. Members(opening.gid)' = Members(opening.gid) BY <2>1 DEF Members, Disk
  <2>5. InUse => ReadingSound(reading)'
    <3>1. PICK y : y = reading /\ reading' = y BY <2>1
    <3> QED BY <2>1, <3>1, ReadingStays DEF PlacesInv
  <2>6. GroupsTold' BY <1>a, <2>1, GroupsStay
  <2> QED BY <2>1, <2>3, <2>4, <2>5, <2>6 DEF PlacesInv, GroupsTold, InUse, Opening
<1> QED
  BY <1>1, <1>2, <1>3, <1>4, <1>5, <1>6, <1>7, <1>8, <1>9, <1>10 DEF AsmNext

\* For any disks of any groups, of which some were replaced and others lost,
\* and any file and part of it asked for: whenever one disk at hand tells the
\* present generation, each unit read is one that the group holds now, of that
\* file; and no unit is delivered twice (loadMirrorGroupHeader, mirrorLocation,
\* loadExtentChain, ReadAt).
THEOREM ReadsAreCurrent == AsmSpec => []ReadsCurrent
<1>1. AsmInit => AsmInv /\ PlacesInv BY AsmInvHoldsAtFirst, PlacesInvHoldsAtFirst
<1>2. AsmInv /\ PlacesInv /\ [AsmNext]_asmVars => AsmInv' /\ PlacesInv'
  BY AsmInvIsKept, PlacesInvIsKept
<1>3. PlacesInv => ReadsCurrent BY ReadsFollow
<1> QED BY <1>1, <1>2, <1>3, PTL DEF AsmSpec

\* The open handles are disks at hand, a group is served by its own disks, and
\* what is read is a file of a group that was opened.
THEOREM AsmTypeCorrect == AsmSpec => []AsmTypeOK
<1>1. AsmInit => AsmInv /\ PlacesInv BY AsmInvHoldsAtFirst, PlacesInvHoldsAtFirst
<1>2. AsmInv /\ PlacesInv /\ [AsmNext]_asmVars => AsmInv' /\ PlacesInv'
  BY AsmInvIsKept, PlacesInvIsKept
<1>3. AsmInv /\ PlacesInv => AsmTypeOK
  <2> SUFFICES ASSUME AsmInv, PlacesInv PROVE AsmTypeOK OBVIOUS
  <2>1. asmPhase \in Phases /\ \A g \in DOMAIN groups : groups[g].disks \subseteq Members(g)
    BY DEF AsmInv
  <2>2. \A g : Members(g) \subseteq DOMAIN media BY DEF Members
  <2>3. opening # NoGroup => opening.disks \subseteq Members(opening.gid) BY DEF AsmInv
  <2>4. handles \subseteq DOMAIN media
    <3>1. ASSUME NEW p \in handles PROVE p \in DOMAIN media
      <4>1. \/ \E g \in DOMAIN groups : p \in groups[g].disks
            \/ opening # NoGroup /\ p \in opening.disks
        BY <3>1 DEF AsmInv, HandlesOwned
      <4> QED BY <2>1, <2>2, <2>3, <4>1
    <3> QED BY <3>1
  <2>5. asmPhase \in {"reading", "read_error", "read"} => reading.gid \in DOMAIN groups
    BY DEF PlacesInv, InUse, ReadingSound
  <2> QED BY <2>1, <2>4, <2>5 DEF AsmTypeOK, Phases
<1> QED BY <1>1, <1>2, <1>3, PTL DEF AsmSpec

-----------------------------------------------------------------------------

(* The files of one database among those of several (AsmDatabase) *)

\* The stages, and the files a control file taken for the database lists
ControlTaken ==
  /\ found \in Snapshots /\ system \in found /\ system.base = "SYSTEM"
  /\ stage # "control" =>
       control = UNION {c.lists : c \in {f \in Beside("DM.CTL") : f.readable}}

\* Every database with a file has a SYSTEM.DBF, with a sound page zero.
AllHaveSystem ==
  /\ {f.owner : f \in found} = {f.owner : f \in SystemFiles}
  /\ \A f \in SystemFiles : f.pageZero

LEMMA SystemIsSelected ==
  ASSUME ControlTaken PROVE system \in Selected
BY DEF ControlTaken, Selected, DbfFiles

\* Where a file of another database would be taken, its SYSTEM.DBF is taken
\* too, and clashes with the one chosen.
LEMMA OtherSystemSelected ==
  ASSUME ControlTaken, AllHaveSystem, stage = "select",
         NEW f \in Selected, f.owner # system.owner
  PROVE  \E t \in Selected : t.base = "SYSTEM" /\ t # system
<1> DEFINE S == found
<1>1. IsSnapshot(S) /\ f \in S /\ system \in S /\ system.base = "SYSTEM"
  BY SnapshotAssumption DEF ControlTaken, SnapshotAssumption, Selected, DbfFiles
<1>2. PICK t \in SystemFiles : t.owner = f.owner
  <2>1. f.owner \in {g.owner : g \in S} BY <1>1
  <2> QED BY <2>1 DEF AllHaveSystem
<1>3. t \in S /\ t.base = "SYSTEM" /\ t # system /\ t \in DbfFiles
  BY <1>2 DEF SystemFiles, DbfFiles
<1>4. CASE f.path \in control
  <2>1. PICK c \in Beside("DM.CTL") : f.path \in c.lists /\ c.readable
    BY <1>4 DEF ControlTaken
  <2>2. c \in S /\ c.base = "DM.CTL" BY DEF Beside
  <2>3. c.owner = f.owner BY <1>1, <2>1, <2>2 DEF IsSnapshot
  <2>4. t.path \in c.lists BY <1>1, <1>2, <1>3, <2>2, <2>3 DEF IsSnapshot
  <2>5. t.path \in control BY <2>1, <2>4 DEF ControlTaken
  <2> QED BY <1>3, <2>5 DEF Selected
<1>5. CASE f.dir = system.dir /\ f.group = system.group
  BY <1>1, <1>5 DEF IsSnapshot
<1>6. CASE f.dir = system.dir /\ CrossGroups
  <2>1. t.dir = system.dir BY <1>1, <1>2, <1>3, <1>6 DEF IsSnapshot
  <2> DEFINE Near == {g \in SystemFiles : g.dir = system.dir}
  <2>2. {t, system} \subseteq Near BY <1>1, <1>3, <2>1 DEF SystemFiles
  <2>3. IsFiniteSet(Near) /\ Cardinality(Near) <= 1
    BY <1>1, <1>6, FS_Subset DEF IsSnapshot, CrossGroups, SystemFiles
  <2>4. Cardinality({t, system}) <= Cardinality(Near) BY <2>2, <2>3, FS_Subset
  <2>5. Cardinality({t, system}) = 2
    <3>1. {t, system} = {t} \cup {system} /\ system \notin {t} BY <1>3
    <3>2. IsFiniteSet({t}) /\ Cardinality({t}) = 1 BY FS_Singleton
    <3>3. Cardinality({t} \cup {system}) = Cardinality({t}) + 1
      BY <3>1, <3>2, FS_AddElement, Zenon
    <3>4. 1 + 1 = 2 OBVIOUS
    <3> QED BY <3>1, <3>2, <3>3, <3>4, Zenon
  <2>6. Cardinality(Near) \in Nat BY <2>3, FS_CardinalityType
  <2> QED BY <2>3, <2>4, <2>5, <2>6
<1> QED BY <1>4, <1>5, <1>6 DEF Selected

LEMMA OtherDatabaseRefused ==
  ASSUME ControlTaken, AllHaveSystem, TakeSources, sources' # Refused
  PROVE  \A s \in sources' : s.file.owner = system.owner
<1> DEFINE counted == {f \in Selected : HasIdentity(f)}
<1>1. sources' = {[id |-> Identity(f), file |-> f] : f \in counted} /\ ~Clash(counted)
  BY DEF TakeSources
<1>2. ASSUME NEW f \in counted, f.owner # system.owner PROVE FALSE
  <2>1. PICK t \in Selected : t.base = "SYSTEM" /\ t # system
    BY <1>2, OtherSystemSelected DEF TakeSources
  <2>2. t \in SystemFiles /\ system \in SystemFiles
    BY <2>1 DEF SystemFiles, Selected, DbfFiles, ControlTaken
  <2>3. t \in counted /\ system \in counted
    BY <2>1, <2>2, SystemIsSelected DEF AllHaveSystem, HasIdentity
  <2>4. Identity(t) = Identity(system) BY <2>1 DEF Identity, ControlTaken
  <2> QED BY <1>1, <2>1, <2>3, <2>4 DEF Clash
<1> QED BY <1>1, <1>2

LEMMA ControlTakenIsKept ==
  ASSUME ControlTaken, [DatabaseNext]_databaseVars
  PROVE  ControlTaken'
<1>1. CASE FindControl
  <2>1. found' = found /\ system' = system BY <1>1 DEF FindControl
  <2>2. control' = UNION {c.lists : c \in {f \in Beside("DM.CTL") : f.readable}}
    BY <1>1 DEF FindControl
  <2>3. Beside("DM.CTL")' = Beside("DM.CTL") BY <2>1 DEF Beside
  <2> QED BY <2>1, <2>2, <2>3 DEF ControlTaken
<1>2. CASE TakeSources \/ UNCHANGED databaseVars
  <2>1. found' = found /\ system' = system /\ control' = control
        /\ (stage' # "control" => stage # "control")
    BY <1>2 DEF TakeSources, databaseVars
  <2>2. Beside("DM.CTL")' = Beside("DM.CTL") BY <2>1 DEF Beside
  <2> QED BY <2>1, <2>2 DEF ControlTaken
<1> QED BY <1>1, <1>2 DEF DatabaseNext

LEMMA NotMixedIsKept ==
  ASSUME ControlTaken, DatabasesNotMixed, [DatabaseNext]_databaseVars
  PROVE  DatabasesNotMixed'
<1>1. CASE FindControl BY <1>1 DEF FindControl, DatabasesNotMixed
<1>2. CASE TakeSources
  <2>1. found' = found /\ system' = system BY <1>2 DEF TakeSources
  <2> SUFFICES ASSUME sources' # Refused, AllHaveSystem
               PROVE  \A s \in sources' : s.file.owner = system.owner
    BY <2>1 DEF DatabasesNotMixed, AllHaveSystem, SystemFiles
  <2> QED BY <1>2, OtherDatabaseRefused
<1>3. CASE UNCHANGED databaseVars BY <1>3 DEF databaseVars, DatabasesNotMixed, SystemFiles
<1> QED BY <1>1, <1>2, <1>3 DEF DatabaseNext

\* As DatabasesNotMixed says, of every set of files on the groups in which
\* databases are laid out as SnapshotAssumption has it, whichever files are lost
\* (selectASMDatabaseDataFiles, dmasm_storage.go).
THEOREM DatabasesAreNotMixed == DatabaseSpec => []DatabasesNotMixed
<1>1. DatabaseInit => ControlTaken /\ DatabasesNotMixed
  BY DEF DatabaseInit, ControlTaken, DatabasesNotMixed
<1>2. ControlTaken /\ DatabasesNotMixed /\ [DatabaseNext]_databaseVars
        => (ControlTaken /\ DatabasesNotMixed)'
  BY ControlTakenIsKept, NotMixedIsKept
<1> QED BY <1>1, <1>2, PTL DEF DatabaseSpec

-----------------------------------------------------------------------------

(* Which file is read for each identity (DataFiles) *)

\* What a claim to an identity may say: somebody gave it to the file.
Told == {c \in [key : Keys, path : Places] : c.key \in Identities(c.path)}
Claims == Told \cup [key : Keys, path : {NoPlace}]

\* The disk holds files that there were, in data_dir perhaps under another
\* directory's name.
DiskKnown ==
  /\ DOMAIN onDisk \subseteq Places /\ IsFiniteSet(DOMAIN onDisk)
  /\ \A p \in DOMAIN onDisk :
       onDisk[p] # NoPlace => onDisk[p] \in Keys /\ onDisk[p] \in Identities(p)

\* What a bootstrap resolved is resolved again as long as nothing moves.
FilesInv ==
  /\ world \in Worlds /\ DiskKnown
  /\ dul \in Seq(Told)
  /\ filesPhase \in {"listed", "same"} => listed \subseteq DataFileRefs
  /\ filesPhase \in {"same", "resolved"} => refs = DataFileRefs
  /\ filesPhase \in {"idle", "listed", "same", "resolved"}

\* What the assumption says of places and claims
LEMMA PlacesAre ==
  /\ \A p \in Places : p # NoPlace /\ p = <<p[1], p[2]>> /\ p[1] \in Directories /\ p[2] \in Nat
  /\ \A n \in Nat : <<Here, n>> \in Places
  /\ \A k \in Keys : k # NoPlace
  /\ \A c \in Told : c = Claim(c.key, c.path) /\ c.key \in Keys /\ c.path \in Places
  /\ \A c \in Claims : c = Claim(c.key, c.path) /\ c.key \in Keys
                       /\ (c.path # NoPlace => c \in Told)
<1>1. \A p \in Places : p # NoPlace BY FilesAssumption
<1>2. \A p \in Places : p = <<p[1], p[2]>> /\ p[1] \in Directories /\ p[2] \in Nat
  BY DEF Places
<1>3. \A n \in Nat : <<Here, n>> \in Places BY FilesAssumption DEF Places
<1>4. \A k \in Keys : k # NoPlace BY FilesAssumption
<1>5. \A c \in Told : c = Claim(c.key, c.path) /\ c.key \in Keys /\ c.path \in Places
  BY DEF Told, Claim
<1>6. \A c \in Claims : c = Claim(c.key, c.path) /\ c.key \in Keys
                        /\ (c.path # NoPlace => c \in Told)
  BY <1>5 DEF Claims, Claim
<1> QED BY <1>1, <1>2, <1>3, <1>4, <1>5, <1>6

\* A file of data_dir may be any file of its name.
LEMMA InDataDir ==
  ASSUME NEW b
  PROVE  /\ \A d \in Directories :
              /\ HeaderKeys(<<d, b>>) \subseteq Identities(<<Here, b>>)
              /\ ControlKeys(<<d, b>>) \subseteq Identities(<<Here, b>>)
         /\ b \in DOMAIN world.name => world.name[b] \in Identities(<<Here, b>>)
<1> DEFINE D(d) == HeaderKeys(<<d, b>>) \cup ControlKeys(<<d, b>>)
           U == UNION {D(d) : d \in Directories}
           N == {world.name[c] : c \in {b} \cap DOMAIN world.name}
<1>1. Identities(<<Here, b>>) = U \cup N BY DEF Identities
<1>2. b \in DOMAIN world.name => world.name[b] \in N OBVIOUS
<1>3. b \in DOMAIN world.name => world.name[b] \in Identities(<<Here, b>>)
  <2> HIDE DEF N, U
  <2> QED BY <1>1, <1>2
<1>4. ASSUME NEW d \in Directories
      PROVE  /\ HeaderKeys(<<d, b>>) \subseteq Identities(<<Here, b>>)
             /\ ControlKeys(<<d, b>>) \subseteq Identities(<<Here, b>>)
  <2>1. D(d) \subseteq Identities(<<Here, b>>)
    <3> HIDE DEF N, D
    <3> QED BY <1>1
  <2>2. HeaderKeys(<<d, b>>) \subseteq D(d) /\ ControlKeys(<<d, b>>) \subseteq D(d) OBVIOUS
  <2> HIDE DEF D
  <2> QED BY <2>1, <2>2
<1> QED BY <1>3, <1>4

\* The identities of a path are those of the first page and of dm.ctl there.
LEMMA AtPlace ==
  ASSUME NEW p \in Places
  PROVE  /\ HeaderKeys(p) \subseteq Identities(p) /\ ControlKeys(p) \subseteq Identities(p)
         /\ p[1] # Here => Identities(p) = HeaderKeys(p) \cup ControlKeys(p)
<1>1. PICK d \in Directories, b \in Nat : p = <<d, b>> BY DEF Places
<1>2. p[1] = d /\ p[2] = b BY <1>1
<1>3. p[1] # Here => Identities(p) = HeaderKeys(p) \cup ControlKeys(p) BY DEF Identities
<1>4. p[1] = Here => p = <<Here, b>> BY <1>1, <1>2
<1>5. CASE p[1] = Here
  <2> DEFINE q == <<Here, b>>
  <2>1. HeaderKeys(q) \subseteq Identities(q) /\ ControlKeys(q) \subseteq Identities(q)
    BY InDataDir, FilesAssumption
  <2>2. p = q BY <1>4, <1>5
  <2> HIDE DEF q
  <2> QED BY <1>3, <2>1, <2>2
<1>6. CASE p[1] # Here BY <1>3, <1>6
<1> QED BY <1>3, <1>5, <1>6

LEMMA IdentitiesMove ==
  ASSUME NEW p \in Places
  PROVE  Identities(p) \subseteq Identities(<<Here, p[2]>>)
<1>1. PICK d \in Directories, b \in Nat : p = <<d, b>> BY DEF Places
<1>2. p[1] = d /\ p[2] = b BY <1>1
<1>3. CASE d = Here
  <2>1. p = <<Here, p[2]>> BY <1>1, <1>2, <1>3
  <2> QED BY <2>1
<1>4. CASE d # Here
  <2>1. Identities(p) = HeaderKeys(<<d, b>>) \cup ControlKeys(<<d, b>>)
    BY <1>1, <1>2, <1>4, AtPlace
  <2> QED BY <1>2, <2>1, InDataDir
<1> QED BY <1>3, <1>4

\* dm.ctl and the first page of a file give it identities.
LEMMA ControlGives ==
  ASSUME NEW e \in DOMAIN world.ctl, NEW n \in DOMAIN world.ctl[e].paths,
         world.ctl[e].paths[n] \in Places
  PROVE  <<world.ctl[e].group, n - 1>> \in Identities(world.ctl[e].paths[n])
<1>1. <<world.ctl[e].group, n - 1>> \in ControlKeys(world.ctl[e].paths[n]) BY DEF ControlKeys
<1> QED BY <1>1, AtPlace

LEMMA HeaderGives ==
  ASSUME NEW p \in DOMAIN world.header, p \in Places, world.header[p] # NoPlace
  PROVE  world.header[p] \in Identities(p)
<1>1. world.header[p] \in HeaderKeys(p) BY DEF HeaderKeys
<1> QED BY <1>1, AtPlace

\* Resolving a path leads to a file that may have the identities of the path, or
\* to none, and again to the same file.
LEMMA ResolvedIs ==
  ASSUME DiskKnown, NEW p \in Places
  PROVE  \/ Resolved(p) = NoPlace
         \/ /\ Resolved(p) \in Places /\ Resolved(p) \in DOMAIN onDisk
            /\ Identities(p) \subseteq Identities(Resolved(p))
            /\ Resolved(Resolved(p)) = Resolved(p)
<1>1. p = <<p[1], p[2]>> /\ p[2] \in Nat /\ <<Here, p[2]>> \in Places BY PlacesAre
<1>2. CASE <<Here, p[2]>> \in DOMAIN onDisk
  <2>1. Resolved(p) = <<Here, p[2]>> BY <1>2 DEF Resolved
  <2>2. Resolved(<<Here, p[2]>>) = <<Here, p[2]>> BY <1>2 DEF Resolved
  <2> QED BY <1>1, <1>2, <2>1, <2>2, IdentitiesMove
<1>3. CASE <<Here, p[2]>> \notin DOMAIN onDisk /\ p \in DOMAIN onDisk
  <2>1. Resolved(p) = p BY <1>3 DEF Resolved
  <2> QED BY <1>3, <2>1
<1>4. CASE <<Here, p[2]>> \notin DOMAIN onDisk /\ p \notin DOMAIN onDisk
  BY <1>4 DEF Resolved
<1> QED BY <1>2, <1>3, <1>4

\* The claims that a state can make: as above, and a file that is there is
\* found again under the place where it was found.
Standing == {c \in Claims : c.path # NoPlace =>
               Resolved(c.path) = c.path /\ c.path \in DOMAIN onDisk}

\* A claim of a path that was given the identity
LEMMA ClaimStands ==
  ASSUME DiskKnown, NEW p \in Places, NEW k \in Keys, k \in Identities(p)
  PROVE  Claim(k, Resolved(p)) \in Standing
<1>1. Claim(k, Resolved(p)).path = Resolved(p) /\ Claim(k, Resolved(p)).key = k BY DEF Claim
<1>2. CASE Resolved(p) = NoPlace
  <2>1. Claim(k, Resolved(p)) \in Claims BY <1>2 DEF Claims, Claim
  <2> QED BY <1>1, <1>2, <2>1 DEF Standing
<1>3. CASE Resolved(p) # NoPlace
  <2>1. /\ Resolved(p) \in Places /\ Resolved(p) \in DOMAIN onDisk
        /\ k \in Identities(Resolved(p)) /\ Resolved(Resolved(p)) = Resolved(p)
    BY <1>3, ResolvedIs
  <2>2. Claim(k, Resolved(p)) \in Claims BY <2>1 DEF Claims, Told, Claim
  <2> QED BY <1>1, <2>1, <2>2 DEF Standing
<1> QED BY <1>2, <1>3

\* The claims of dm.ctl
LEMMA ControlClaimsStand ==
  ASSUME world \in Worlds, DiskKnown
  PROVE  ControlClaims \in Seq(Standing)
<1> DEFINE ss == [e \in DOMAIN world.ctl |-> ControlEntryClaims(world.ctl[e])]
<1>1. world.ctl \in Seq([group : Nat, paths : Seq(Places)])
  BY FilesAssumption DEF IsDatabase
<1>2. ASSUME NEW e \in DOMAIN world.ctl
      PROVE  ControlEntryClaims(world.ctl[e]) \in Seq(Standing)
  <2> DEFINE entry == world.ctl[e]
  <2>1. entry \in [group : Nat, paths : Seq(Places)]
    <3>1. DOMAIN world.ctl = 1 .. Len(world.ctl) BY <1>1
    <3> QED BY <1>1, <3>1, ElementOfSeq
  <2>2. \A n \in DOMAIN entry.paths : entry.paths[n] \in Places =>
          <<entry.group, n - 1>> \in Identities(entry.paths[n])
    BY ControlGives
  <2> HIDE DEF entry
  <2>3. entry.group \in Nat /\ entry.paths \in Seq(Places) BY <2>1
  <2>4. DOMAIN entry.paths = 1 .. Len(entry.paths) /\ Len(entry.paths) \in Nat
    BY <2>3
  <2>5. ASSUME NEW n \in DOMAIN entry.paths
        PROVE Claim(<<entry.group, n - 1>>, Resolved(entry.paths[n])) \in Standing
    <3>1. entry.paths[n] \in Places BY <2>3, <2>4, ElementOfSeq
    <3>2. <<entry.group, n - 1>> \in Keys BY <2>3, <2>4 DEF Keys
    <3> QED BY <2>2, <3>1, <3>2, ClaimStands
  <2>6. ControlEntryClaims(entry) \in [1 .. Len(entry.paths) -> Standing]
    BY <2>4, <2>5 DEF ControlEntryClaims
  <2>7. ControlEntryClaims(entry) \in Seq(Standing) BY <2>4, <2>6, SeqDef
  <2> QED BY <2>7 DEF entry
<1>3. ss \in Seq(Seq(Standing))
  <2>1. DOMAIN world.ctl = 1 .. Len(world.ctl) /\ Len(world.ctl) \in Nat BY <1>1
  <2>2. ss \in [1 .. Len(world.ctl) -> Seq(Standing)] BY <1>2, <2>1
  <2> QED BY <2>1, <2>2, SeqDef
<1>4. FlattenSeq(ss) \in Seq(Standing)
  <2> HIDE DEF ss
  <2> QED BY <1>3, FlattenedIn
<1>5. <<>> \in Seq(Standing) OBVIOUS
<1> QED BY <1>4, <1>5 DEF ControlClaims

\* The claims of control.dul
LEMMA DulClaimsStand ==
  ASSUME DiskKnown, dul \in Seq(Told)
  PROVE  DulClaims \in Seq(Standing)
<1>1. DOMAIN dul = 1 .. Len(dul) /\ Len(dul) \in Nat OBVIOUS
<1>2. ASSUME NEW n \in DOMAIN dul PROVE Claim(dul[n].key, Resolved(dul[n].path)) \in Standing
  <2>1. dul[n] \in Told BY <1>1, ElementOfSeq
  <2>2. dul[n].key \in Keys /\ dul[n].path \in Places
        /\ dul[n].key \in Identities(dul[n].path)
    BY <2>1 DEF Told
  <2> QED BY <2>2, ClaimStands
<1>3. DulClaims \in [1 .. Len(dul) -> Standing] BY <1>1, <1>2 DEF DulClaims
<1> QED BY <1>1, <1>3, SeqDef

\* Every file of data_dir whose first page can be read claims an identity that
\* it was given.
Readable == {b \in Directory : Header(<<Here, b>>) # NoPlace}

LEMMA DirectoryIs ==
  ASSUME DiskKnown
  PROVE  /\ Directory \subseteq Nat /\ IsFiniteSet(Readable)
         /\ \A b \in Directory : <<Here, b>> \in DOMAIN onDisk /\ <<Here, b>> \in Places
<1> DEFINE F == {q \in DOMAIN onDisk : q[1] = Here}
<1>1. DOMAIN onDisk \subseteq Places /\ IsFiniteSet(DOMAIN onDisk) BY DEF DiskKnown
<1>2. \A q \in F : q = <<Here, q[2]>> /\ q[2] \in Nat /\ q \in Places
  BY <1>1, PlacesAre
<1>3. Directory = {q[2] : q \in F} BY DEF Directory
<1>4. IsFiniteSet(F) BY <1>1, FS_Subset
<1> HIDE DEF F
<1> DEFINE f == [q \in F |-> q[2]]
<1>5. f \in Surjection(F, Directory) BY <1>3 DEF Surjection
<1>6. IsFiniteSet(Directory) BY <1>4, <1>5, FS_Surjection
<1>7. IsFiniteSet(Readable) BY <1>6, FS_Subset DEF Readable
<1>8. \A b \in Directory : \E q \in F : q = <<Here, b>> /\ b \in Nat BY <1>2, <1>3
<1> QED BY <1>2, <1>7, <1>8 DEF F

LEMMA HeaderClaimsIn ==
  ASSUME DiskKnown, NEW id,
         \A b \in Readable : id[b] \in Keys /\ id[b] \in Identities(<<Here, b>>)
  PROVE  /\ HeaderClaims(id) \in Seq(Standing)
         /\ \A b \in Readable : \E n \in DOMAIN HeaderClaims(id) :
              HeaderClaims(id)[n] = Claim(id[b], <<Here, b>>)
<1> DEFINE known == Sorted(Readable, ByBase)
           n == Cardinality(Readable)
<1>1. /\ Readable \subseteq Directory /\ IsFiniteSet(Readable) /\ Directory \subseteq Nat
      /\ \A b \in Readable : <<Here, b>> \in DOMAIN onDisk /\ <<Here, b>> \in Places
  BY DirectoryIs DEF Readable
<1>2. /\ known \in Seq(Readable) /\ DOMAIN known = 1 .. n
      /\ \A b \in Readable : \E k \in DOMAIN known : known[k] = b
  <2>1. ASSUME NEW x \in Readable PROVE <<x, x>> \notin ByBase
    <3>1. x \in Nat BY <1>1
    <3>2. <<x, x>> \in ByBase => x < x BY DEF ByBase
    <3> QED BY <3>1, <3>2
  <2>2. \A x, y, z \in Readable :
          <<x, y>> \in ByBase /\ <<y, z>> \in ByBase => <<x, z>> \in ByBase
    BY <1>1 DEF ByBase
  <2>3. \A x, y \in Readable : x # y => <<x, y>> \in ByBase \/ <<y, x>> \in ByBase
    BY <1>1 DEF ByBase
  <2>4. IsFiniteSet(Readable) BY <1>1
  <2> HIDE DEF Readable
  <2>5. LET t == Sorted(Readable, ByBase) IN
        /\ t \in Seq(Readable) /\ DOMAIN t = 1 .. Cardinality(Readable)
        /\ \A x \in Readable : \E k \in DOMAIN t : t[k] = x
        /\ \A j, k \in DOMAIN t : j < k => <<t[j], t[k]>> \in ByBase
    BY <2>1, <2>2, <2>3, <2>4, SortedIs
  <2> QED BY <2>5
<1>3. n \in Nat BY <1>1, FS_CardinalityType
<1>4. HeaderClaims(id) = [k \in 1 .. n |-> Claim(id[known[k]], <<Here, known[k]>>)]
  BY <1>2 DEF HeaderClaims, Readable
<1>5. ASSUME NEW k \in 1 .. n PROVE known[k] \in Readable BY <1>2, ElementOfSeq, <1>3
<1> HIDE DEF known, n
<1>6. ASSUME NEW b \in Readable PROVE Claim(id[b], <<Here, b>>) \in Standing
  <2>1. <<Here, b>> \in DOMAIN onDisk /\ <<Here, b>> \in Places BY <1>1
  <2>2. Resolved(<<Here, b>>) = <<Here, b>> BY <2>1 DEF Resolved
  <2>3. id[b] \in Keys /\ id[b] \in Identities(<<Here, b>>) OBVIOUS
  <2>4. Claim(id[b], Resolved(<<Here, b>>)) \in Standing BY <2>1, <2>3, ClaimStands
  <2> QED BY <2>2, <2>4
<1>7. HeaderClaims(id) \in [1 .. n -> Standing] BY <1>4, <1>5, <1>6
<1>8. HeaderClaims(id) \in Seq(Standing) BY <1>3, <1>7, SeqDef
<1>9. ASSUME NEW b \in Readable PROVE \E k \in DOMAIN HeaderClaims(id) :
        HeaderClaims(id)[k] = Claim(id[b], <<Here, b>>)
  <2>1. PICK k \in 1 .. n : known[k] = b BY <1>2
  <2> QED BY <1>4, <2>1
<1> QED BY <1>8, <1>9

LEMMA HeaderClaimsStand ==
  ASSUME world \in Worlds, DiskKnown
  PROVE  /\ HeaderClaims(OnPageZero) \in Seq(Standing)
         /\ HeaderClaims(ByName) \in Seq(Standing)
         /\ \A b \in Readable : \E n \in DOMAIN HeaderClaims(OnPageZero) :
              HeaderClaims(OnPageZero)[n] = Claim(Header(<<Here, b>>), <<Here, b>>)
<1>1. \A b \in Readable : b \in Directory /\ Header(<<Here, b>>) # NoPlace BY DEF Readable
<1>2. ASSUME NEW b \in Readable
      PROVE  Header(<<Here, b>>) \in Keys /\ Header(<<Here, b>>) \in Identities(<<Here, b>>)
  <2>1. <<Here, b>> \in DOMAIN onDisk BY <1>1, DirectoryIs
  <2> QED BY <1>1, <2>1 DEF DiskKnown, Header
<1>3. \A b \in Readable : OnPageZero[b] = Header(<<Here, b>>) BY <1>1 DEF OnPageZero
<1>4. ASSUME NEW b \in Readable
      PROVE  ByName[b] \in Keys /\ ByName[b] \in Identities(<<Here, b>>)
  <2>1. CASE b \in DOMAIN world.name
    <3>1. ByName[b] = world.name[b] BY <1>1, <2>1 DEF ByName
    <3>2. world.name[b] \in Keys BY <2>1, FilesAssumption DEF IsDatabase
    <3> QED BY <2>1, <3>1, <3>2, InDataDir
  <2>2. CASE b \notin DOMAIN world.name
    <3>1. ByName[b] = Header(<<Here, b>>) BY <1>1, <2>2 DEF ByName
    <3> QED BY <1>2, <3>1
  <2> QED BY <2>1, <2>2
<1>5. HeaderClaims(ByName) \in Seq(Standing) BY <1>4, HeaderClaimsIn
<1>6. \A b \in Readable : OnPageZero[b] \in Keys /\ OnPageZero[b] \in Identities(<<Here, b>>)
  BY <1>2, <1>3
<1>7. /\ HeaderClaims(OnPageZero) \in Seq(Standing)
      /\ \A b \in Readable : \E n \in DOMAIN HeaderClaims(OnPageZero) :
           HeaderClaims(OnPageZero)[n] = Claim(OnPageZero[b], <<Here, b>>)
  BY <1>6, HeaderClaimsIn
<1> QED BY <1>3, <1>5, <1>7

\* The places in a sequence of claims that count
Counts(s, m) ==
  /\ m \in DOMAIN s /\ s[m].path # NoPlace
  /\ \A l \in 1 .. m - 1 : s[l].key = s[m].key => s[l].path = NoPlace

\* What counts of several claims: one per identity that a file claims
LEMMA FirstIs ==
  ASSUME NEW s \in Seq(Standing)
  PROVE  /\ FirstOf(s) \subseteq Told /\ FirstOf(s) \subseteq Standing
         /\ \A c \in FirstOf(s) : \E m : Counts(s, m) /\ s[m] = c
         /\ \A m : Counts(s, m) => s[m] \in FirstOf(s)
         /\ \A c, d \in FirstOf(s) : c.key = d.key => c = d
         /\ \A m \in DOMAIN s : s[m].path # NoPlace => \E c \in FirstOf(s) : c.key = s[m].key
         /\ IsFiniteSet(FirstOf(s))
<1> DEFINE M == {m \in DOMAIN s : Counts(s, m)}
<1>1. DOMAIN s = 1 .. Len(s) /\ Len(s) \in Nat /\ \A m \in DOMAIN s : s[m] \in Standing
  <2>1. DOMAIN s = 1 .. Len(s) /\ Len(s) \in Nat OBVIOUS
  <2> QED BY <2>1, ElementOfSeq
<1>2. FirstOf(s) = {s[m] : m \in M} BY DEF FirstOf, Counts
<1>3. M \subseteq 1 .. Len(s) /\ \A m : Counts(s, m) => m \in M BY <1>1 DEF Counts
<1>4. ASSUME NEW m \in M PROVE s[m] \in Told /\ s[m] \in Standing
  <2>1. s[m] \in Standing /\ s[m].path # NoPlace BY <1>1 DEF Counts
  <2>2. s[m] \in Claims BY <2>1 DEF Standing
  <2> QED BY <2>1, <2>2, PlacesAre
<1>5. ASSUME NEW m \in M, NEW l \in M, s[m].key = s[l].key PROVE s[m] = s[l]
  <2>1. m \in Nat /\ l \in Nat /\ m >= 1 /\ l >= 1 BY <1>1, <1>3
  <2>2. CASE m < l
    <3>1. m \in 1 .. l - 1 BY <2>1, <2>2
    <3> QED BY <1>5, <3>1 DEF Counts
  <2>3. CASE l < m
    <3>1. l \in 1 .. m - 1 BY <2>1, <2>3
    <3> QED BY <1>5, <3>1 DEF Counts
  <2> QED BY <2>1, <2>2, <2>3
<1>6. ASSUME NEW m \in DOMAIN s, s[m].path # NoPlace
      PROVE \E c \in FirstOf(s) : c.key = s[m].key
  <2> DEFINE L == {l \in DOMAIN s : s[l].key = s[m].key /\ s[l].path # NoPlace}
  <2>1. L \in SUBSET Nat /\ m \in L BY <1>1, <1>6
  <2>2. PICK l \in L : \A i \in L : l <= i
    <3> HIDE DEF L
    <3> QED BY <2>1, LeastNat
  <2>3. ASSUME NEW i \in 1 .. l - 1, s[i].key = s[l].key PROVE s[i].path = NoPlace
    <3>1. i \in DOMAIN s /\ l \in Nat /\ i \in Nat /\ ~(l <= i) BY <1>1, <2>1, <2>2
    <3>2. i \notin L BY <2>2, <3>1
    <3> QED BY <2>2, <2>3, <3>1, <3>2
  <2>4. Counts(s, l) BY <2>2, <2>3 DEF Counts
  <2> QED BY <1>2, <1>3, <2>2, <2>4
<1>7. IsFiniteSet(FirstOf(s))
  <2>1. IsFiniteSet(1 .. Len(s)) BY <1>1, FS_Interval
  <2>2. IsFiniteSet(M) BY <1>3, <2>1, FS_Subset
  <2> DEFINE f == [m \in M |-> s[m]]
  <2>3. f \in Surjection(M, FirstOf(s)) BY <1>2 DEF Surjection
  <2> QED BY <2>2, <2>3, FS_Surjection
<1>8. /\ \A c \in FirstOf(s) : \E m \in M : s[m] = c
      /\ \A m \in M : Counts(s, m) /\ s[m] \in FirstOf(s)
  BY <1>2
<1> HIDE DEF M
<1>9. FirstOf(s) \subseteq Told /\ FirstOf(s) \subseteq Standing BY <1>4, <1>8
<1>10. \A c, d \in FirstOf(s) : c.key = d.key => c = d BY <1>5, <1>8
<1> QED BY <1>3, <1>6, <1>7, <1>8, <1>9, <1>10, Zenon

\* A claim that counts, and is repeated in the middle, still counts when the
\* middle is replaced.
LEMMA FirstStays ==
  ASSUME NEW T, NEW C \in Seq(T), NEW D \in Seq(T), NEW E \in Seq(T), NEW H \in Seq(T),
         NEW c \in FirstOf((C \o D) \o H),
         NEW k \in DOMAIN E, E[k] = c, \A j \in DOMAIN E : E[j].key = c.key => j = k
  PROVE  c \in FirstOf((C \o E) \o H)
<1> DEFINE s == (C \o D) \o H
           t == (C \o E) \o H
<1>1. /\ Len(C) \in Nat /\ Len(D) \in Nat /\ Len(E) \in Nat /\ Len(H) \in Nat
      /\ DOMAIN C = 1 .. Len(C) /\ DOMAIN E = 1 .. Len(E)
  OBVIOUS
<1>2. C \o D \in Seq(T) /\ C \o E \in Seq(T) OBVIOUS
<1>3. /\ DOMAIN s = 1 .. Len(C) + Len(D) + Len(H)
      /\ \A i \in 1 .. Len(C) : s[i] = C[i]
  BY <1>1, <1>2
<1>4. /\ DOMAIN t = 1 .. Len(C) + Len(E) + Len(H)
      /\ \A i \in 1 .. Len(C) : t[i] = C[i]
      /\ \A i \in 1 .. Len(E) : t[Len(C) + i] = E[i]
  BY <1>1, <1>2
<1>0. FirstOf(s) = {s[i] : i \in {j \in DOMAIN s : Counts(s, j)}}
      /\ FirstOf(t) = {t[i] : i \in {j \in DOMAIN t : Counts(t, j)}}
  BY DEF FirstOf, Counts
<1> HIDE DEF s, t
<1>5. PICK m : /\ m \in DOMAIN s /\ s[m] = c /\ c.path # NoPlace
               /\ \A l \in 1 .. m - 1 : s[l].key = c.key => s[l].path = NoPlace
  BY <1>0 DEF Counts, s
<1>6. CASE m <= Len(C)
  <2>1. m \in 1 .. Len(C) BY <1>1, <1>3, <1>5, <1>6
  <2>2. t[m] = c /\ m \in DOMAIN t BY <1>1, <1>3, <1>4, <1>5, <2>1
  <2>3. ASSUME NEW l \in 1 .. m - 1 PROVE t[l] = s[l]
    <3>1. l \in 1 .. Len(C) BY <1>1, <2>1
    <3> QED BY <1>3, <1>4, <3>1
  <2>4. Counts(t, m) BY <1>5, <2>2, <2>3 DEF Counts
  <2> QED BY <1>0, <2>2, <2>4 DEF t
<1>7. CASE ~(m <= Len(C))
  <2> DEFINE i == Len(C) + k
  <2>1. k \in 1 .. Len(E) /\ i \in DOMAIN t /\ t[i] = c BY <1>1, <1>4
  <2>2. ASSUME NEW l \in 1 .. i - 1, t[l].key = c.key PROVE t[l].path = NoPlace
    <3>1. CASE l \in 1 .. Len(C)
      <4>1. l \in 1 .. m - 1 BY <1>1, <1>3, <1>5, <1>7, <3>1
      <4>2. s[l] = t[l] BY <1>3, <1>4, <3>1
      <4> QED BY <1>5, <2>2, <4>1, <4>2
    <3>2. CASE l \notin 1 .. Len(C)
      <4> DEFINE j == l - Len(C)
      <4>1. j \in 1 .. Len(E) /\ j < k /\ l = Len(C) + j BY <1>1, <2>1, <3>2
      <4>2. t[l] = E[j]
        <5> HIDE DEF j
        <5> QED BY <1>4, <4>1
      <4>3. j = k BY <1>1, <2>2, <4>1, <4>2
      <4> QED BY <1>1, <4>1, <4>3
    <3> QED BY <3>1, <3>2
  <2>3. Counts(t, i) BY <1>5, <2>1, <2>2 DEF Counts
  <2> QED BY <1>0, <2>1, <2>3 DEF t
<1> QED BY <1>6, <1>7

\* All claims, in the order in which they count
AllClaims == ControlClaims \o DulClaims \o HeaderClaims(OnPageZero)

\* They stand, and those of data_dir are among them.
LEMMA ClaimsStand ==
  ASSUME FilesInv
  PROVE  /\ AllClaims \in Seq(Standing)
         /\ ControlClaims \in Seq(Standing) /\ DulClaims \in Seq(Standing)
         /\ HeaderClaims(OnPageZero) \in Seq(Standing)
         /\ \A n \in DOMAIN HeaderClaims(OnPageZero) : \E m \in DOMAIN AllClaims :
              AllClaims[m] = HeaderClaims(OnPageZero)[n]
<1> DEFINE C == ControlClaims
           D == DulClaims
           H == HeaderClaims(OnPageZero)
<1>1. C \in Seq(Standing) /\ D \in Seq(Standing) /\ H \in Seq(Standing)
  BY ControlClaimsStand, DulClaimsStand, HeaderClaimsStand DEF FilesInv
<1>2. AllClaims = (C \o D) \o H BY DEF AllClaims
<1> HIDE DEF C, D, H
<1>3. AllClaims \in Seq(Standing) BY <1>1, <1>2
<1>4. ASSUME NEW n \in DOMAIN H PROVE \E m \in DOMAIN AllClaims : AllClaims[m] = H[n]
  <2> DEFINE m == Len(C) + Len(D) + n
  <2>1. Len(C) \in Nat /\ Len(D) \in Nat /\ n \in 1 .. Len(H) /\ Len(H) \in Nat BY <1>1
  <2>2. Len(C \o D) = Len(C) + Len(D) /\ C \o D \in Seq(Standing) BY <1>1
  <2>3. m \in DOMAIN AllClaims /\ AllClaims[m] = H[n] BY <1>1, <1>2, <2>1, <2>2
  <2> QED BY <2>3
<1> QED BY <1>1, <1>3, <1>4 DEF C, D, H

\* What an unload reads as a file was given that identity, and every one found in
\* data_dir is represented.
LEMMA ReferencesServe ==
  ASSUME FilesInv
  PROVE  /\ DataFileRefs \subseteq Told /\ \A c \in DataFileRefs : c.path \in DOMAIN onDisk
         /\ \A b \in Readable : Header(<<Here, b>>)[1] >= UserGroup =>
              \E c \in DataFileRefs : c.key = Header(<<Here, b>>)
<1>1. /\ FirstOf(AllClaims) \subseteq Told /\ FirstOf(AllClaims) \subseteq Standing
      /\ \A m \in DOMAIN AllClaims : AllClaims[m].path # NoPlace =>
           \E c \in FirstOf(AllClaims) : c.key = AllClaims[m].key
  BY ClaimsStand, FirstIs
<1>2. DataFileRefs = {c \in FirstOf(AllClaims) : c.key[1] >= UserGroup}
  BY DEF DataFileRefs, AllClaims
<1>3. ASSUME NEW b \in Readable, Header(<<Here, b>>)[1] >= UserGroup
      PROVE \E c \in DataFileRefs : c.key = Header(<<Here, b>>)
  <2>1. PICK n \in DOMAIN HeaderClaims(OnPageZero) :
          HeaderClaims(OnPageZero)[n] = Claim(Header(<<Here, b>>), <<Here, b>>)
    BY HeaderClaimsStand DEF FilesInv
  <2>2. PICK m \in DOMAIN AllClaims : AllClaims[m] = Claim(Header(<<Here, b>>), <<Here, b>>)
    BY <2>1, ClaimsStand
  <2>3. <<Here, b>> # NoPlace
    <3>1. <<Here, b>> \in Places BY DirectoryIs DEF Readable, FilesInv
    <3> QED BY <3>1, PlacesAre
  <2>4. AllClaims[m].key = Header(<<Here, b>>) /\ AllClaims[m].path = <<Here, b>>
    BY <2>2 DEF Claim
  <2>5. PICK c \in FirstOf(AllClaims) : c.key = Header(<<Here, b>>) BY <1>1, <2>3, <2>4
  <2> QED BY <1>2, <1>3, <2>5
<1>4. ASSUME NEW c \in DataFileRefs PROVE c.path \in DOMAIN onDisk
  <2>1. c \in Told /\ c \in Standing BY <1>1, <1>2
  <2>2. c.path # NoPlace BY <2>1, PlacesAre
  <2> QED BY <2>1, <2>2 DEF Standing
<1> QED BY <1>1, <1>2, <1>3, <1>4

\* control.dul names every file once, with an identity that it was given.
LEMMA OfflineFilesListed ==
  ASSUME FilesInv
  PROVE  LET s == Sorted(OfflineFiles, ByKey) IN
         /\ s \in Seq(Told)
         /\ \A c \in DataFileRefs : \E k \in DOMAIN s : s[k] = c
         /\ \A j, k \in DOMAIN s : s[j].key = s[k].key => j = k
<1> DEFINE F == FirstOf(AllClaims)
           G == FirstOf(HeaderClaims(ByName))
           S == OfflineFiles
           s == Sorted(OfflineFiles, ByKey)
<1>1. /\ F \subseteq Told /\ IsFiniteSet(F) /\ \A c, d \in F : c.key = d.key => c = d
      /\ G \subseteq Told /\ IsFiniteSet(G) /\ \A c, d \in G : c.key = d.key => c = d
  BY ClaimsStand, FirstIs, HeaderClaimsStand DEF FilesInv
<1>2. DataFileRefs \subseteq F BY DEF DataFileRefs, AllClaims
<1>3. S = DataFileRefs \cup {c \in G : c.key \notin {d.key : d \in DataFileRefs}}
  BY DEF OfflineFiles
<1> HIDE DEF F, G, S, s
<1>4. S \subseteq Told /\ S \subseteq F \cup G /\ DataFileRefs \subseteq S BY <1>1, <1>2, <1>3
<1>5. IsFiniteSet(S)
  <2>1. IsFiniteSet(F \cup G) BY <1>1, FS_Union
  <2> QED BY <1>4, <2>1, FS_Subset
<1>6. ASSUME NEW c \in S, NEW d \in S, c.key = d.key PROVE c = d
  <2>1. CASE c \in DataFileRefs /\ d \in DataFileRefs BY <1>1, <1>2, <1>6, <2>1
  <2>2. CASE c \notin DataFileRefs /\ d \notin DataFileRefs BY <1>1, <1>3, <1>6, <2>2
  <2>3. CASE c \in DataFileRefs /\ d \notin DataFileRefs BY <1>3, <1>6, <2>3
  <2>4. CASE c \notin DataFileRefs /\ d \in DataFileRefs BY <1>3, <1>6, <2>4
  <2> QED BY <2>1, <2>2, <2>3, <2>4
<1>7. ASSUME NEW c \in S
      PROVE  c.key = <<c.key[1], c.key[2]>> /\ c.key[1] \in Nat /\ c.key[2] \in Nat
  <2>1. c.key \in Keys BY <1>4 DEF Told
  <2> QED BY <2>1 DEF Keys
<1>8. ASSUME NEW c \in S, NEW d \in S
      PROVE <<c, d>> \in ByKey <=> (c.key[1] < d.key[1]
                                     \/ (c.key[1] = d.key[1] /\ c.key[2] < d.key[2]))
  BY DEF ByKey, S
<1>9. LET t == Sorted(S, ByKey) IN
      /\ t \in Seq(S) /\ DOMAIN t = 1 .. Cardinality(S)
      /\ \A x \in S : \E k \in DOMAIN t : t[k] = x
      /\ \A j, k \in DOMAIN t : j < k => <<t[j], t[k]>> \in ByKey
  <2>1. \A x \in S : <<x, x>> \notin ByKey BY <1>7, <1>8
  <2>2. ASSUME NEW x \in S, NEW y \in S, NEW z \in S, <<x, y>> \in ByKey, <<y, z>> \in ByKey
        PROVE <<x, z>> \in ByKey
    BY <1>7, <1>8, <2>2
  <2>3. ASSUME NEW x \in S, NEW y \in S, x # y
        PROVE <<x, y>> \in ByKey \/ <<y, x>> \in ByKey
    <3>1. x.key # y.key BY <1>6, <2>3
    <3>2. x.key[1] # y.key[1] \/ x.key[2] # y.key[2] BY <1>7, <3>1
    <3> QED BY <1>7, <1>8, <3>2
  <2> QED BY <1>5, <2>1, <2>2, <2>3, SortedIs
<1>10. /\ s \in Seq(S) /\ DOMAIN s = 1 .. Cardinality(S)
       /\ \A x \in S : \E k \in DOMAIN s : s[k] = x
       /\ \A j, k \in DOMAIN s : j < k => <<s[j], s[k]>> \in ByKey
  BY <1>9 DEF s, S
<1>11. Cardinality(S) \in Nat BY <1>5, FS_CardinalityType
<1>12. \A k \in DOMAIN s : s[k] \in S BY <1>10, ElementOfSeq, <1>11
<1>13. ASSUME NEW j \in DOMAIN s, NEW k \in DOMAIN s, s[j].key = s[k].key PROVE j = k
  <2>1. s[j] \in S /\ s[k] \in S BY <1>12
  <2>2. ~(<<s[j], s[k]>> \in ByKey) /\ ~(<<s[k], s[j]>> \in ByKey)
    BY <1>7, <1>8, <1>13, <2>1
  <2>3. j \in Nat /\ k \in Nat BY <1>10, <1>11
  <2>4. ~(j < k) BY <1>10, <2>2, Zenon
  <2>5. ~(k < j) BY <1>10, <2>2, Zenon
  <2> QED BY <2>3, <2>4, <2>5
<1>14. s \in Seq(Told)
  <2>1. s \in [1 .. Cardinality(S) -> Told] BY <1>4, <1>10, <1>12
  <2> QED BY <1>11, <2>1, SeqDef
<1>15. \A c \in DataFileRefs : \E k \in DOMAIN s : s[k] = c BY <1>4, <1>10
<1> QED BY <1>13, <1>14, <1>15 DEF s

\* What may be claimed depends on the world alone, and what is known of the disk
\* on nothing else.
LEMMA SameTold ==
  ASSUME world' = world
  PROVE  Told' = Told
BY DEF Told, Identities, HeaderKeys, ControlKeys

LEMMA SameWorld ==
  ASSUME world' = world, onDisk' = onDisk, DiskKnown
  PROVE  Told' = Told /\ DiskKnown'
<1>1. \A p : Identities(p)' = Identities(p) BY DEF Identities, HeaderKeys, ControlKeys
<1> QED BY <1>1, SameTold DEF DiskKnown

\* The invariant holds at the start.
LEMMA FilesStart ==
  ASSUME FilesInit
  PROVE  FilesInv
<1>1. dul = <<>> /\ filesPhase = "idle" /\ world \in Worlds BY DEF FilesInit
<1>2. <<>> \in Seq(Told) OBVIOUS
<1>3. DiskKnown
  <2>1. PICK there \in SUBSET DOMAIN world.header : onDisk = [p \in there |-> world.header[p]]
    BY DEF FilesInit
  <2>2. /\ DOMAIN world.header \subseteq Places /\ IsFiniteSet(DOMAIN world.header)
        /\ \A p \in DOMAIN world.header : world.header[p] \in Keys \cup {NoPlace}
    BY <1>1, FilesAssumption DEF IsDatabase
  <2>3. IsFiniteSet(there) BY <2>2, FS_Subset
  <2> QED BY <2>1, <2>2, <2>3, HeaderGives DEF DiskKnown
<1> QED BY <1>1, <1>2, <1>3 DEF FilesInv

\* A bootstrap: what it resolved is resolved again with the list it wrote.
LEMMA WriteKeeps ==
  ASSUME FilesInv, WriteControlDUL
  PROVE  FilesInv'
<1> DEFINE s == Sorted(OfflineFiles, ByKey)
           E == DulClaims'
<1>1. /\ dul' = s /\ listed' = DataFileRefs /\ filesPhase' = "listed"
      /\ world' = world /\ onDisk' = onDisk /\ useCtl' = useCtl
  BY DEF WriteControlDUL
<1>2. s \in Seq(Told) /\ (\A c \in DataFileRefs : \E k \in DOMAIN s : s[k] = c)
      /\ (\A j, k \in DOMAIN s : s[j].key = s[k].key => j = k)
  BY OfflineFilesListed
<1>3. E = [n \in DOMAIN s |-> Claim(s[n].key, Resolved(s[n].path))]
  BY <1>1 DEF DulClaims, Resolved
<1>4. /\ ControlClaims' = ControlClaims
      /\ HeaderClaims(OnPageZero)' = HeaderClaims(OnPageZero)
  BY <1>1 DEF ControlClaims, ControlEntryClaims, Resolved, HeaderClaims, OnPageZero,
              Directory, ByBase, Header
<1>5. AllClaims' = (ControlClaims \o E) \o HeaderClaims(OnPageZero)
  BY <1>4 DEF AllClaims
<1>6. world \in Worlds /\ DiskKnown BY DEF FilesInv
<1>7. world' \in Worlds /\ DiskKnown' /\ dul' \in Seq(Told')
  <2>1. Told' = Told /\ DiskKnown' BY <1>1, <1>6, SameWorld
  <2> QED BY <1>1, <1>2, <1>6, <2>1
<1> HIDE DEF s, E
<1>8. DOMAIN s = 1 .. Len(s) /\ Len(s) \in Nat BY <1>2
<1>9. E \in Seq(Standing)
  <2>1. ASSUME NEW n \in DOMAIN s PROVE Claim(s[n].key, Resolved(s[n].path)) \in Standing
    <3>1. s[n] \in Told BY <1>2, <1>8, ElementOfSeq
    <3>2. s[n].key \in Keys /\ s[n].path \in Places /\ s[n].key \in Identities(s[n].path)
      BY <3>1 DEF Told
    <3> QED BY <1>6, <3>2, ClaimStands
  <2>2. E \in [1 .. Len(s) -> Standing] BY <1>3, <1>8, <2>1
  <2> QED BY <1>8, <2>2, SeqDef
<1>10. ASSUME NEW c \in DataFileRefs PROVE c \in DataFileRefs'
  <2>1. c \in FirstOf(AllClaims) /\ c.key[1] >= UserGroup BY DEF DataFileRefs, AllClaims
  <2>2. AllClaims \in Seq(Standing) /\ ControlClaims \in Seq(Standing)
        /\ DulClaims \in Seq(Standing) /\ HeaderClaims(OnPageZero) \in Seq(Standing)
    BY ClaimsStand
  <2>4. c \in Told /\ c \in Standing BY <2>1, <2>2, FirstIs
  <2>5. c = Claim(c.key, c.path) /\ c.path # NoPlace BY <2>4, PlacesAre
  <2>6. Resolved(c.path) = c.path BY <2>4, <2>5 DEF Standing
  <2>7. PICK k \in DOMAIN s : s[k] = c BY <1>2
  <2>8. E[k] = c /\ DOMAIN E = DOMAIN s BY <1>3, <2>5, <2>6, <2>7
  <2>9. ASSUME NEW j \in DOMAIN E, E[j].key = c.key PROVE j = k
    <3>1. j \in DOMAIN s BY <2>8
    <3>2. E[j].key = s[j].key BY <1>3, <3>1 DEF Claim
    <3> QED BY <1>2, <2>7, <2>9, <3>1, <3>2
  <2>10. AllClaims = (ControlClaims \o DulClaims) \o HeaderClaims(OnPageZero) BY DEF AllClaims
  <2>11. c \in FirstOf(AllClaims')
    <3> DEFINE C == ControlClaims
               D == DulClaims
               H == HeaderClaims(OnPageZero)
    <3>1. c \in FirstOf((C \o D) \o H) BY <2>1, <2>10
    <3>2. k \in DOMAIN E /\ E[k] = c BY <2>8
    <3>3. \A j \in DOMAIN E : E[j].key = c.key => j = k BY <2>9
    <3>4. C \in Seq(Standing) /\ D \in Seq(Standing) /\ H \in Seq(Standing) BY <2>2
    <3> HIDE DEF C, D, H
    <3>5. c \in FirstOf((C \o E) \o H) BY <1>9, <3>1, <3>2, <3>3, <3>4, FirstStays
    <3> QED BY <1>5, <3>5 DEF C, H
  <2>14. DataFileRefs' = {d \in FirstOf(AllClaims') : d.key[1] >= UserGroup}
    BY DEF DataFileRefs, AllClaims, FirstOf
  <2> QED BY <2>1, <2>11, <2>14
<1> QED BY <1>1, <1>7, <1>10 DEF FilesInv

\* An unload resolves what it finds.
LEMMA UnloadKeeps ==
  ASSUME FilesInv, UnloadResolves
  PROVE  FilesInv'
<1>1. /\ refs' = DataFileRefs /\ listed' = listed
      /\ filesPhase' = IF filesPhase \in {"listed", "same"} THEN "same" ELSE "resolved"
      /\ world' = world /\ onDisk' = onDisk /\ useCtl' = useCtl /\ dul' = dul
  BY DEF UnloadResolves
<1>2. DataFileRefs' = DataFileRefs
  <2>1. ControlClaims' = ControlClaims BY <1>1 DEF ControlClaims, ControlEntryClaims, Resolved
  <2>2. DulClaims' = DulClaims BY <1>1 DEF DulClaims, Resolved
  <2>3. HeaderClaims(OnPageZero)' = HeaderClaims(OnPageZero)
    BY <1>1 DEF HeaderClaims, OnPageZero, Directory, ByBase, Header
  <2>4. AllClaims' = AllClaims BY <2>1, <2>2, <2>3 DEF AllClaims
  <2>5. /\ DataFileRefs = {c \in FirstOf(AllClaims) : c.key[1] >= UserGroup}
        /\ DataFileRefs' = {c \in FirstOf(AllClaims') : c.key[1] >= UserGroup}
    BY DEF DataFileRefs, AllClaims, FirstOf
  <2> QED BY <2>4, <2>5
<1>3. world' \in Worlds /\ DiskKnown' /\ dul' \in Seq(Told')
  <2>1. Told' = Told /\ DiskKnown' BY <1>1, SameWorld DEF FilesInv
  <2> QED BY <1>1, <2>1 DEF FilesInv
<1> QED BY <1>1, <1>2, <1>3 DEF FilesInv

\* A file that comes or goes ends what was known.
LEMMA StoredKnown ==
  ASSUME DiskKnown, NEW path \in Places, NEW header,
         header # NoPlace => header \in Keys /\ header \in Identities(path),
         onDisk' = Stored(path, header), world' = world
  PROVE  DiskKnown'
<1>1. /\ DOMAIN onDisk' = DOMAIN onDisk \cup {path}
      /\ \A p \in DOMAIN onDisk' : onDisk'[p] = IF p = path THEN header ELSE onDisk[p]
  BY DEF Stored
<1>2. IsFiniteSet(DOMAIN onDisk') BY <1>1, FS_AddElement DEF DiskKnown
<1>3. \A p : Identities(p)' = Identities(p) BY DEF Identities, HeaderKeys, ControlKeys
<1>4. ASSUME NEW p \in DOMAIN onDisk', onDisk'[p] # NoPlace
      PROVE  onDisk'[p] \in Keys /\ onDisk'[p] \in Identities(p)'
  BY <1>1, <1>3, <1>4 DEF DiskKnown
<1> QED BY <1>1, <1>2, <1>4 DEF DiskKnown

LEMMA ChangeKeeps ==
  ASSUME FilesInv, FilesChange
  PROVE  FilesInv'
<1>1. filesPhase' = "idle" /\ world' = world /\ dul' = dul BY DEF FilesChange
<1>2. DiskKnown /\ world \in Worlds BY DEF FilesInv
<1>3. DiskKnown'
  <2>1. CASE UNCHANGED onDisk BY <1>1, <1>2, <2>1, SameWorld
  <2>2. ASSUME NEW path \in DOMAIN onDisk, onDisk' = Stored(<<Here, path[2]>>, onDisk[path])
        PROVE  DiskKnown'
    <3>1. path \in Places /\ <<Here, path[2]>> \in Places BY <1>2, PlacesAre DEF DiskKnown
    <3>2. onDisk[path] # NoPlace =>
            onDisk[path] \in Keys /\ onDisk[path] \in Identities(<<Here, path[2]>>)
      BY <1>2, <3>1, IdentitiesMove DEF DiskKnown
    <3> QED BY <1>1, <1>2, <2>2, <3>1, <3>2, StoredKnown
  <2>3. ASSUME NEW path \in DOMAIN onDisk,
               onDisk' = [p \in DOMAIN onDisk \ {path} |-> onDisk[p]]
        PROVE  DiskKnown'
    <3>1. IsFiniteSet(DOMAIN onDisk \ {path}) BY <1>2, FS_Subset DEF DiskKnown
    <3>2. \A p : Identities(p)' = Identities(p)
      BY <1>1 DEF Identities, HeaderKeys, ControlKeys
    <3> QED BY <1>2, <2>3, <3>1, <3>2 DEF DiskKnown
  <2>4. ASSUME NEW path \in DOMAIN world.header, onDisk' = Stored(path, world.header[path])
        PROVE  DiskKnown'
    <3>1. path \in Places /\ world.header[path] \in Keys \cup {NoPlace}
      BY <1>2, FilesAssumption DEF IsDatabase
    <3>2. world.header[path] # NoPlace => world.header[path] \in Identities(path)
      BY <3>1, HeaderGives
    <3> QED BY <1>1, <1>2, <2>4, <3>1, <3>2, StoredKnown
  <2> QED BY <2>1, <2>2, <2>3, <2>4 DEF FilesChange
<1>4. world' \in Worlds /\ dul' \in Seq(Told')
  <2>1. Told' = Told BY <1>1, SameTold
  <2> QED BY <1>1, <2>1 DEF FilesInv
<1> QED BY <1>1, <1>3, <1>4 DEF FilesInv

\* Nothing changes.
LEMMA StillKeeps ==
  ASSUME FilesInv, UNCHANGED filesVars
  PROVE  FilesInv'
<1>1. /\ refs' = refs /\ listed' = listed /\ filesPhase' = filesPhase
      /\ world' = world /\ onDisk' = onDisk /\ useCtl' = useCtl /\ dul' = dul
  BY DEF filesVars
<1>2. DataFileRefs' = DataFileRefs
  <2>1. ControlClaims' = ControlClaims BY <1>1 DEF ControlClaims, ControlEntryClaims, Resolved
  <2>2. DulClaims' = DulClaims BY <1>1 DEF DulClaims, Resolved
  <2>3. HeaderClaims(OnPageZero)' = HeaderClaims(OnPageZero)
    BY <1>1 DEF HeaderClaims, OnPageZero, Directory, ByBase, Header
  <2>4. AllClaims' = AllClaims BY <2>1, <2>2, <2>3 DEF AllClaims
  <2>5. /\ DataFileRefs = {c \in FirstOf(AllClaims) : c.key[1] >= UserGroup}
        /\ DataFileRefs' = {c \in FirstOf(AllClaims') : c.key[1] >= UserGroup}
    BY DEF DataFileRefs, AllClaims, FirstOf
  <2> QED BY <2>4, <2>5
<1>3. world' \in Worlds /\ DiskKnown' /\ dul' \in Seq(Told')
  <2>1. Told' = Told /\ DiskKnown' BY <1>1, SameWorld DEF FilesInv
  <2> QED BY <1>1, <2>1 DEF FilesInv
<1> QED BY <1>1, <1>2, <1>3 DEF FilesInv

\* The invariant says that each file is served.
LEMMA ServesIn ==
  ASSUME FilesInv
  PROVE  EachFileServed
<1>1. CASE filesPhase \in {"same", "resolved"}
  <2>1. refs = DataFileRefs BY <1>1 DEF FilesInv
  <2>2. ASSUME NEW c \in refs
        PROVE  /\ c.key \in Identities(c.path)
               /\ (\A k, l \in Identities(c.path) : k = l) => SaysSo(c)
    <3>1. c \in Told /\ c.path \in DOMAIN onDisk BY <2>1, ReferencesServe
    <3>2. c.key \in Identities(c.path) BY <3>1 DEF Told
    <3>3. Header(c.path) # NoPlace => Header(c.path) \in Identities(c.path)
      BY <3>1 DEF FilesInv, DiskKnown, Header
    <3> QED BY <3>2, <3>3 DEF SaysSo
  <2>3. \A b \in Directory :
          Header(<<Here, b>>) # NoPlace /\ Header(<<Here, b>>)[1] >= UserGroup
            => \E c \in refs : c.key = Header(<<Here, b>>)
    BY <2>1, ReferencesServe DEF Readable
  <2>4. filesPhase = "same" => listed \subseteq refs BY <2>1 DEF FilesInv
  <2> QED BY <2>2, <2>3, <2>4 DEF EachFileServed
<1>2. CASE filesPhase \notin {"same", "resolved"} BY <1>2 DEF EachFileServed
<1> QED BY <1>1, <1>2

\* Whatever files there are, whatever dm.ctl and their names say of them and
\* however they come and go: what is read for an identity was given it by
\* its first page, its name or dm.ctl; where these give it no other identity its
\* first page does not deny it; every identity found in data_dir is represented,
\* and an unload after a bootstrap reads what the bootstrap took, as long as no
\* file moves (resolveDataFiles, ScanOfflineDataFiles).
THEOREM FilesAreServed == FilesSpec => []EachFileServed
<1>1. FilesInit => FilesInv BY FilesStart
<1>2. FilesInv /\ [FilesNext]_filesVars => FilesInv'
  BY WriteKeeps, UnloadKeeps, ChangeKeeps, StillKeeps DEF FilesNext
<1>3. FilesInv => EachFileServed BY ServesIn
<1> QED BY <1>1, <1>2, <1>3, PTL DEF FilesSpec

\* What was resolved, now or at the last bootstrap, and what control.dul says are
\* claims to files the database knows.
FilesKnown ==
  /\ refs \subseteq Told /\ listed \subseteq Told
  /\ \A n \in DOMAIN dul : dul[n] \in Told

LEMMA KnownStays == FilesInv /\ FilesInv' /\ FilesKnown /\ [FilesNext]_filesVars => FilesKnown'
<1> SUFFICES ASSUME FilesInv, FilesInv', FilesKnown, [FilesNext]_filesVars PROVE FilesKnown'
  OBVIOUS
<1>1. /\ world' = world /\ refs' \in {refs, DataFileRefs} /\ listed' \in {listed, DataFileRefs}
  BY DEF FilesNext, filesVars, WriteControlDUL, UnloadResolves, FilesChange
<1>2. Told' = Told BY <1>1, SameTold
<1>3. DataFileRefs \subseteq Told BY ReferencesServe
<1>4. \A n \in DOMAIN dul' : dul'[n] \in Told'
  <2>1. dul' \in Seq(Told') BY DEF FilesInv
  <2> QED BY <2>1, ElementOfSeq
<1> QED BY <1>1, <1>2, <1>3, <1>4 DEF FilesKnown

\* What is resolved are places of files, and control.dul names no file that was
\* not there.
THEOREM FilesTypeCorrect == FilesSpec => []FilesTypeOK
<1>1. FilesInit => FilesInv /\ FilesKnown
  <2> SUFFICES ASSUME FilesInit PROVE FilesInv /\ FilesKnown OBVIOUS
  <2>1. refs = {} /\ listed = {} /\ DOMAIN dul = {} BY DEF FilesInit
  <2> QED BY <2>1, FilesStart DEF FilesKnown
<1>2. FilesInv /\ [FilesNext]_filesVars => FilesInv'
  BY WriteKeeps, UnloadKeeps, ChangeKeeps, StillKeeps DEF FilesNext
<1>3. FilesInv /\ FilesInv' /\ FilesKnown /\ [FilesNext]_filesVars => FilesKnown' BY KnownStays
<1>4. FilesInv /\ FilesKnown => FilesTypeOK
  <2> SUFFICES ASSUME FilesInv, FilesKnown PROVE FilesTypeOK OBVIOUS
  <2>1. /\ \A p \in Places : p # NoPlace
        /\ \A c \in Told : c.path \in Places
    BY PlacesAre
  <2>2. \A c \in refs \cup listed : c.path \in Places BY <2>1 DEF FilesKnown
  <2>3. \A n \in DOMAIN dul : dul[n].path # NoPlace BY <2>1 DEF FilesKnown
  <2> QED BY <2>2, <2>3 DEF FilesTypeOK, FilesInv, DiskKnown
<1> QED BY <1>1, <1>2, <1>3, <1>4, PTL DEF FilesSpec

(* Copies of data files (OfflineCopy) *)

\* What a whole temporary file is, and what is known of the name between the
\* last look and the rename
CopyInv ==
  /\ CopyTypeOK
  /\ temp = "partial" => step \in {"write", "littered", "killed"}
  /\ temp = "whole" => step \in {"check", "rename", "littered", "killed"}
  /\ step \in {"check", "rename"} => temp = "whole"
  /\ \A b \in CopyNames : target[b] # "partial"
  /\ lost \subseteq late
  /\ step = "rename" /\ target[CopyName] = "foreign" => CopyName \in late

\* A plan is made only of a list that is not empty.
LEMMA CopyInvHoldsAtFirst ==
  ASSUME CopyInit
  PROVE  CopyInv
<1>1. 1 \in DOMAIN CopySources
  BY CopyAssumption
<1>2. \A b \in CopyNames : target[b] \in {"absent", "foreign"}
  BY DEF CopyInit
<1> QED BY <1>1, <1>2 DEF CopyInit, CopyInv, CopyTypeOK

\* Every call of the file system, every failure and every intruder keeps it.
LEMMA CopyInvIsKept ==
  ASSUME CopyInv, [CopyNext]_copyVars
  PROVE  CopyInv'
<1> USE DEF CopyInv, CopyTypeOK
<1>0. CopyName \in CopyNames
  BY DEF CopyName, CopyNames
<1>1. CASE PlanCopies
  BY <1>1 DEF PlanCopies, CopyName, CopyNames
<1>2. CASE CreateTemporary
  BY <1>2 DEF CreateTemporary, CopyName, CopyNames
<1>3. CASE WriteAll
  BY <1>3 DEF WriteAll, GiveUp, CopyName, CopyNames
<1>4. CASE CheckAgain
  BY <1>4 DEF CheckAgain, GiveUp, CopyName, CopyNames
<1>5. CASE Publish
  <2>1. CASE GiveUp /\ UNCHANGED <<target, next, lost>>
    BY <1>5, <2>1 DEF Publish, GiveUp, CopyName, CopyNames
  <2>2. CASE ~(GiveUp /\ UNCHANGED <<target, next, lost>>)
    <3>1. /\ target' = [target EXCEPT ![CopyName] = "whole"]
          /\ lost' = lost \cup {b \in {CopyName} : target[b] = "foreign"}
          /\ temp' = "absent" /\ late' = late
          /\ step' \in {"look", "ended"}
          /\ next' \in {next, next + 1} /\ (next' # next => next < Len(CopySources))
      BY <1>5, <2>2 DEF Publish
    <3>2. target' \in [CopyNames -> {"absent", "partial", "whole", "foreign"}]
      BY <1>0, <3>1
    <3>3. next' \in DOMAIN CopySources
      BY <3>1, CopyAssumption
    <3>4. \A b \in CopyNames : target'[b] # "partial"
      BY <1>0, <3>1
    <3>5. lost' \subseteq late'
      BY <1>5, <3>1 DEF Publish
    <3> QED BY <3>1, <3>2, <3>3, <3>4, <3>5
  <2> QED BY <2>1, <2>2
<1>6. CASE Intrude
  <2>1. PICK b \in CopyNames :
           /\ target[b] = "absent"
           /\ target' = [target EXCEPT ![b] = "foreign"]
           /\ late' = IF step = "rename" /\ b = CopyName THEN late \cup {b} ELSE late
    BY <1>6 DEF Intrude
  <2>2. UNCHANGED <<temp, next, step, lost>>
    BY <1>6 DEF Intrude
  <2>3. \A c \in CopyNames : target'[c] # "partial"
    BY <2>1
  <2>4. step' = "rename" /\ target'[CopyName'] = "foreign" => CopyName' \in late'
    BY <1>0, <2>1, <2>2 DEF CopyName
  <2> QED BY <2>1, <2>2, <2>3, <2>4
<1>7. CASE KillCopy
  BY <1>7 DEF KillCopy, CopyName
<1>8. CASE UNCHANGED copyVars
  BY <1>8 DEF copyVars, CopyName
<1> QED BY <1>1, <1>2, <1>3, <1>4, <1>5, <1>6, <1>7, <1>8 DEF CopyNext

\* Every variable of the copy keeps its type, for any list of files and any
\* number of intruders (CopyOfflineFile).
THEOREM CopyTypeCorrect ==
  CopySpec => []CopyTypeOK
<1>1. CopyInit => CopyInv
  BY CopyInvHoldsAtFirst
<1>2. CopyInv /\ [CopyNext]_copyVars => CopyInv'
  BY CopyInvIsKept
<1>3. CopyInv => CopyTypeOK
  BY DEF CopyInv
<1> QED BY <1>1, <1>2, <1>3, PTL DEF CopySpec

\* Under the name of a data file there is a complete copy, a file of somebody
\* else, or nothing; only a file that appears between the last look and the
\* rename is replaced; and no temporary file is left but by a kill or where it
\* could not be removed (CopyOfflineFile, copyASMDataFiles).
THEOREM CopiesAlwaysWhole ==
  CopySpec => []CopiesWhole
<1>1. CopyInit => CopyInv
  BY CopyInvHoldsAtFirst
<1>2. CopyInv /\ [CopyNext]_copyVars => CopyInv'
  BY CopyInvIsKept
<1>3. CopyInv => CopiesWhole
  BY DEF CopyInv, CopyTypeOK, CopiesWhole
<1> QED BY <1>1, <1>2, <1>3, PTL DEF CopySpec
=============================================================================
