--------------------------- MODULE RecoveryProofs ---------------------------
(***************************************************************************)
(* Recovery without a dictionary (StorageRescue): what a recovery leaves   *)
(* behind, for every set of raw files, whatever fails, whenever another    *)
(* program creates a file and whenever the process is killed.              *)
(*                                                                         *)
(* Three invariants carry the proof.  RescueTypeOK types the state.        *)
(* RescueLogged says how far the pages are read: the evidence has one line *)
(* for each row wanted that lies behind the cursor, and the rows kept are  *)
(* those it calls exported; both lists grow by a page at a time, and       *)
(* KeptConcat and KeptAlike say that selecting commutes with that.         *)
(* RescuePlaced says what stands in the output directory: of the files     *)
(* tried so far those that are staged, with the content of the lists, and  *)
(* nothing once a publication has failed.                                  *)
(*                                                                         *)
(* The files an export writes (OutputFiles): what they hold when they are  *)
(* closed, for every number of tables, rows and columns and every size of  *)
(* the buffers and phases.  One invariant, OutInv, carries the proof: what *)
(* a file has on disk and in its buffer, together, is at all times the     *)
(* rows written to it (FilesOf), in a dump cut into phases that follow     *)
(* each other without a gap (DumpAt).  The property itself only speaks of  *)
(* files that are closed, so it says nothing a step could build upon.      *)
(***************************************************************************)
EXTENDS StorageRescue, OutputFiles, Induction

\* What is published, in its order
LEMMA NamesAre ==
  /\ Len(Names) = 3
  /\ Names[1] = "output" /\ Names[2] = "control" /\ Names[3] = "evidence"
  /\ ToSet(Names) = {"output", "control", "evidence"}
<1>1. Len(Names) = 3 BY DEF Names
<1>2. Names[1] = "output" /\ Names[2] = "control" /\ Names[3] = "evidence" BY DEF Names
<1>3. DOMAIN Names = 1 .. 3 BY DEF Names
<1>4. ToSet(Names) = {Names[1], Names[2], Names[3]} BY <1>3 DEF ToSet
<1> QED BY <1>1, <1>2, <1>4

LEMMA RawTypes ==
  ASSUME RescueTypeOK
  PROVE  /\ raw \in StoredWorld
         /\ RawFiles \in Seq(StoredFile)
         /\ \A f \in DOMAIN RawFiles :
              /\ RawFiles[f].pages \in Seq(StoredPage)
              /\ \A n \in DOMAIN RawFiles[f].pages : PageAt(f, n) \in StoredPage
<1>1. raw \in StoredWorld BY RescueAssumption DEF RescueAssumption, RescueTypeOK
<1>2. RawFiles \in Seq(StoredFile) BY <1>1 DEF RawFiles, StoredWorld
<1>3. ASSUME NEW f \in DOMAIN RawFiles PROVE RawFiles[f].pages \in Seq(StoredPage)
  <2>1. RawFiles[f] \in StoredFile BY <1>2, ElementOfSeq
  <2> QED BY <2>1 DEF StoredFile
<1>4. ASSUME NEW f \in DOMAIN RawFiles, NEW n \in DOMAIN RawFiles[f].pages
      PROVE  PageAt(f, n) \in StoredPage
  BY <1>3, ElementOfSeq DEF PageAt
<1> QED BY <1>1, <1>2, <1>3, <1>4

LEMMA GivenTyped ==
  ASSUME NEW p \in StoredPage PROVE Given(p) \in Seq(StoredRow)
<1>1. p.rows \in Seq(StoredRow) BY DEF StoredPage
<1> QED BY <1>1, KeptFacts DEF Given

LEMMA LineTyped == ASSUME NEW r \in StoredRow PROVE Line(r) \in Lines
BY DEF Line, Lines, StoredRow

\* The lines and rows that one page adds
Decodable == {r \in StoredRow : Decodes(r)}
LinesOf(rows) == [i \in DOMAIN rows |-> Line(rows[i])]

LEMMA LinesTyped ==
  ASSUME NEW rows \in Seq(StoredRow)
  PROVE  /\ LinesOf(rows) \in Seq(Lines)
         /\ Len(LinesOf(rows)) = Len(rows)
         /\ \A i \in 1 .. Len(rows) : LinesOf(rows)[i] = Line(rows[i])
<1>1. Len(rows) \in Nat /\ DOMAIN rows = 1 .. Len(rows) OBVIOUS
<1>2. \A i \in 1 .. Len(rows) : Line(rows[i]) \in Lines BY LineTyped
<1> QED BY <1>1, <1>2, IsASeq DEF LinesOf

RawStays == raw' = raw /\ outputs' = outputs /\ intruded' = intruded

LEMMA CursorStands ==
  ASSUME RescueTypeOK, InFile
  PROVE  /\ rescue.file \in DOMAIN RawFiles
         /\ rescue.page \in DOMAIN RawFiles[rescue.file].pages
         /\ rescue.file \in Nat \ {0} /\ rescue.page \in Nat \ {0}
<1>1. rescue.file \in Nat \ {0} /\ rescue.page \in Nat \ {0}
  BY DEF RescueTypeOK, RescueStates
<1>2. rescue.file \in DOMAIN RawFiles
  <2>1. Len(RawFiles) \in Nat /\ DOMAIN RawFiles = 1 .. Len(RawFiles)
    BY RawTypes, LenProperties
  <2> QED BY <1>1, <2>1 DEF InFile, Cursor
<1>3. RawFiles[rescue.file].pages \in Seq(StoredPage) BY <1>2, RawTypes
<1>4. rescue.page \in DOMAIN RawFiles[rescue.file].pages
  <2> DEFINE s == RawFiles[rescue.file].pages
  <2>1. Len(s) \in Nat /\ DOMAIN s = 1 .. Len(s) BY <1>3, LenProperties
  <2>2. rescue.page <= Len(s) BY DEF InFile
  <2> HIDE DEF s
  <2> QED BY <1>1, <2>1, <2>2 DEF s
<1> QED BY <1>1, <1>2, <1>4

LEMMA MinTyped ==
  ASSUME NEW a \in Nat, NEW b \in Nat PROVE Min({a, b}) \in 0 .. a
<1>1. \E x \in {a, b} : \A y \in {a, b} : x <= y OBVIOUS
<1>2. Min({a, b}) \in {a, b} /\ \A y \in {a, b} : Min({a, b}) <= y BY <1>1 DEF Min
<1> QED BY <1>2

LEMMA RescueTypesInit == RescueInit => RescueTypeOK
<1> SUFFICES ASSUME RescueInit PROVE RescueTypeOK OBVIOUS
<1>1. rescue \in RescueStates /\ rescue.phase = "idle"
  BY RescueAssumption, NamesAre DEF RescueInit, Idle, RescueStates, RescueAssumption
<1>2. /\ outputs = [n \in ToSet(Names) |-> outputs[n]]
      /\ \A n \in ToSet(Names) : outputs[n] = Absent
  BY DEF RescueInit
<1>3. \A n \in ToSet(Names) :
        Absent \in [by : {Nobody, Another} \cup (1 .. RescueRuns),
                    rows : IF n = "evidence" THEN Seq(Lines) ELSE Seq(STRING)]
  BY DEF Absent
<1>4. raw \in RawWorlds /\ intruded \subseteq ToSet(Names) BY DEF RescueInit
<1> HIDE DEF RescueInit
<1> QED BY <1>1, <1>2, <1>3, <1>4 DEF RescueTypeOK

\* Whatever a step does to a run, it has been started.
LEMMA StartedStep ==
  ASSUME RescueTypeOK, [RescueNext]_rescueVars
  PROVE  rescue'.phase # "idle" => rescue'.run # 0
<1>t. rescue \in RescueStates /\ (rescue.phase # "idle" => rescue.run # 0)
  BY DEF RescueTypeOK
<1>1. CASE StartRescue
  <2>1. rescue.run \in Nat BY <1>t DEF RescueStates
  <2> QED BY <1>1, <2>1 DEF StartRescue, Idle
<1>2. CASE RecoverPage BY <1>2, <1>t DEF RecoverPage, InFile, Cursor, Step, Stop, RescueStates
<1>3. CASE InventoryPage
  BY <1>3, <1>t DEF InventoryPage, InFile, Cursor, Step, RescueStates
<1>4. CASE NextFile BY <1>4, <1>t DEF NextFile, InFile, Cursor, RescueStates
<1>5. CASE FinishScan \/ FinishRescue
  BY <1>5, <1>t DEF FinishScan, FinishRescue, Stop, RescueStates
<1>6. CASE PublishNext BY <1>6, <1>t DEF PublishNext, Stop, RescueStates
<1>7. CASE RenameNext BY <1>7, <1>t DEF RenameNext, Stop, RescueStates
<1>8. CASE Killed BY <1>8, <1>t DEF Killed, Busy, Stop, RescueStates
<1>9. CASE IntrudeOutput \/ UNCHANGED rescueVars
  BY <1>9, <1>t DEF IntrudeOutput, rescueVars
<1> QED
  BY <1>1, <1>2, <1>3, <1>4, <1>5, <1>6, <1>7, <1>8, <1>9 DEF RescueNext

LEMMA StepTyped ==
  ASSUME NEW r \in RescueStates PROVE Step(r) \in RescueStates
<1> DEFINE x == r.page + 1
<1>1. x \in Nat \ {0} BY DEF RescueStates
<1> HIDE DEF x
<1>2. [r EXCEPT !.page = x] \in RescueStates BY <1>1 DEF RescueStates
<1> QED BY <1>2 DEF Step, x

LEMMA ContentTyped ==
  ASSUME RescueTypeOK, rescue.run # 0, NEW name \in ToSet(Names)
  PROVE  Content(name) \in [by : {Nobody, Another} \cup (1 .. RescueRuns),
                  rows : IF name = "evidence" THEN Seq(Lines) ELSE Seq(STRING)]
<1>1. /\ rescue.run \in 1 .. RescueRuns
      /\ rescue.rows \in Seq(StoredRow) /\ rescue.log \in Seq(Lines)
  BY RescueAssumption DEF RescueTypeOK, RescueStates, RescueAssumption
<1>2. [i \in DOMAIN rescue.rows |-> rescue.rows[i].id] \in Seq(STRING)
  <2>1. Len(rescue.rows) \in Nat /\ DOMAIN rescue.rows = 1 .. Len(rescue.rows)
        /\ \A i \in 1 .. Len(rescue.rows) : rescue.rows[i] \in StoredRow
    BY <1>1, LenProperties, ElementOfSeq
  <2>2. \A i \in 1 .. Len(rescue.rows) : rescue.rows[i].id \in STRING
    BY <2>1 DEF StoredRow
  <2> QED BY <2>1, <2>2, IsASeq
<1>3. <<>> \in Seq(STRING) OBVIOUS
<1> QED BY <1>1, <1>2, <1>3 DEF Content, Mine

LEMMA RescueTypesStep == RescueTypeOK /\ [RescueNext]_rescueVars => RescueTypeOK'
<1> SUFFICES ASSUME RescueTypeOK, [RescueNext]_rescueVars PROVE RescueTypeOK' OBVIOUS
<1>t. rescue \in RescueStates /\ raw \in StoredWorld BY RawTypes DEF RescueTypeOK
<1>r. rescue'.phase # "idle" => rescue'.run # 0 BY StartedStep
<1>0. ASSUME rescue' \in RescueStates, RawStays PROVE RescueTypeOK'
  BY <1>0, <1>r DEF RescueTypeOK, RawStays
<1>1. CASE UNCHANGED rescueVars BY <1>1 DEF rescueVars, RescueTypeOK
<1>2. CASE StartRescue
  <2>1. rescue.run + 1 \in 0 .. RescueRuns
    BY <1>2, <1>t, RescueAssumption DEF StartRescue, RescueStates, RescueAssumption
  <2> DEFINE fresh == [Idle EXCEPT !.run = rescue.run + 1, !.invalid = CutEnd(1)]
  <2>2. \A ph \in {"scanning", "failed"} : [fresh EXCEPT !.phase = ph] \in RescueStates
    <3> DEFINE run == rescue.run + 1
               bad == CutEnd(1)
    <3>1. Idle \in RescueStates
      BY RescueAssumption, NamesAre DEF Idle, RescueStates, RescueAssumption
    <3>2. run \in 0 .. RescueRuns /\ bad \in Nat BY <2>1 DEF CutEnd
    <3> HIDE DEF run, bad
    <3>3. \A ph \in {"scanning", "failed"} :
            [[Idle EXCEPT !.run = run, !.invalid = bad] EXCEPT !.phase = ph] \in RescueStates
      BY <3>1, <3>2 DEF RescueStates
    <3> QED BY <3>3 DEF run, bad
  <2>3. rescue' \in RescueStates BY <1>2, <2>2 DEF StartRescue
  <2> QED BY <1>0, <1>2, <2>3 DEF StartRescue, RawStays
<1>3. CASE RecoverPage
  <2> DEFINE p == PageAt(rescue.file, rescue.page)
             rows == Given(p)
  <2>1. p \in StoredPage BY <1>3, CursorStands, RawTypes DEF RecoverPage
  <2>2. rows \in Seq(StoredRow) BY <2>1, GivenTyped
  <2>3. LinesOf(rows) \in Seq(Lines) /\ Kept(rows, Decodable) \in Seq(StoredRow)
    BY <2>2, LinesTyped, KeptFacts
  <2>4. \/ rescue' = Step([rescue EXCEPT !.pages = @ + 1,
                !.rows = @ \o Kept(rows, Decodable), !.log = @ \o LinesOf(rows)])
        \/ rescue' = Step(rescue)
        \/ Stop("failed")
    BY <1>3 DEF RecoverPage, Decodable, LinesOf
  <2> DEFINE ps == rescue.pages + 1
             rs == rescue.rows \o Kept(rows, Decodable)
             ls == rescue.log \o LinesOf(rows)
  <2>5. ps \in Nat /\ rs \in Seq(StoredRow) /\ ls \in Seq(Lines)
    BY <1>t, <2>3, ConcatProperties DEF RescueStates
  <2>6. \/ rescue' = Step([rescue EXCEPT !.pages = ps, !.rows = rs, !.log = ls])
        \/ rescue' = Step(rescue)
        \/ Stop("failed")
    BY <2>4
  <2> HIDE DEF ps, rs, ls
  <2>7. [rescue EXCEPT !.pages = ps, !.rows = rs, !.log = ls] \in RescueStates
    BY <1>t, <2>5 DEF RescueStates
  <2>8. [rescue EXCEPT !.phase = "failed"] \in RescueStates BY <1>t DEF RescueStates
  <2>9. rescue' \in RescueStates BY <1>t, <2>6, <2>7, <2>8, StepTyped DEF Stop
  <2> QED BY <1>0, <1>3, <2>9 DEF RecoverPage, RawStays
<1>4. CASE InventoryPage
  <2> DEFINE f == rescue.file
             p == PageAt(f, rescue.page)
             was == IF Bucket(f, p) = {}
                    THEN [key |-> <<<<f, p.storage>>, p.kind>>, pages |-> 0,
                          slots |-> 0, samples |-> 0]
                    ELSE CHOOSE b \in Bucket(f, p) : TRUE
             slots == Cardinality({i \in DOMAIN p.rows : p.rows[i].slotted /\ ~p.rows[i].deleted})
             readable == IsLeaf(f, rescue.page) /\ p.sound
             counted == [was EXCEPT
                !.pages = @ + 1, !.slots = @ + IF readable THEN slots ELSE 0,
                !.samples = IF readable THEN Min({SampleRows, @ + Len(p.rows)}) ELSE @]
  <2>1. p \in StoredPage /\ f \in Nat BY <1>4, CursorStands, RawTypes DEF InventoryPage
  <2>2. p.rows \in Seq(StoredRow) /\ p.storage \in Nat /\ p.kind \in STRING
    BY <2>1 DEF StoredPage
  <2>3. slots \in Nat /\ Len(p.rows) \in Nat
    <3>1. DOMAIN p.rows = 1 .. Len(p.rows) /\ Len(p.rows) \in Nat BY <2>2, LenProperties
    <3>2. IsFiniteSet(DOMAIN p.rows) BY <3>1, FS_Interval
    <3> QED BY <3>1, <3>2, FS_Subset, FS_CardinalityType
  <2>4. was \in Buckets
    <3>1. CASE Bucket(f, p) = {}
      <4>1. 0 \in 0 .. SampleRows BY RescueAssumption DEF RescueAssumption
      <4> QED BY <2>1, <2>2, <3>1, <4>1 DEF Buckets
    <3>2. CASE Bucket(f, p) # {}
      <4>1. was \in Bucket(f, p) BY <3>2
      <4> QED BY <1>t, <4>1 DEF Bucket, RescueStates
    <3> QED BY <3>1, <3>2
  <2> HIDE DEF was, slots, readable, p, f
  <2>5. counted \in Buckets
    <3>1. was.samples \in Nat /\ was.slots \in Nat /\ was.pages \in Nat
      BY <2>4 DEF Buckets
    <3>2. Min({SampleRows, was.samples + Len(p.rows)}) \in 0 .. SampleRows
      BY <2>3, <3>1, MinTyped, RescueAssumption DEF RescueAssumption
    <3> DEFINE m == Min({SampleRows, was.samples + Len(p.rows)})
    <3> HIDE DEF m
    <3>3. m \in 0 .. SampleRows BY <3>2 DEF m
    <3> DEFINE x == was.pages + 1
               y == was.slots + IF readable THEN slots ELSE 0
               z == IF readable THEN m ELSE was.samples
    <3>4. x \in Nat /\ y \in Nat /\ z \in 0 .. SampleRows
      BY <2>3, <2>4, <3>1, <3>3 DEF Buckets
    <3> HIDE DEF x, y, z
    <3>5. [was EXCEPT !.pages = x, !.slots = y, !.samples = z] \in Buckets
      BY <2>4, <3>4 DEF Buckets
    <3> QED BY <3>5 DEF m, x, y, z
  <2> HIDE DEF counted
  <2>6. \/ rescue' = Step(rescue)
        \/ rescue' = Step([rescue EXCEPT !.invalid = @ + 1])
        \/ \E k \in {0, 1} : rescue' = Step([rescue EXCEPT
               !.buckets = (@ \ Bucket(f, p)) \cup {counted}, !.invalid = @ + k])
    BY <1>4, Zenon DEF InventoryPage, f, p, was, slots, readable, counted
  <2> DEFINE bs == (rescue.buckets \ Bucket(f, p)) \cup {counted}
  <2>7. /\ bs \in SUBSET Buckets /\ rescue.invalid \in Nat
        /\ \A k \in {0, 1} : rescue.invalid + k \in Nat
    BY <1>t, <2>5 DEF RescueStates
  <2>8. \A x \in Nat : /\ [rescue EXCEPT !.invalid = x] \in RescueStates
                       /\ [rescue EXCEPT !.buckets = bs, !.invalid = x] \in RescueStates
    <3> HIDE DEF bs
    <3> QED BY <1>t, <2>7 DEF RescueStates
  <2>9. ASSUME rescue' = Step(rescue) PROVE rescue' \in RescueStates
    BY <1>t, <2>9, StepTyped
  <2>10. ASSUME rescue' = Step([rescue EXCEPT !.invalid = @ + 1])
         PROVE  rescue' \in RescueStates
    BY <2>7, <2>8, <2>10, StepTyped
  <2>11. ASSUME NEW k \in {0, 1}, rescue' = Step([rescue EXCEPT
                  !.buckets = bs, !.invalid = @ + k])
         PROVE  rescue' \in RescueStates
    BY <2>7, <2>8, <2>11, StepTyped
  <2>12. rescue' \in RescueStates BY <2>6, <2>9, <2>10, <2>11
  <2> QED BY <1>0, <1>4, <2>12 DEF InventoryPage, RawStays
<1>5. CASE NextFile
  <2>1. rescue' \in RescueStates
    <3> DEFINE x == rescue.file + 1
               y == 1
               z == rescue.invalid + CutEnd(x)
    <3>1. x \in Nat \ {0} /\ y \in Nat \ {0} /\ z \in Nat BY <1>t DEF RescueStates, CutEnd
    <3> HIDE DEF x, y, z
    <3>2. [rescue EXCEPT !.file = x, !.page = y, !.invalid = z] \in RescueStates
      BY <1>t, <3>1 DEF RescueStates
    <3> QED BY <1>5, <3>2 DEF NextFile, x, y, z
  <2> QED BY <1>0, <1>5, <2>1 DEF NextFile, RawStays
<1>7. \A x \in 1 .. Len(Names) + 1, m \in SUBSET ToSet(Names) :
        /\ [rescue EXCEPT !.next = x] \in RescueStates
        /\ [rescue EXCEPT !.next = x, !.made = m] \in RescueStates
  BY <1>t DEF RescueStates
<1>8. \A how \in {"publishing", "done", "failed", "killed"} :
        Stop(how) => rescue' \in RescueStates
  BY <1>t DEF RescueStates, Stop
<1>9. ASSUME rescue.next <= Len(Names), NEW name, name = Names[rescue.next]
      PROVE  /\ name \in ToSet(Names)
             /\ [rescue EXCEPT !.next = @ + 1] \in RescueStates
             /\ [rescue EXCEPT !.next = @ + 1, !.made = @ \cup {name}] \in RescueStates
  <2>1. rescue.next \in 1 .. 4 /\ rescue.made \subseteq ToSet(Names)
    BY <1>t, NamesAre DEF RescueStates
  <2>2. name \in ToSet(Names) /\ rescue.next + 1 \in 1 .. Len(Names) + 1
    BY <1>9, <2>1, NamesAre
  <2> QED BY <1>7, <2>1, <2>2
<1> DEFINE Contents(n) ==
             [by : {Nobody, Another} \cup (1 .. RescueRuns),
              rows : IF n = "evidence" THEN Seq(Lines) ELSE Seq(STRING)]
<1>o. ASSUME outputs' = [n \in ToSet(Names) |-> outputs'[n]],
             \A n \in ToSet(Names) : outputs'[n] \in Contents(n),
             rescue' \in RescueStates, raw' = raw, intruded' \subseteq ToSet(Names)
      PROVE  RescueTypeOK'
  BY <1>o, <1>r DEF RescueTypeOK
<1>w. /\ outputs = [n \in ToSet(Names) |-> outputs[n]]
      /\ \A n \in ToSet(Names) : outputs[n] \in Contents(n)
      /\ intruded \subseteq ToSet(Names) /\ raw' = raw
  BY DEF RescueTypeOK, RescueNext, StartRescue, RecoverPage, InventoryPage, NextFile,
    FinishScan, PublishNext, RenameNext, FinishRescue, IntrudeOutput, Killed, rescueVars
<1>e. ASSUME NEW b, NEW n \in ToSet(Names), outputs' = [outputs EXCEPT ![n] = b],
             b \in Contents(n), rescue' \in RescueStates, intruded' \subseteq ToSet(Names)
      PROVE  RescueTypeOK'
  <2> HIDE DEF Contents
  <2>1. /\ outputs' = [m \in ToSet(Names) |-> outputs'[m]]
        /\ \A m \in ToSet(Names) : outputs'[m] \in Contents(m)
    BY <1>e, <1>w
  <2> QED BY <1>e, <1>o, <1>w, <2>1
<1>n. \A n \in ToSet(Names) :
        Absent \in Contents(n) /\ Foreign \in Contents(n)
        /\ (rescue.run # 0 => Mine(<<>>) \in Contents(n))
  BY <1>t, RescueAssumption DEF Absent, Foreign, Mine, RescueStates, RescueAssumption
<1> HIDE DEF Contents
<1>10. CASE PublishNext
  <2> DEFINE name == Names[rescue.next]
  <2>1. /\ rescue.phase = "publishing" /\ rescue.next <= Len(Names)
        /\ intruded' = intruded /\ rescue.run # 0
    BY <1>10 DEF PublishNext, RescueTypeOK
  <2>2. ASSUME rescue' = [rescue EXCEPT !.next = @ + 1], UNCHANGED outputs
        PROVE  RescueTypeOK'
    BY <1>0, <1>9, <1>w, <2>1, <2>2 DEF RawStays
  <2>3. ASSUME rescue' = [rescue EXCEPT !.next = @ + 1, !.made = @ \cup {name}],
               outputs' = [outputs EXCEPT ![name] = Content(name)]
        PROVE  RescueTypeOK'
    <3>1. rescue' \in RescueStates /\ name \in ToSet(Names) BY <1>9, <2>1, <2>3
    <3>2. Content(name) \in Contents(name) BY <2>1, <3>1, ContentTyped DEF Contents
    <3> QED BY <1>e, <1>w, <2>1, <2>3, <3>1, <3>2
  <2>4. ASSUME NEW left \in SUBSET rescue.made, outputs' = Withdrawn(left),
               rescue' = [rescue EXCEPT !.phase = "failed", !.left = left]
        PROVE  RescueTypeOK'
    <3>0. rescue' \in RescueStates BY <1>t, <2>4 DEF RescueStates
    <3>1. DOMAIN outputs = ToSet(Names) BY <1>w
    <3>2. outputs' = [n \in ToSet(Names) |->
                        IF n \in rescue.made \ left THEN Absent ELSE outputs[n]]
      BY <2>4, <3>1 DEF Withdrawn
    <3>3. \A n \in ToSet(Names) : outputs'[n] \in Contents(n)
      BY <1>n, <1>w, <3>2
    <3>4. outputs' = [n \in ToSet(Names) |-> outputs'[n]] BY <3>2
    <3> QED BY <1>o, <1>w, <2>1, <3>0, <3>3, <3>4
  <2> QED BY <1>10, <2>2, <2>3, <2>4 DEF PublishNext
<1>11. CASE RenameNext
  <2> DEFINE name == Names[rescue.next]
  <2>1. /\ rescue.phase = "publishing" /\ rescue.next <= Len(Names)
        /\ intruded' = intruded /\ rescue.run # 0
    BY <1>11 DEF RenameNext, RescueTypeOK
  <2>2. ASSUME rescue' = [rescue EXCEPT !.next = @ + 1, !.made = @ \cup {name}],
               outputs' = [outputs EXCEPT ![name] = Mine(<<>>)]
        PROVE  RescueTypeOK'
    <3>1. rescue' \in RescueStates /\ name \in ToSet(Names) BY <1>9, <2>1, <2>2
    <3> QED BY <1>e, <1>n, <1>w, <2>1, <2>2, <3>1
  <2>3. ASSUME Stop("failed"), UNCHANGED outputs PROVE RescueTypeOK'
    BY <1>0, <1>8, <1>w, <2>1, <2>3 DEF RawStays
  <2> QED BY <1>11, <2>2, <2>3 DEF RenameNext
<1>12. CASE IntrudeOutput
  <2>1. rescue' \in RescueStates BY <1>12, <1>t DEF IntrudeOutput
  <2>2. PICK n \in ToSet(Names) :
          outputs' = [outputs EXCEPT ![n] = Foreign] /\ intruded' = intruded \cup {n}
    BY <1>12 DEF IntrudeOutput
  <2> QED BY <1>e, <1>n, <1>w, <2>1, <2>2
<1>13. CASE FinishScan \/ FinishRescue \/ Killed
  <2>1. RawStays BY <1>13 DEF FinishScan, FinishRescue, Killed, RawStays
  <2>2. rescue' \in RescueStates
    BY <1>13, <1>8 DEF FinishScan, FinishRescue, Killed
  <2> QED BY <1>0, <2>1, <2>2
<1> QED
  BY <1>1, <1>2, <1>3, <1>4, <1>5, <1>10, <1>11, <1>12, <1>13 DEF RescueNext

(***************************************************************************)
(* Reading the pages: the log and the rows                                 *)
(***************************************************************************)
\* The rows wanted that the recovery has passed, and what each is called
BehindCursor(w) == w[1] < rescue.file \/ (w[1] = rescue.file /\ w[2] < rescue.page)
SeenRows == {w \in Wanted : BehindCursor(w)}
WantedId(w) == Given(PageAt(w[1], w[2]))[w[3]].id

CalledExported == {e \in Lines : e.status = "EXPORTED"}
ExportedLines(log) == Kept(log, CalledExported)
RowsMatch(rows, lines) ==
  Len(rows) = Len(lines) /\ \A j \in 1 .. Len(rows) : rows[j].id = lines[j].row

\* The evidence has a line for every row passed, the rows kept are those it
\* calls exported, and when it is published every file has been read.
RescueLogged ==
  raw.asked = "recover" /\ rescue.phase \in {"scanning", "publishing", "done"} =>
    /\ IsFiniteSet(SeenRows) /\ Len(rescue.log) = Cardinality(SeenRows)
    /\ {rescue.log[i].row : i \in DOMAIN rescue.log} = {WantedId(w) : w \in SeenRows}
    /\ RowsMatch(rescue.rows, ExportedLines(rescue.log))
    /\ rescue.phase # "scanning" => rescue.file > Len(RawFiles)

\* A row that is wanted, taken apart
LEMMA WantedAre ==
  ASSUME NEW w
  PROVE  w \in Wanted <=>
           \E f \in InGroup : \E n \in DOMAIN RawFiles[f].pages :
             /\ IsOurs(f, n)
             /\ \E i \in DOMAIN Given(PageAt(f, n)) : w = <<f, n, i>>
<1> DEFINE Here(f, n) == {<<f, n, i>> : i \in DOMAIN Given(PageAt(f, n))}
           File(f) == {Here(f, n) : n \in {m \in DOMAIN RawFiles[f].pages : IsOurs(f, m)}}
<1>1. Wanted = UNION {UNION File(f) : f \in InGroup} BY Zenon DEF Wanted
<1>2. w \in Wanted <=> \E f \in InGroup : w \in UNION File(f)
  <2> HIDE DEF File
  <2> QED BY <1>1
<1>3. \A f : w \in UNION File(f) <=>
               \E n \in DOMAIN RawFiles[f].pages : IsOurs(f, n) /\ w \in Here(f, n)
  <2> HIDE DEF Here
  <2> QED OBVIOUS
<1>4. \A f, n : w \in Here(f, n) <=>
                  \E i \in DOMAIN Given(PageAt(f, n)) : w = <<f, n, i>>
  OBVIOUS
<1> HIDE DEF Here, File
<1> QED BY <1>2, <1>3, <1>4, Zenon

\* The raw files are only read.
LEMMA RawStands ==
  ASSUME raw' = raw
  PROVE  /\ RawFiles' = RawFiles /\ Wanted' = Wanted
         /\ \A w : WantedId(w)' = WantedId(w)
<1>1. RawFiles' = RawFiles BY DEF RawFiles
<1>2. \A f : FileIdentity(f)' = FileIdentity(f)
  BY DEF FileIdentity, Elected, Nominees, Votes, Voters, KeyOf, NoKey, RawFiles
<1>3. \A f, n : PageAt(f, n)' = PageAt(f, n) BY DEF PageAt, RawFiles
<1>4. \A f, n : Given(PageAt(f, n))' = Given(PageAt(f, n)) BY DEF Given, PageAt, RawFiles
<1>5. Wanted' = Wanted
  BY DEF Wanted, InGroup, IsOurs, InPlace, IsLeaf, KeyOf, Given, PageAt, RawFiles,
         FileIdentity, Elected, Nominees, Votes, Voters, NoKey
<1>6. \A w : WantedId(w)' = WantedId(w) BY DEF WantedId, Given, PageAt, RawFiles
<1> QED BY <1>1, <1>5, <1>6

\* Rows and the lines about them, taken together twice
LEMMA MatchesConcat ==
  ASSUME NEW a \in Seq(StoredRow), NEW b \in Seq(Lines), RowsMatch(a, b),
         NEW c \in Seq(StoredRow), NEW d \in Seq(Lines), RowsMatch(c, d)
  PROVE  RowsMatch(a \o c, b \o d)
<1>1. /\ Len(a) \in Nat /\ Len(c) \in Nat /\ Len(a) = Len(b) /\ Len(c) = Len(d)
      /\ Len(a \o c) = Len(a) + Len(c) /\ Len(b \o d) = Len(a) + Len(c)
  <2>1. Len(a) = Len(b) /\ Len(c) = Len(d) BY DEF RowsMatch
  <2>2. Len(a) \in Nat /\ Len(c) \in Nat OBVIOUS
  <2>3. Len(a \o c) = Len(a) + Len(c) /\ Len(b \o d) = Len(b) + Len(d)
    BY ConcatProperties
  <2> QED BY <2>1, <2>2, <2>3
<1>2. ASSUME NEW j \in 1 .. Len(a \o c) PROVE (a \o c)[j].id = (b \o d)[j].row
  <2>1. CASE j <= Len(a)
    <3>1. (a \o c)[j] = a[j] /\ (b \o d)[j] = b[j] BY <1>1, <2>1
    <3>2. j \in 1 .. Len(a) BY <1>1, <2>1
    <3> QED BY <3>1, <3>2 DEF RowsMatch
  <2>2. CASE j > Len(a)
    <3>1. (a \o c)[j] = c[j - Len(a)] /\ (b \o d)[j] = d[j - Len(a)] BY <1>1, <2>2
    <3>2. j - Len(a) \in 1 .. Len(c) BY <1>1, <2>2
    <3> QED BY <3>1, <3>2 DEF RowsMatch
  <2> QED BY <1>1, <2>1, <2>2
<1> QED BY <1>1, <1>2 DEF RowsMatch

\* The rows kept of a page are those its lines call exported.
LEMMA PageExported ==
  ASSUME NEW rows \in Seq(StoredRow)
  PROVE  RowsMatch(Kept(rows, Decodable), ExportedLines(LinesOf(rows)))
<1> DEFINE t == LinesOf(rows)
           f == [r \in StoredRow |-> r.id]
           g == [e \in Lines |-> e.row]
<1>1. t \in Seq(Lines) /\ Len(rows) = Len(t) /\ Len(rows) \in Nat
      /\ \A i \in 1 .. Len(rows) : t[i] = Line(rows[i]) /\ rows[i] \in StoredRow
  BY LinesTyped
<1>2. \A r \in StoredRow : /\ Line(r) \in Lines
                           /\ r \in Decodable <=> Line(r) \in CalledExported
                           /\ f[r] = g[Line(r)]
  <2>1. ASSUME NEW r \in StoredRow PROVE r \in Decodable <=> Line(r) \in CalledExported
    BY LineTyped DEF Decodable, CalledExported, Line
  <2>2. ASSUME NEW r \in StoredRow PROVE Line(r) \in Lines /\ Line(r).row = r.id
    BY LineTyped DEF Line
  <2> QED BY <2>1, <2>2
<1> HIDE DEF t, f, g
<1>3. SamePlaces(rows, t, Decodable, CalledExported, f, g)
  BY <1>1, <1>2 DEF SamePlaces
<1>4. Alike(Kept(rows, Decodable), Kept(t, CalledExported), f, g)
  BY <1>1, <1>3, KeptAlike
<1> DEFINE k == Kept(rows, Decodable)
           l == Kept(t, CalledExported)
<1>5. k \in Seq(StoredRow) /\ l \in Seq(Lines) BY <1>1, KeptFacts
<1>6. Len(k) = Len(l) /\ Len(k) \in Nat /\ \A j \in 1 .. Len(k) : f[k[j]] = g[l[j]]
  BY <1>4, <1>5 DEF Alike
<1> HIDE DEF k, l
<1>7. \A j \in 1 .. Len(k) : k[j] \in StoredRow /\ l[j] \in Lines BY <1>5, <1>6
<1>8. \A j \in 1 .. Len(k) : k[j].id = l[j].row BY <1>6, <1>7 DEF f, g
<1> QED BY <1>6, <1>8 DEF RowsMatch, ExportedLines, k, l, t

\* What one page of the storage adds
NewRows(f, n) == {<<f, n, i>> : i \in DOMAIN Given(PageAt(f, n))}

LEMMA NewRowsFinite ==
  ASSUME NEW f, NEW n, PageAt(f, n) \in StoredPage
  PROVE  /\ IsFiniteSet(NewRows(f, n))
         /\ Cardinality(NewRows(f, n)) = Len(Given(PageAt(f, n)))
<1> DEFINE rows == Given(PageAt(f, n))
           h == [i \in 1 .. Len(rows) |-> <<f, n, i>>]
<1>1. rows \in Seq(StoredRow) BY GivenTyped
<1>2. Len(rows) \in Nat /\ DOMAIN rows = 1 .. Len(rows) BY <1>1
<1> HIDE DEF rows
<1>3. h \in Bijection(1 .. Len(rows), NewRows(f, n))
  BY <1>2 DEF Bijection, Injection, Surjection, NewRows, rows, IsInjective
<1>4. ExistsBijection(1 .. Len(rows), NewRows(f, n)) BY <1>3 DEF ExistsBijection
<1>5. IsFiniteSet(1 .. Len(rows)) /\ Cardinality(1 .. Len(rows)) = Len(rows)
  <2> DEFINE k == Len(rows)
  <2>1. k \in Nat /\ 1 \in Int /\ k \in Int BY <1>2
  <2> HIDE DEF k
  <2>2. IsFiniteSet(1 .. k) /\ Cardinality(1 .. k) = IF 1 > k THEN 0 ELSE k - 1 + 1
    BY <2>1, FS_Interval
  <2>3. IsFiniteSet(1 .. k) /\ Cardinality(1 .. k) = k BY <2>1, <2>2
  <2> QED BY <2>3 DEF k
<1> QED BY <1>4, <1>5, FS_Bijection DEF rows

LEMMA RescueLoggedInit == RescueInit => RescueLogged
BY DEF RescueInit, Idle, RescueLogged

\* Where a row that is wanted lies
LEMMA WantedPlace ==
  ASSUME RescueTypeOK, NEW w \in Wanted
  PROVE  \E f, n, i :
           /\ f \in InGroup /\ n \in Nat \ {0}
           /\ f \in Nat \ {0} /\ n <= Len(RawFiles[f].pages)
           /\ Len(RawFiles[f].pages) \in Nat
           /\ w = <<f, n, i>>
<1>1. PICK f \in InGroup : \E n \in DOMAIN RawFiles[f].pages :
        IsOurs(f, n) /\ \E i \in DOMAIN Given(PageAt(f, n)) : w = <<f, n, i>>
  BY WantedAre
<1>2. PICK n \in DOMAIN RawFiles[f].pages :
        IsOurs(f, n) /\ \E i \in DOMAIN Given(PageAt(f, n)) : w = <<f, n, i>>
  BY <1>1
<1>3. PICK i : w = <<f, n, i>> BY <1>2
<1>4. f \in DOMAIN RawFiles BY DEF InGroup
<1>5. f \in Nat \ {0}
  <2>1. DOMAIN RawFiles = 1 .. Len(RawFiles) BY RawTypes, LenProperties
  <2> QED BY <1>4, <2>1
<1>6. RawFiles[f].pages \in Seq(StoredPage) BY <1>4, RawTypes
<1> DEFINE s == RawFiles[f].pages
<1>7. Len(s) \in Nat /\ DOMAIN s = 1 .. Len(s) /\ n \in DOMAIN s
  BY <1>6, LenProperties
<1> HIDE DEF s
<1>8. n \in Nat \ {0} /\ n <= Len(s) BY <1>7
<1> QED BY <1>3, <1>5, <1>7, <1>8 DEF s

\* Where a run that is started stands, nothing has been read.
LEMMA NothingSeen ==
  ASSUME RescueTypeOK, rescue.file = 1, rescue.page = 1 PROVE SeenRows = {}
<1> SUFFICES ASSUME NEW w \in Wanted, BehindCursor(w) PROVE FALSE BY DEF SeenRows
<1>1. PICK f, n, i : f \in InGroup /\ n \in Nat \ {0} /\ f \in Nat \ {0} /\ w = <<f, n, i>>
  BY WantedPlace
<1> QED BY <1>1 DEF BehindCursor

\* A file whose pages are all read is left.
LEMMA SeenNextFile ==
  ASSUME RescueTypeOK, NextFile PROVE SeenRows' = SeenRows
<1>1. raw' = raw /\ rescue'.file = rescue.file + 1 /\ rescue'.page = 1
  BY DEF NextFile, RescueTypeOK, RescueStates
<1>2. Wanted' = Wanted BY <1>1, RawStands
<1>3. rescue.file \in Nat \ {0} /\ rescue.page \in Nat \ {0}
  BY DEF RescueTypeOK, RescueStates
<1>4. ASSUME NEW w \in Wanted PROVE BehindCursor(w)' <=> BehindCursor(w)
  <2>1. PICK f, n, i :
          /\ f \in InGroup /\ n \in Nat \ {0}
          /\ f \in Nat \ {0} /\ n <= Len(RawFiles[f].pages)
          /\ Len(RawFiles[f].pages) \in Nat
          /\ w = <<f, n, i>>
    BY WantedPlace
  <2>3. f \in Nat \ {0} BY <2>1
  <2> DEFINE l == Len(RawFiles[f].pages)
  <2>4. n \in Nat \ {0} /\ n <= l /\ l \in Nat BY <2>1
  <2>5. f = rescue.file => ~(rescue.page <= l) BY DEF NextFile, InFile
  <2> HIDE DEF l
  <2>6. BehindCursor(w)' <=> f < rescue.file + 1 \/ (f = rescue.file + 1 /\ n < 1)
    BY <1>1, <2>1 DEF BehindCursor
  <2>7. BehindCursor(w) <=> f < rescue.file \/ (f = rescue.file /\ n < rescue.page)
    BY <2>1 DEF BehindCursor
  <2> QED BY <1>3, <2>3, <2>4, <2>5, <2>6, <2>7
<1> QED BY <1>2, <1>4 DEF SeenRows

\* A page of the storage adds its rows, another page adds nothing.
LEMMA SeenNextPage ==
  ASSUME RescueTypeOK, InFile, raw' = raw,
         rescue'.file = rescue.file, rescue'.page = rescue.page + 1
  PROVE  LET f == rescue.file  n == rescue.page
             ours == f \in InGroup /\ IsOurs(f, n)
         IN /\ SeenRows' = SeenRows \cup (IF ours THEN NewRows(f, n) ELSE {})
            /\ SeenRows \cap NewRows(f, n) = {}
<1> DEFINE f0 == rescue.file
           n0 == rescue.page
           ours == f0 \in InGroup /\ IsOurs(f0, n0)
           add == IF ours THEN NewRows(f0, n0) ELSE {}
<1>2. Wanted' = Wanted BY RawStands
<1>3. f0 \in DOMAIN RawFiles /\ n0 \in DOMAIN RawFiles[f0].pages
      /\ f0 \in Nat \ {0} /\ n0 \in Nat \ {0}
  BY CursorStands
<1>w. ASSUME NEW w
      PROVE  w \in add <=> w \in Wanted /\ w[1] = f0 /\ w[2] = n0
  <2>1. w \in NewRows(f0, n0) <=> \E i \in DOMAIN Given(PageAt(f0, n0)) : w = <<f0, n0, i>>
    BY DEF NewRows
  <2>2. ASSUME w \in add PROVE w \in Wanted /\ w[1] = f0 /\ w[2] = n0
    <3>1. ours /\ \E i \in DOMAIN Given(PageAt(f0, n0)) : w = <<f0, n0, i>>
      BY <2>1, <2>2
    <3> HIDE DEF f0, n0
    <3>2. w[1] = f0 /\ w[2] = n0 BY <3>1
    <3> QED BY <1>3, <3>1, <3>2, WantedAre
  <2>3. ASSUME w \in Wanted, w[1] = f0, w[2] = n0 PROVE w \in add
    <3>1. PICK f \in InGroup : \E n \in DOMAIN RawFiles[f].pages :
            IsOurs(f, n) /\ \E i \in DOMAIN Given(PageAt(f, n)) : w = <<f, n, i>>
      BY <2>3, WantedAre
    <3>2. PICK n \in DOMAIN RawFiles[f].pages :
            IsOurs(f, n) /\ \E i \in DOMAIN Given(PageAt(f, n)) : w = <<f, n, i>>
      BY <3>1
    <3>3. f = f0 /\ n = n0 BY <2>3, <3>2
    <3> QED BY <2>1, <3>1, <3>2, <3>3
  <2> QED BY <2>2, <2>3
<1>4. ASSUME NEW w \in Wanted
      PROVE  BehindCursor(w)' <=> BehindCursor(w) \/ (w[1] = f0 /\ w[2] = n0)
  <2>1. PICK f, n, i : f \in InGroup /\ n \in Nat \ {0} /\ f \in Nat \ {0} /\ w = <<f, n, i>>
    BY WantedPlace
  <2>3. f \in Nat /\ n \in Nat BY <2>1
  <2>6. BehindCursor(w)' <=> f < f0 \/ (f = f0 /\ n < n0 + 1)
    BY <2>1 DEF BehindCursor
  <2>7. BehindCursor(w) <=> f < f0 \/ (f = f0 /\ n < n0)
    BY <2>1 DEF BehindCursor
  <2>8. w[1] = f /\ w[2] = n BY <2>1
  <2> HIDE DEF f0, n0
  <2> QED BY <1>3, <2>3, <2>6, <2>7, <2>8
<1>5. SeenRows' = SeenRows \cup add BY <1>2, <1>4, <1>w DEF SeenRows
<1>6. SeenRows \cap NewRows(f0, n0) = {}
  <2> SUFFICES ASSUME NEW w \in SeenRows, w \in NewRows(f0, n0) PROVE FALSE OBVIOUS
  <2>1. w[1] = f0 /\ w[2] = n0 BY DEF NewRows
  <2> QED BY <1>3, <2>1 DEF SeenRows, BehindCursor
<1> QED BY <1>5, <1>6

\* The ids in the log once the lines of a page have been appended
LEMMA IdsConcat ==
  ASSUME NEW log \in Seq(Lines), NEW rows \in Seq(StoredRow)
  PROVE  LET both == log \o LinesOf(rows)
         IN /\ both \in Seq(Lines) /\ Len(both) = Len(log) + Len(rows)
            /\ {both[i].row : i \in DOMAIN both}
                 = {log[i].row : i \in DOMAIN log} \cup {rows[i].id : i \in DOMAIN rows}
<1> DEFINE t == LinesOf(rows)
           both == log \o t
           A == {log[i].row : i \in DOMAIN log}
           B == {rows[i].id : i \in DOMAIN rows}
           C == {both[i].row : i \in DOMAIN both}
<1>1. t \in Seq(Lines) /\ Len(t) = Len(rows) BY LinesTyped
<1>2. \A i \in 1 .. Len(rows) : t[i].row = rows[i].id
  <2>1. ASSUME NEW i \in 1 .. Len(rows) PROVE t[i].row = rows[i].id
    <3>1. t[i] = Line(rows[i]) BY LinesTyped
    <3> QED BY <3>1 DEF Line
  <2> QED BY <2>1
<1>3. Len(log) \in Nat /\ Len(rows) \in Nat
      /\ DOMAIN log = 1 .. Len(log) /\ DOMAIN rows = 1 .. Len(rows)
  OBVIOUS
<1> HIDE DEF t
<1>4. /\ both \in Seq(Lines) /\ Len(both) = Len(log) + Len(rows)
      /\ DOMAIN both = 1 .. Len(log) + Len(rows)
      /\ \A i \in 1 .. Len(log) : both[i] = log[i]
      /\ \A i \in 1 .. Len(rows), k \in Int : k = Len(log) + i => both[k] = t[i]
  BY <1>1, <1>3
<1> HIDE DEF both
<1>5. ASSUME NEW x \in A \cup B PROVE x \in C
  <2>1. CASE x \in A
    <3>1. PICK i \in 1 .. Len(log) : x = log[i].row BY <1>3, <2>1
    <3>2. both[i] = log[i] /\ i \in DOMAIN both BY <1>3, <1>4
    <3> QED BY <3>1, <3>2
  <2>2. CASE x \in B
    <3>1. PICK i \in 1 .. Len(rows) : x = rows[i].id BY <1>3, <2>2
    <3>2. Len(log) + i \in DOMAIN both BY <1>3, <1>4
    <3>3. both[Len(log) + i] = t[i]
      <4> DEFINE k == Len(log) + i
      <4>1. k \in Int /\ k = Len(log) + i BY <1>3
      <4> HIDE DEF k
      <4>2. both[k] = t[i] BY <1>4, <4>1
      <4> QED BY <4>2 DEF k
    <3>4. t[i].row = rows[i].id BY <1>2, Zenon
    <3> QED BY <3>1, <3>2, <3>3, <3>4, Zenon
  <2> QED BY <2>1, <2>2
<1>6. ASSUME NEW x \in C PROVE x \in A \cup B
  <2>1. PICK k \in 1 .. Len(log) + Len(rows) : x = both[k].row BY <1>4
  <2>2. CASE k <= Len(log)
    <3>1. k \in 1 .. Len(log) BY <1>3, <2>2
    <3> QED BY <1>3, <1>4, <2>1, <3>1
  <2>3. CASE k > Len(log)
    <3> DEFINE i == k - Len(log)
    <3>1. i \in 1 .. Len(rows) /\ k = Len(log) + i BY <1>3, <2>3
    <3> HIDE DEF i
    <3>3. both[k] = t[i] BY <1>4, <3>1
    <3>4. t[i].row = rows[i].id BY <1>2, <3>1, Zenon
    <3>2. x = rows[i].id BY <2>1, <3>3, <3>4
    <3> QED BY <1>3, <3>1, <3>2
  <2> QED BY <1>3, <2>2, <2>3
<1>7. A \cup B = C BY <1>5, <1>6
<1> QED BY <1>4, <1>7 DEF both, t


\* The log, the rows kept and what has been read do not change.
SameBooks ==
  /\ raw' = raw /\ SeenRows' = SeenRows
  /\ rescue'.log = rescue.log /\ rescue'.rows = rescue.rows

LEMMA RescueLoggedStays ==
  ASSUME RescueLogged, SameBooks, rescue.phase \in {"scanning", "publishing", "done"},
         rescue'.phase \in {"publishing", "done"} => rescue'.file > Len(RawFiles)
  PROVE  RescueLogged'
<1> SUFFICES ASSUME raw.asked = "recover", rescue'.phase \in {"scanning", "publishing", "done"}
             PROVE  RescueLogged'
  BY DEF RescueLogged, SameBooks
<1>1. /\ IsFiniteSet(SeenRows) /\ Len(rescue.log) = Cardinality(SeenRows)
      /\ {rescue.log[i].row : i \in DOMAIN rescue.log} = {WantedId(w) : w \in SeenRows}
      /\ RowsMatch(rescue.rows, ExportedLines(rescue.log))
  BY DEF RescueLogged
<1>2. RawFiles' = RawFiles /\ \A w : WantedId(w)' = WantedId(w) BY RawStands DEF SameBooks
<1>3. {WantedId(w) : w \in SeenRows}' = {WantedId(w) : w \in SeenRows} BY <1>2 DEF SameBooks
<1>4. {rescue.log[i].row : i \in DOMAIN rescue.log}'
        = {rescue.log[i].row : i \in DOMAIN rescue.log}
  BY DEF SameBooks
<1>5. ExportedLines(rescue.log)' = ExportedLines(rescue.log)
  BY DEF SameBooks, ExportedLines, CalledExported, Lines
<1>6. RowsMatch(rescue.rows, ExportedLines(rescue.log))'
  BY <1>1, <1>5 DEF SameBooks, RowsMatch
<1>7. (rescue.phase # "scanning" => rescue.file > Len(RawFiles))' BY <1>2
<1> QED BY <1>1, <1>3, <1>4, <1>6, <1>7 DEF RescueLogged, SameBooks

LEMMA RescueLoggedStep ==
  ASSUME RescueTypeOK, RescueLogged, [RescueNext]_rescueVars PROVE RescueLogged'
<1>t. rescue \in RescueStates BY DEF RescueTypeOK
<1>s. ASSUME raw' = raw, rescue'.file = rescue.file, rescue'.page = rescue.page
      PROVE  SeenRows' = SeenRows
  BY <1>s, RawStands DEF SeenRows, BehindCursor
<1>b. ASSUME raw' = raw, rescue' = rescue PROVE RescueLogged'
  <2>1. SameBooks BY <1>b, <1>s DEF SameBooks
  <2>2. CASE raw.asked = "recover" /\ rescue.phase \in {"scanning", "publishing", "done"}
    <3>1. RawFiles' = RawFiles BY <1>b, RawStands
    <3>2. rescue'.phase \in {"publishing", "done"} => rescue'.file > Len(RawFiles)
      BY <1>b, <2>2 DEF RescueLogged
    <3> QED BY <2>1, <2>2, <3>2, RescueLoggedStays
  <2>3. CASE ~(raw.asked = "recover" /\ rescue.phase \in {"scanning", "publishing", "done"})
    BY <1>b, <2>3 DEF RescueLogged
  <2> QED BY <2>2, <2>3
<1>n. ASSUME raw' = raw, rescue'.phase \in {"idle", "failed", "killed"} PROVE RescueLogged'
  BY <1>n DEF RescueLogged
<1>i. ASSUME raw' = raw, raw.asked # "recover" PROVE RescueLogged'
  BY <1>i DEF RescueLogged
<1>1. CASE UNCHANGED rescueVars BY <1>1, <1>b DEF rescueVars
<1>2. CASE StartRescue
  <2>1. raw' = raw /\ rescue'.phase \in {"scanning", "failed"}
        /\ rescue'.file = 1 /\ rescue'.page = 1 /\ rescue'.log = <<>> /\ rescue'.rows = <<>>
    BY <1>2 DEF StartRescue, Idle
  <2>2. RescueTypeOK' BY RescueTypesStep
  <2>3. SeenRows' = {}
    <3>1. ASSUME NEW w \in Wanted', BehindCursor(w)' PROVE FALSE
      <4>1. w \in Wanted BY <2>1, <3>1, RawStands
      <4>2. PICK f, n, i : f \in InGroup /\ n \in Nat \ {0} /\ f \in Nat \ {0} /\ w = <<f, n, i>>
        BY <4>1, WantedPlace
      <4> QED BY <2>1, <3>1, <4>2 DEF BehindCursor
    <3> QED BY <3>1 DEF SeenRows
  <2>4. IsFiniteSet({}) /\ Cardinality({}) = 0 BY FS_EmptySet
  <2>5. RowsMatch(<<>>, ExportedLines(<<>>))
    <3>1. <<>> \in Seq(Lines) /\ Range(<<>>) \cap CalledExported = {} BY DEF Range
    <3>2. Kept(<<>>, CalledExported) = <<>> BY <3>1, KeptFacts
    <3> QED BY <3>2 DEF RowsMatch, ExportedLines
  <2>6. RowsMatch(rescue.rows, ExportedLines(rescue.log))'
    BY <2>1, <2>5 DEF RowsMatch, ExportedLines, CalledExported, Lines
  <2>7. {rescue.log[i].row : i \in DOMAIN rescue.log}' = {} BY <2>1
  <2>8. {WantedId(w) : w \in SeenRows}' = {} BY <2>3
  <2>9. IsFiniteSet(SeenRows') /\ Len(rescue'.log) = Cardinality(SeenRows') BY <2>1, <2>3, <2>4
  <2>10. CASE rescue'.phase = "scanning"
    BY <2>6, <2>7, <2>8, <2>9, <2>10 DEF RescueLogged
  <2> QED BY <2>1, <2>10, <1>n
<1>3. CASE RecoverPage
  <2> DEFINE f == rescue.file
             n == rescue.page
             p == PageAt(f, n)
             ours == f \in InGroup /\ IsOurs(f, n)
             rows == Given(p)
  <2>1. /\ InFile /\ raw.asked = "recover" /\ raw' = raw /\ rescue.phase = "scanning"
        /\ \/ ours /\ rescue' = Step([rescue EXCEPT !.pages = @ + 1,
                  !.rows = @ \o Kept(rows, Decodable), !.log = @ \o LinesOf(rows)])
           \/ ~ours /\ rescue' = Step(rescue)
           \/ Stop("failed")
    BY <1>3 DEF RecoverPage, Decodable, LinesOf, InFile, Cursor
  <2>2. p \in StoredPage BY <2>1, CursorStands, RawTypes
  <2>3. rows \in Seq(StoredRow) BY <2>2, GivenTyped
  <2>4. /\ IsFiniteSet(SeenRows) /\ Len(rescue.log) = Cardinality(SeenRows)
        /\ {rescue.log[i].row : i \in DOMAIN rescue.log} = {WantedId(w) : w \in SeenRows}
        /\ RowsMatch(rescue.rows, ExportedLines(rescue.log))
    BY <2>1 DEF RescueLogged
  <2>5. rescue.log \in Seq(Lines) /\ rescue.rows \in Seq(StoredRow)
    BY <1>t DEF RescueStates
  <2>6. ASSUME rescue' = Step([rescue EXCEPT !.pages = @ + 1,
                  !.rows = @ \o Kept(rows, Decodable), !.log = @ \o LinesOf(rows)]), ours
        PROVE  RescueLogged'
    <3> DEFINE log == rescue.log
               both == log \o LinesOf(rows)
               kept == Kept(rows, Decodable)
               all == rescue.rows \o kept
    <3>1. /\ rescue'.log = both /\ rescue'.rows = all /\ rescue'.phase = rescue.phase
          /\ rescue'.file = f /\ rescue'.page = n + 1
      BY <1>t, <2>6 DEF Step, RescueStates
    <3>2. SeenRows' = SeenRows \cup NewRows(f, n) /\ SeenRows \cap NewRows(f, n) = {}
      BY <2>1, <2>6, <3>1, SeenNextPage
    <3>3. IsFiniteSet(NewRows(f, n)) /\ Cardinality(NewRows(f, n)) = Len(rows)
      BY <2>2, NewRowsFinite
    <3>4. /\ both \in Seq(Lines) /\ Len(both) = Len(log) + Len(rows)
          /\ {both[i].row : i \in DOMAIN both}
               = {log[i].row : i \in DOMAIN log} \cup {rows[i].id : i \in DOMAIN rows}
      BY <2>3, <2>5, IdsConcat
    <3>5. IsFiniteSet(SeenRows') /\ Len(both) = Cardinality(SeenRows')
      <4>1. /\ IsFiniteSet(SeenRows \cup NewRows(f, n))
            /\ Cardinality(SeenRows \cup NewRows(f, n)) =
                 Cardinality(SeenRows) + Cardinality(NewRows(f, n))
                   - Cardinality(SeenRows \cap NewRows(f, n))
        BY <2>4, <3>3, FS_Union
      <4>2. Cardinality(SeenRows \cap NewRows(f, n)) = 0 BY <3>2, FS_EmptySet
      <4>3. Len(log) \in Nat /\ Len(rows) \in Nat BY <2>3, <2>5, LenProperties
      <4> QED BY <2>4, <3>2, <3>3, <3>4, <4>1, <4>2, <4>3
    <3>6. {WantedId(w) : w \in SeenRows}'
            = {WantedId(w) : w \in SeenRows} \cup {rows[i].id : i \in DOMAIN rows}
      <4>1. \A w : WantedId(w)' = WantedId(w) BY <2>1, RawStands
      <4>2. {WantedId(w) : w \in SeenRows}'
              = {WantedId(w) : w \in SeenRows} \cup {WantedId(w) : w \in NewRows(f, n)}
        BY <3>2, <4>1
      <4>3. \A i \in DOMAIN rows : WantedId(<<f, n, i>>) = rows[i].id BY DEF WantedId
      <4>4. {WantedId(w) : w \in NewRows(f, n)} = {WantedId(<<f, n, i>>) : i \in DOMAIN rows}
        BY DEF NewRows
      <4>5. {WantedId(<<f, n, i>>) : i \in DOMAIN rows} = {rows[i].id : i \in DOMAIN rows}
        BY <4>3
      <4> QED BY <4>2, <4>4, <4>5
    <3>7. RowsMatch(all, ExportedLines(both))
      <4>1. LinesOf(rows) \in Seq(Lines) /\ kept \in Seq(StoredRow)
        BY <2>3, LinesTyped, KeptFacts
      <4>2. ExportedLines(both) = ExportedLines(log) \o ExportedLines(LinesOf(rows))
        <5> DEFINE t == LinesOf(rows)
        <5>1. log \in Seq(Lines) /\ t \in Seq(Lines) BY <2>5, <4>1
        <5> HIDE DEF t, log
        <5>2. Kept(log \o t, CalledExported) = Kept(log, CalledExported) \o Kept(t, CalledExported)
          BY <5>1, KeptConcat
        <5> QED BY <5>2 DEF ExportedLines, t
      <4>3. ExportedLines(log) \in Seq(Lines) /\ ExportedLines(LinesOf(rows)) \in Seq(Lines)
        BY <2>5, <4>1, KeptFacts DEF ExportedLines
      <4>4. RowsMatch(kept, ExportedLines(LinesOf(rows))) BY <2>3, PageExported
      <4> QED BY <2>4, <2>5, <4>1, <4>2, <4>3, <4>4, MatchesConcat
    <3>8. {rescue.log[i].row : i \in DOMAIN rescue.log}' = {both[i].row : i \in DOMAIN both}
      BY <3>1
    <3>9. RowsMatch(rescue.rows, ExportedLines(rescue.log))'
      BY <3>1, <3>7 DEF RowsMatch, ExportedLines, CalledExported, Lines
    <3> HIDE DEF both, all
    <3> QED BY <2>1, <2>4, <3>1, <3>4, <3>5, <3>6, <3>8, <3>9 DEF RescueLogged
  <2>7. ASSUME ~ours, rescue' = Step(rescue) PROVE RescueLogged'
    <3>1. /\ rescue'.log = rescue.log /\ rescue'.rows = rescue.rows
          /\ rescue'.phase = rescue.phase /\ rescue'.file = f /\ rescue'.page = n + 1
      BY <1>t, <2>7 DEF Step, RescueStates
    <3>2. SeenRows' = SeenRows BY <2>1, <2>7, <3>1, SeenNextPage
    <3> QED BY <2>1, <3>1, <3>2, RescueLoggedStays DEF SameBooks
  <2>8. ASSUME Stop("failed") PROVE RescueLogged'
    BY <1>n, <1>t, <2>1, <2>8 DEF Stop, RescueStates
  <2> QED BY <2>1, <2>6, <2>7, <2>8
<1>4. CASE InventoryPage BY <1>4, <1>i DEF InventoryPage
<1>5. CASE NextFile
  <2>1. /\ raw' = raw /\ rescue'.log = rescue.log /\ rescue'.rows = rescue.rows
        /\ rescue.phase = "scanning" /\ rescue'.phase = "scanning"
    BY <1>5, <1>t DEF NextFile, Cursor, RescueStates
  <2> QED BY <1>5, <2>1, SeenNextFile, RescueLoggedStays DEF SameBooks
<1>6. CASE FinishScan
  <2>1. raw' = raw /\ rescue.phase = "scanning" /\ ~(rescue.file <= Len(RawFiles))
        /\ (Stop("publishing") \/ Stop("failed"))
    BY <1>6 DEF FinishScan, Cursor
  <2>2. ASSUME Stop("publishing") PROVE RescueLogged'
    <3>1. /\ rescue'.log = rescue.log /\ rescue'.rows = rescue.rows
          /\ rescue'.file = rescue.file /\ rescue'.page = rescue.page
      BY <1>t, <2>2 DEF Stop, RescueStates
    <3>2. rescue.file \in Nat /\ Len(RawFiles) \in Nat
      BY <1>t, RawTypes, LenProperties DEF RescueStates
    <3>3. rescue'.file > Len(RawFiles) BY <2>1, <3>1, <3>2
    <3> QED BY <1>s, <2>1, <3>1, <3>3, RescueLoggedStays DEF SameBooks
  <2>3. ASSUME Stop("failed") PROVE RescueLogged'
    BY <1>n, <1>t, <2>1, <2>3 DEF Stop, RescueStates
  <2> QED BY <2>1, <2>2, <2>3
\* Publishing leaves the cursor, the log and the rows.
<1>p. ASSUME raw' = raw, rescue.phase = "publishing",
             rescue'.phase \in {"publishing", "done", "failed"},
             rescue'.file = rescue.file, rescue'.page = rescue.page,
             rescue'.log = rescue.log, rescue'.rows = rescue.rows
      PROVE  RescueLogged'
  <2>1. raw.asked = "recover" => rescue.file > Len(RawFiles) BY <1>p DEF RescueLogged
  <2>2. CASE raw.asked = "recover" BY <1>p, <1>s, <2>1, <2>2, RescueLoggedStays DEF SameBooks
  <2> QED BY <1>i, <1>p, <2>2
<1>7. CASE PublishNext \/ RenameNext \/ FinishRescue
  <2>1. raw' = raw /\ rescue.phase = "publishing"
    BY <1>7 DEF PublishNext, RenameNext, FinishRescue
  <2>2. /\ rescue'.file = rescue.file /\ rescue'.page = rescue.page
        /\ rescue'.log = rescue.log /\ rescue'.rows = rescue.rows
        /\ rescue'.phase \in {"publishing", "done", "failed"}
    BY <1>7, <1>t, <2>1 DEF PublishNext, RenameNext, FinishRescue, Stop, RescueStates
  <2> QED BY <1>p, <2>1, <2>2
<1>8. CASE IntrudeOutput BY <1>8, <1>b DEF IntrudeOutput
<1>9. CASE Killed
  <2>1. raw' = raw /\ rescue'.phase = "killed"
    BY <1>9, <1>t DEF Killed, Stop, RescueStates
  <2> QED BY <1>n, <2>1
<1> QED
  BY <1>1, <1>2, <1>3, <1>4, <1>5, <1>6, <1>7, <1>8, <1>9 DEF RescueNext


(***************************************************************************)
(* Publishing: the output directory                                        *)
(***************************************************************************)
\* The files tried so far, whether they were staged or not
EarlierNames == {Names[i] : i \in 1 .. rescue.next - 1}

\* No file is of a later run; those of this run are the ones tried that were
\* staged, with what the run has read, until it fails, and then those of them
\* that could not be removed; and a file of another program stays.
RescuePlaced ==
  /\ \A n \in ToSet(Names) : outputs[n].by <= rescue.run
  /\ rescue.phase = "scanning" => rescue.next = 1
  /\ rescue.phase = "done" => rescue.next = Len(Names) + 1
  /\ IF rescue.phase = "failed"
     THEN rescue.next <= Len(Names) /\ rescue.left \subseteq rescue.made
     ELSE rescue.left = {}
  /\ raw.asked = "scan" => OfRun = EarlierNames
  /\ raw.asked = "recover" =>
       /\ rescue.made = {n \in EarlierNames : Staged(n)}
       /\ OfRun = IF rescue.phase = "failed" THEN rescue.left ELSE rescue.made
       /\ rescue.phase # "failed" => \A n \in rescue.made : outputs[n] = Content(n)
       /\ \A n \in intruded : outputs[n] = Foreign

LEMMA RescuePlacedInit == RescueInit => RescuePlaced
<1> SUFFICES ASSUME RescueInit PROVE RescuePlaced OBVIOUS
<1>1. /\ rescue = Idle /\ intruded = {} /\ outputs = [n \in ToSet(Names) |-> Absent]
  BY DEF RescueInit
<1>2. \A n \in ToSet(Names) : outputs[n].by = -1 BY <1>1 DEF Absent, Nobody
<1>3. rescue.run = 0 /\ rescue.next = 1 /\ rescue.made = {} /\ rescue.left = {}
      /\ rescue.phase = "idle"
  BY <1>1 DEF Idle
<1>4. EarlierNames = {} BY <1>3 DEF EarlierNames
<1>5. DOMAIN outputs = ToSet(Names) BY <1>1
<1>6. OfRun = {} BY <1>2, <1>3, <1>5 DEF OfRun
<1> QED BY <1>1, <1>2, <1>3, <1>4, <1>6 DEF RescuePlaced

\* Nothing that is published changes, nor what the run has published.
LEMMA RescuePlacedStays ==
  ASSUME RescuePlaced, raw' = raw, outputs' = outputs, intruded' = intruded,
         /\ rescue'.run = rescue.run /\ rescue'.next = rescue.next
         /\ rescue'.made = rescue.made /\ rescue'.left = rescue.left
         /\ rescue.phase # "failed",
         \/ /\ rescue'.phase \in {"scanning", "publishing", "done", "killed"}
            /\ rescue'.phase = "scanning" => rescue.phase = "scanning"
            /\ rescue'.phase = "done" => rescue.next = Len(Names) + 1
            /\ rescue'.rows = rescue.rows /\ rescue'.log = rescue.log
         \/ rescue'.phase \in {"scanning", "failed"} /\ rescue.phase = "scanning"
  PROVE  RescuePlaced'
<1>1. \A n \in ToSet(Names) : outputs'[n].by <= rescue'.run BY DEF RescuePlaced
<1>2. /\ rescue'.phase = "scanning" => rescue'.next = 1
      /\ rescue'.phase = "done" => rescue'.next = Len(Names) + 1
      /\ rescue'.left = {} /\ (rescue'.phase = "failed" => rescue'.next <= Len(Names))
  BY NamesAre DEF RescuePlaced
<1>3. OfRun' = OfRun /\ EarlierNames' = EarlierNames BY DEF OfRun, EarlierNames
<1>4. raw.asked = "scan" => OfRun' = EarlierNames' BY <1>3 DEF RescuePlaced
<1>5. ASSUME raw.asked = "recover"
      PROVE  /\ rescue'.made = {n \in EarlierNames' : Staged(n)'}
             /\ OfRun' = IF rescue'.phase = "failed" THEN rescue'.left ELSE rescue'.made
             /\ rescue'.phase # "failed" => \A n \in rescue'.made : outputs'[n] = Content(n)'
  <2>1. /\ rescue.made = {n \in EarlierNames : Staged(n)} /\ OfRun = rescue.made
        /\ \A n \in rescue.made : outputs[n] = Content(n)
    BY <1>5 DEF RescuePlaced
  <2>2. CASE rescue.phase = "scanning"
    <3>1. EarlierNames = {} BY <2>2 DEF RescuePlaced, EarlierNames
    <3> QED BY <1>2, <1>3, <2>1, <3>1
  <2>3. CASE rescue.phase # "scanning"
    <3>1. rescue'.rows = rescue.rows /\ rescue'.log = rescue.log
          /\ rescue'.phase # "failed"
      BY <2>3
    <3>2. \A n : Staged(n)' = Staged(n) /\ Content(n)' = Content(n)
      BY <3>1 DEF Staged, Content, Mine
    <3> QED BY <1>3, <2>1, <3>1, <3>2
  <2> QED BY <2>2, <2>3
<1>6. raw.asked = "recover" => \A n \in intruded' : outputs'[n] = Foreign' 
  BY DEF RescuePlaced, Foreign, Another
<1> QED BY <1>1, <1>2, <1>4, <1>5, <1>6 DEF RescuePlaced

\* The place a run has reached among its files
LEMMA NextName ==
  ASSUME RescueTypeOK, rescue.next <= Len(Names), NEW name, name = Names[rescue.next],
         rescue'.next = rescue.next + 1
  PROVE  name \in ToSet(Names) /\ EarlierNames' = EarlierNames \cup {name}
<1>1. rescue.next \in 1 .. 3 BY NamesAre DEF RescueTypeOK, RescueStates
<1>2. name \in ToSet(Names) BY <1>1, NamesAre
<1>3. (1 .. (rescue.next + 1) - 1) = (1 .. rescue.next - 1) \cup {rescue.next} BY <1>1
<1>4. EarlierNames' = {Names[i] : i \in 1 .. (rescue.next + 1) - 1} BY DEF EarlierNames, Names
<1> QED BY <1>2, <1>3, <1>4 DEF EarlierNames

LEMMA RescuePlacedStep ==
  ASSUME RescueTypeOK, RescuePlaced, [RescueNext]_rescueVars PROVE RescuePlaced'
<1>t. rescue \in RescueStates /\ (rescue.phase # "idle" => rescue.run # 0)
  BY DEF RescueTypeOK
<1>r. rescue.run \in Nat BY <1>t, RescueAssumption DEF RescueStates, RescueAssumption
<1>d. DOMAIN outputs = ToSet(Names) /\ intruded \subseteq ToSet(Names)
  BY DEF RescueTypeOK
<1>m. rescue.made \subseteq ToSet(Names) BY <1>t DEF RescueStates
<1>v. \A n \in ToSet(Names) : outputs[n].by \in Int
  <2>1. ASSUME NEW n \in ToSet(Names) PROVE outputs[n].by \in Int
    <3>1. outputs[n].by \in {Nobody, Another} \cup (1 .. RescueRuns) BY DEF RescueTypeOK
    <3> QED BY <3>1, RescueAssumption DEF Nobody, Another, RescueAssumption
  <2> QED BY <2>1
<1>1. CASE UNCHANGED rescueVars
  <2>1. \A n : Staged(n)' = Staged(n) /\ Content(n)' = Content(n)
    BY <1>1 DEF rescueVars, Staged, Content, Mine
  <2>2. OfRun' = OfRun /\ EarlierNames' = EarlierNames BY <1>1 DEF rescueVars, OfRun, EarlierNames
  <2> QED BY <1>1, <2>1, <2>2 DEF RescuePlaced, rescueVars, Foreign
<1>2. CASE StartRescue
  <2>1. /\ raw' = raw /\ outputs' = outputs /\ intruded' = intruded
        /\ rescue'.run = rescue.run + 1 /\ rescue'.next = 1 /\ rescue'.made = {} /\ rescue'.left = {}
        /\ rescue'.phase \in {"scanning", "failed"}
    BY <1>2 DEF StartRescue, Idle
  <2>2. \A n \in ToSet(Names) : outputs'[n].by <= rescue.run BY <2>1 DEF RescuePlaced
  <2>3. \A n \in ToSet(Names) : outputs'[n].by <= rescue'.run /\ outputs'[n].by # rescue'.run
    BY <1>r, <1>v, <2>1, <2>2
  <2>4. OfRun' = {} BY <1>d, <2>1, <2>3 DEF OfRun
  <2>5. EarlierNames' = {} BY <2>1 DEF EarlierNames
  <2> QED BY <2>1, <2>3, <2>4, <2>5, NamesAre DEF RescuePlaced, Foreign
<1>3. CASE RecoverPage \/ InventoryPage \/ NextFile
  <2>1. /\ rescue.phase = "scanning" /\ raw' = raw /\ outputs' = outputs /\ intruded' = intruded
    BY <1>3 DEF RecoverPage, InventoryPage, NextFile, InFile, Cursor
  <2>2. /\ rescue'.run = rescue.run /\ rescue'.next = rescue.next /\ rescue'.made = rescue.made
        /\ rescue'.left = rescue.left
        /\ rescue'.phase \in {"scanning", "failed"}
    <3>1. CASE RecoverPage BY <1>t, <2>1, <3>1 DEF RecoverPage, Step, Stop, RescueStates
    <3>2. CASE InventoryPage BY <1>t, <2>1, <3>2 DEF InventoryPage, Step, RescueStates
    <3>3. CASE NextFile BY <1>t, <2>1, <3>3 DEF NextFile, RescueStates
    <3> QED BY <1>3, <3>1, <3>2, <3>3
  <2> QED BY <2>1, <2>2, RescuePlacedStays
<1>4. CASE FinishScan
  <2>1. /\ rescue.phase = "scanning" /\ raw' = raw /\ outputs' = outputs /\ intruded' = intruded
        /\ (Stop("publishing") \/ Stop("failed"))
    BY <1>4 DEF FinishScan
  <2>2. /\ rescue'.run = rescue.run /\ rescue'.next = rescue.next /\ rescue'.made = rescue.made
        /\ rescue'.left = rescue.left
        /\ rescue'.rows = rescue.rows /\ rescue'.log = rescue.log
        /\ rescue'.phase \in {"publishing", "failed"}
    BY <1>t, <2>1 DEF Stop, RescueStates
  <2> QED BY <2>1, <2>2, RescuePlacedStays
<1>5. CASE FinishRescue
  <2>1. /\ rescue.phase = "publishing" /\ raw' = raw /\ outputs' = outputs
        /\ intruded' = intruded /\ Stop("done") /\ ~(rescue.next <= Len(Names))
    BY <1>5, <1>t, NamesAre DEF FinishRescue, RescueStates
  <2>2. /\ rescue'.run = rescue.run /\ rescue'.next = rescue.next /\ rescue'.made = rescue.made
        /\ rescue'.left = rescue.left
        /\ rescue'.rows = rescue.rows /\ rescue'.log = rescue.log /\ rescue'.phase = "done"
    BY <1>t, <2>1 DEF Stop, RescueStates
  <2>3. rescue.next = Len(Names) + 1 BY <1>t, <2>1, NamesAre DEF RescueStates
  <2> QED BY <2>1, <2>2, <2>3, RescuePlacedStays
<1>6. CASE Killed
  <2>1. /\ raw' = raw /\ outputs' = outputs /\ intruded' = intruded
        /\ rescue.phase # "failed" /\ Stop("killed")
    BY <1>6 DEF Killed, Busy
  <2>2. /\ rescue'.run = rescue.run /\ rescue'.next = rescue.next /\ rescue'.made = rescue.made
        /\ rescue'.left = rescue.left
        /\ rescue'.rows = rescue.rows /\ rescue'.log = rescue.log /\ rescue'.phase = "killed"
    BY <1>t, <2>1 DEF Stop, RescueStates
  <2> QED BY <2>1, <2>2, RescuePlacedStays
<1>7. CASE PublishNext
  <2> DEFINE name == Names[rescue.next]
  <2>1. /\ rescue.phase = "publishing" /\ raw.asked = "recover" /\ rescue.next <= Len(Names)
        /\ raw' = raw /\ intruded' = intruded
    BY <1>7 DEF PublishNext
  <2>2. /\ rescue.made = {n \in EarlierNames : Staged(n)} /\ OfRun = rescue.made
        /\ \A n \in rescue.made : outputs[n] = Content(n)
        /\ \A n \in intruded : outputs[n] = Foreign
        /\ \A n \in ToSet(Names) : outputs[n].by <= rescue.run
        /\ rescue.left = {}
    BY <2>1 DEF RescuePlaced
  <2>3. ASSUME rescue'.rows = rescue.rows, rescue'.log = rescue.log, rescue'.run = rescue.run
        PROVE  \A n : Staged(n)' = Staged(n) /\ Content(n)' = Content(n)
    BY <2>1, <2>3 DEF Staged, Content, Mine
  <2>4. ASSUME ~Staged(name), rescue' = [rescue EXCEPT !.next = @ + 1], UNCHANGED outputs
        PROVE  RescuePlaced'
    <3>1. /\ rescue'.run = rescue.run /\ rescue'.next = rescue.next + 1
          /\ rescue'.made = rescue.made /\ rescue'.rows = rescue.rows
          /\ rescue'.log = rescue.log /\ rescue'.phase = "publishing"
          /\ rescue'.left = {}
      BY <1>t, <2>1, <2>2, <2>4 DEF RescueStates
    <3>2. EarlierNames' = EarlierNames \cup {name} BY <2>1, <3>1, NextName
    <3>3. OfRun' = OfRun BY <2>4, <3>1 DEF OfRun
    <3>4. \A n : Staged(n)' = Staged(n) /\ Content(n)' = Content(n) BY <2>3, <3>1
    <3>5. rescue'.made = {n \in EarlierNames' : Staged(n)'}
      BY <2>2, <2>4, <3>1, <3>2, <3>4
    <3> HIDE DEF name
    <3> QED BY <2>1, <2>2, <2>4, <3>1, <3>3, <3>4, <3>5 DEF RescuePlaced, Foreign
  <2>5. ASSUME Staged(name), outputs[name] = Absent,
               rescue' = [rescue EXCEPT !.next = @ + 1, !.made = @ \cup {name}],
               outputs' = [outputs EXCEPT ![name] = Content(name)]
        PROVE  RescuePlaced'
    <3>1. /\ rescue'.run = rescue.run /\ rescue'.next = rescue.next + 1
          /\ rescue'.made = rescue.made \cup {name} /\ rescue'.rows = rescue.rows
          /\ rescue'.log = rescue.log /\ rescue'.phase = "publishing"
          /\ rescue'.left = {}
      BY <1>t, <2>1, <2>2, <2>5 DEF RescueStates
    <3>2. name \in ToSet(Names) /\ EarlierNames' = EarlierNames \cup {name} BY <2>1, <3>1, NextName
    <3>4. \A n : Staged(n)' = Staged(n) /\ Content(n)' = Content(n) BY <2>3, <3>1
    <3>5. rescue'.made = {n \in EarlierNames' : Staged(n)'}
      BY <2>2, <2>5, <3>1, <3>2, <3>4
    <3>6. Content(name).by = rescue.run BY DEF Content, Mine
    <3> DEFINE c == Content(name)
    <3> HIDE DEF c, name
    <3>7. /\ outputs'[name] = c /\ DOMAIN outputs' = DOMAIN outputs
          /\ \A n \in ToSet(Names) : n # name => outputs'[n] = outputs[n]
      BY <1>d, <2>5, <3>2 DEF c, name
    <3>8. OfRun' = OfRun \cup {name}
      BY <1>d, <3>1, <3>2, <3>6, <3>7 DEF OfRun, c, name
    <3>9. \A n \in rescue'.made : outputs'[n] = Content(n)'
      <4>1. ASSUME NEW n \in rescue.made PROVE outputs'[n] = Content(n)'
        <5>1. n \in OfRun /\ outputs[n] = Content(n) BY <2>2
        <5>2. n # name
          <6>1. outputs[n].by = rescue.run BY <5>1 DEF OfRun
          <6>2. outputs[name].by = -1 BY <2>5 DEF Absent, Nobody, name
          <6> QED BY <1>r, <6>1, <6>2
        <5> QED BY <1>m, <3>4, <3>7, <5>1, <5>2
      <4>2. ASSUME NEW n, n = name PROVE outputs'[n] = Content(n)'
        BY <3>4, <3>7, <4>2 DEF c
      <4>3. rescue'.made = rescue.made \cup {name} BY <3>1 DEF name
      <4> QED BY <4>1, <4>2, <4>3
    <3>10. \A n \in intruded : outputs'[n] = Foreign
      <4>1. name \notin intruded
        BY <2>2, <2>5 DEF Foreign, Absent, Another, Nobody, name
      <4> QED BY <1>d, <2>2, <3>7, <4>1
    <3>11. \A n \in ToSet(Names) : outputs'[n].by <= rescue'.run
      BY <1>r, <2>2, <3>1, <3>6, <3>7 DEF c
    <3>12. OfRun' = rescue'.made BY <2>2, <3>1, <3>8 DEF name
    <3> QED BY <2>1, <3>1, <3>5, <3>9, <3>10, <3>11, <3>12 DEF RescuePlaced, Foreign
  <2>6. ASSUME NEW left \in SUBSET rescue.made, outputs' = Withdrawn(left),
               rescue' = [rescue EXCEPT !.phase = "failed", !.left = left]
        PROVE  RescuePlaced'
    <3>1. /\ rescue'.run = rescue.run /\ rescue'.next = rescue.next
          /\ rescue'.made = rescue.made /\ rescue'.rows = rescue.rows
          /\ rescue'.log = rescue.log /\ rescue'.phase = "failed" /\ rescue'.left = left
      BY <1>t, <2>1, <2>6 DEF RescueStates
    <3>2. \A n : Staged(n)' = Staged(n) BY <2>3, <3>1
    <3>3. EarlierNames' = EarlierNames BY <3>1 DEF EarlierNames
    <3>4. outputs' = [n \in ToSet(Names) |->
                        IF n \in rescue.made \ left THEN Absent ELSE outputs[n]]
      BY <1>d, <2>6 DEF Withdrawn
    <3>5. OfRun' = left
      <4>1. ASSUME NEW n \in OfRun' PROVE n \in left
        <5>1. n \in ToSet(Names) /\ outputs'[n].by = rescue.run BY <3>1, <3>4, <4>1 DEF OfRun
        <5>2. n \notin rescue.made \ left
          <6>1. Absent.by = -1 BY DEF Absent, Nobody
          <6> QED BY <1>r, <3>4, <5>1, <6>1
        <5>3. n \in OfRun BY <1>d, <3>4, <5>1, <5>2 DEF OfRun
        <5> QED BY <2>2, <5>2, <5>3
      <4>2. ASSUME NEW n \in left PROVE n \in OfRun'
        <5>1. n \in OfRun /\ n \in ToSet(Names) BY <1>m, <2>2, <2>6
        <5> QED BY <3>1, <3>4, <4>2, <5>1 DEF OfRun
      <4> QED BY <4>1, <4>2
    <3>6. \A n \in intruded : outputs'[n] = Foreign
      <4>1. ASSUME NEW n \in intruded PROVE n \notin rescue.made
        <5>1. outputs[n].by = -2 BY <2>2 DEF Foreign, Another
        <5>2. n \notin OfRun BY <1>r, <5>1 DEF OfRun
        <5> QED BY <2>2, <5>2
      <4> QED BY <1>d, <2>2, <3>4, <4>1
    <3>7. \A n \in ToSet(Names) : outputs'[n].by <= rescue'.run
      <4>1. Absent.by = -1 BY DEF Absent, Nobody
      <4> QED BY <1>r, <2>2, <3>1, <3>4, <4>1
    <3> QED BY <2>1, <2>2, <2>6, <3>1, <3>2, <3>3, <3>5, <3>6, <3>7 DEF RescuePlaced, Foreign
  <2> QED BY <1>7, <2>4, <2>5, <2>6 DEF PublishNext
<1>8. CASE RenameNext
  <2> DEFINE name == Names[rescue.next]
  <2>1. /\ rescue.phase = "publishing" /\ raw.asked = "scan" /\ rescue.next <= Len(Names)
        /\ raw' = raw /\ intruded' = intruded
    BY <1>8 DEF RenameNext
  <2>2. /\ OfRun = EarlierNames /\ \A n \in ToSet(Names) : outputs[n].by <= rescue.run
        /\ rescue.left = {}
    BY <2>1 DEF RescuePlaced
  <2>3. ASSUME outputs' = [outputs EXCEPT ![name] = Mine(<<>>)],
               rescue' = [rescue EXCEPT !.next = @ + 1, !.made = @ \cup {name}]
        PROVE  RescuePlaced'
    <3>1. /\ rescue'.run = rescue.run /\ rescue'.next = rescue.next + 1
          /\ rescue'.phase = "publishing" /\ rescue'.left = {}
      BY <1>t, <2>1, <2>2, <2>3 DEF RescueStates
    <3>2. name \in ToSet(Names) /\ EarlierNames' = EarlierNames \cup {name} BY <2>1, <3>1, NextName
    <3> DEFINE c == Mine(<<>>)
    <3>3. c.by = rescue.run BY DEF Mine
    <3> HIDE DEF c, name
    <3>4. /\ outputs'[name] = c /\ DOMAIN outputs' = DOMAIN outputs
          /\ \A n \in ToSet(Names) : n # name => outputs'[n] = outputs[n]
      BY <1>d, <2>3, <3>2 DEF c, name
    <3>5. OfRun' = OfRun \cup {name}
      BY <1>d, <3>1, <3>2, <3>3, <3>4 DEF OfRun
    <3>6. \A n \in ToSet(Names) : outputs'[n].by <= rescue'.run
      BY <1>r, <2>2, <3>1, <3>3, <3>4
    <3>7. OfRun' = EarlierNames' BY <2>2, <3>2, <3>5
    <3> QED BY <2>1, <3>1, <3>6, <3>7 DEF RescuePlaced
  <2>4. ASSUME Stop("failed"), UNCHANGED outputs PROVE RescuePlaced'
    <3>1. /\ rescue'.run = rescue.run /\ rescue'.next = rescue.next /\ rescue'.phase = "failed"
          /\ rescue'.left = {}
      BY <1>t, <2>2, <2>4 DEF Stop, RescueStates
    <3>2. OfRun' = OfRun /\ EarlierNames' = EarlierNames BY <2>4, <3>1 DEF OfRun, EarlierNames
    <3> QED BY <2>1, <2>2, <2>4, <3>1, <3>2 DEF RescuePlaced
  <2> QED BY <1>8, <2>3, <2>4 DEF RenameNext
<1>9. CASE IntrudeOutput
  <2>1. rescue' = rescue /\ raw' = raw BY <1>9 DEF IntrudeOutput
  <2>2. PICK n \in ToSet(Names) :
          /\ outputs[n] = Absent /\ outputs' = [outputs EXCEPT ![n] = Foreign]
          /\ intruded' = intruded \cup {n}
    BY <1>9 DEF IntrudeOutput
  <2>3. Foreign.by = -2 /\ outputs[n].by = -1 BY <2>2 DEF Foreign, Absent, Another, Nobody
  <2> DEFINE c == Foreign
  <2> HIDE DEF c
  <2>4. /\ outputs'[n] = c /\ DOMAIN outputs' = DOMAIN outputs
        /\ \A m \in ToSet(Names) : m # n => outputs'[m] = outputs[m]
    BY <1>d, <2>2 DEF c
  <2>5. OfRun' = OfRun
    <3>1. c.by # rescue.run /\ outputs[n].by # rescue.run BY <1>r, <2>3 DEF c
    <3> QED BY <1>d, <2>1, <2>4, <3>1 DEF OfRun
  <2>6. EarlierNames' = EarlierNames /\ \A m : Staged(m)' = Staged(m) /\ Content(m)' = Content(m)
    BY <2>1 DEF EarlierNames, Staged, Content, Mine
  <2>7. \A m \in ToSet(Names) : outputs'[m].by <= rescue'.run
    <3>1. \A m \in ToSet(Names) : outputs[m].by <= rescue.run BY DEF RescuePlaced
    <3>2. c.by <= rescue.run BY <1>r, <2>3 DEF c
    <3> QED BY <2>1, <2>4, <3>1, <3>2
  <2>8. ASSUME raw.asked = "recover", rescue.phase # "failed"
        PROVE  \A m \in rescue.made : outputs'[m] = Content(m)
    <3>1. OfRun = rescue.made /\ \A m \in rescue.made : outputs[m] = Content(m)
      BY <2>8 DEF RescuePlaced
    <3>2. n \notin OfRun BY <1>r, <2>3 DEF OfRun
    <3> QED BY <1>m, <2>4, <3>1, <3>2
  <2>9. raw.asked = "recover" => \A m \in intruded' : outputs'[m] = c
    <3>1. raw.asked = "recover" => \A m \in intruded : outputs[m] = c BY DEF RescuePlaced, c
    <3> QED BY <1>d, <2>2, <2>4, <3>1
  <2> QED BY <2>1, <2>5, <2>6, <2>7, <2>8, <2>9 DEF RescuePlaced, c, Foreign
<1> QED
  BY <1>1, <1>2, <1>3, <1>4, <1>5, <1>6, <1>7, <1>8, <1>9 DEF RescueNext

\* The invariants give the property.
LEMMA RescueWholeHolds == RescueTypeOK /\ RescueLogged /\ RescuePlaced => RescueWhole
<1> SUFFICES ASSUME RescueTypeOK, RescueLogged, RescuePlaced PROVE RescueWhole OBVIOUS
<1>t. rescue \in RescueStates /\ raw.asked \in {"scan", "recover"}
  BY RawTypes DEF RescueTypeOK, StoredWorld
<1>r. rescue.next \in 1 .. 4 BY <1>t, NamesAre DEF RescueStates
<1>1. raw.asked = "recover" => \A n \in intruded : outputs[n] = Foreign BY DEF RescuePlaced
<1>2. rescue.next = 4 => EarlierNames = ToSet(Names)
  <2>1. DOMAIN Names = 1 .. 3 BY NamesAre DEF Names
  <2> QED BY <2>1 DEF EarlierNames, ToSet
<1>3. "evidence" \in EarlierNames => rescue.next = 4
  <2> SUFFICES ASSUME NEW i \in 1 .. rescue.next - 1, Names[i] = "evidence"
               PROVE  rescue.next = 4
    BY DEF EarlierNames
  <2>1. i \in 1 .. 3 BY <1>r
  <2>2. i # 1 /\ i # 2 BY NamesAre
  <2> QED BY <1>r, <2>1, <2>2
<1>4. ASSUME raw.asked = "recover", rescue.next = 4, rescue.phase # "failed"
      PROVE  OfRun = {n \in ToSet(Names) : Staged(n)}
  BY <1>2, <1>4 DEF RescuePlaced
<1>5. ASSUME rescue.phase = "done", raw.asked = "recover"
      PROVE  /\ OfRun = {n \in ToSet(Names) : Staged(n)}
             /\ Len(rescue.log) = Cardinality(Wanted)
             /\ {rescue.log[i].row : i \in DOMAIN rescue.log} = WantedIds
             /\ outputs["evidence"].rows = rescue.log
             /\ "output" \in OfRun =>
                  outputs["output"].rows
                    = [i \in DOMAIN ExportedLines(rescue.log) |-> ExportedLines(rescue.log)[i].row]
  <2>1. rescue.next = 4 BY <1>5, NamesAre DEF RescuePlaced
  <2>2. OfRun = {n \in ToSet(Names) : Staged(n)} BY <1>4, <1>5, <2>1
  <2>3. OfRun = rescue.made /\ \A n \in rescue.made : outputs[n] = Content(n)
    BY <1>5 DEF RescuePlaced
  <2>4. /\ Len(rescue.log) = Cardinality(SeenRows)
        /\ {rescue.log[i].row : i \in DOMAIN rescue.log} = {WantedId(w) : w \in SeenRows}
        /\ RowsMatch(rescue.rows, ExportedLines(rescue.log))
        /\ rescue.file > Len(RawFiles)
    BY <1>5 DEF RescueLogged
  <2>5. SeenRows = Wanted
    <3> SUFFICES ASSUME NEW w \in Wanted PROVE BehindCursor(w) BY DEF SeenRows
    <3>1. PICK f \in InGroup : \E n \in DOMAIN RawFiles[f].pages :
            IsOurs(f, n) /\ \E i \in DOMAIN Given(PageAt(f, n)) : w = <<f, n, i>>
      BY WantedAre
    <3>2. w[1] = f BY <3>1
    <3>3. f \in DOMAIN RawFiles BY DEF InGroup
    <3>4. DOMAIN RawFiles = 1 .. Len(RawFiles) /\ Len(RawFiles) \in Nat
      BY RawTypes, LenProperties
    <3>5. rescue.file \in Nat BY <1>t DEF RescueStates
    <3> QED BY <2>4, <3>2, <3>3, <3>4, <3>5 DEF BehindCursor
  <2>6. {WantedId(w) : w \in SeenRows} = WantedIds BY <2>5 DEF WantedIds, WantedId
  <2>7. outputs["evidence"].rows = rescue.log
    <3>1. "evidence" \in OfRun BY <2>2, NamesAre DEF Staged
    <3>2. outputs["evidence"] = Content("evidence") BY <2>3, <3>1
    <3>3. Content("evidence").rows = rescue.log BY DEF Content, Mine
    <3> QED BY <3>2, <3>3
  <2>8. ASSUME "output" \in OfRun
        PROVE  outputs["output"].rows
                 = [i \in DOMAIN ExportedLines(rescue.log) |-> ExportedLines(rescue.log)[i].row]
    <3> DEFINE a == rescue.rows
               b == ExportedLines(rescue.log)
    <3>1. outputs["output"].rows = [i \in DOMAIN a |-> a[i].id]
      <4>1. outputs["output"] = Content("output") BY <2>3, <2>8
      <4>2. Content("output").rows = [i \in DOMAIN a |-> a[i].id] BY DEF Content, Mine
      <4> QED BY <4>1, <4>2
    <3>2. a \in Seq(StoredRow) /\ b \in Seq(Lines)
      BY <1>t, KeptFacts DEF RescueStates, ExportedLines
    <3>3. Len(a) = Len(b) /\ \A j \in 1 .. Len(a) : a[j].id = b[j].row
      BY <2>4 DEF RowsMatch
    <3> HIDE DEF a, b
    <3>4. DOMAIN a = 1 .. Len(a) /\ DOMAIN b = 1 .. Len(a) BY <3>2, <3>3, LenProperties
    <3>5. [i \in DOMAIN a |-> a[i].id] = [i \in DOMAIN b |-> b[i].row] BY <3>3, <3>4
    <3> QED BY <3>1, <3>5 DEF b
  <2> QED BY <2>2, <2>4, <2>5, <2>6, <2>7, <2>8
<1>6. rescue.phase = "failed" /\ raw.asked = "recover" =>
        OfRun = rescue.left /\ rescue.left \subseteq rescue.made
        /\ rescue.made \subseteq EarlierNames /\ rescue.next <= Len(Names)
  BY DEF RescuePlaced
<1>7. ASSUME "evidence" \in OfRun
      PROVE  IF raw.asked = "scan" THEN OfRun = ToSet(Names)
             ELSE OfRun = {n \in ToSet(Names) : Staged(n)}
  <2>1. CASE raw.asked = "scan"
    BY <1>2, <1>3, <1>7, <2>1 DEF RescuePlaced
  <2>2. CASE raw.asked = "recover"
    <3>1. rescue.phase # "failed" BY <1>3, <1>6, <1>7, <2>2, NamesAre
    <3>2. "evidence" \in EarlierNames BY <1>7, <2>2, <3>1 DEF RescuePlaced
    <3> QED BY <1>3, <1>4, <2>2, <3>1, <3>2
  <2> QED BY <1>t, <2>1, <2>2
<1> QED BY <1>1, <1>5, <1>6, <1>7 DEF RescueWhole, ExportedLines, CalledExported

\* The state of the inventory and of the recovery (ScanStorages and
\* RecoverStorage in storage_scan.go) keeps its types: cursors, counters and
\* buckets, rows and evidence, and what stands in the output directory.
THEOREM RescueTypesKept == RescueSpec => []RescueTypeOK
<1> QED BY RescueTypesInit, RescueTypesStep, PTL DEF RescueSpec

\* Whatever the raw files hold, whatever fails, and whenever another program
\* creates a file or the process is killed: a recovery that ends well has
\* published all it staged, its evidence has one line for every row of every page
\* of the storage and its output the rows that evidence calls exported, one that
\* fails leaves none of its files but what could not be removed and none of
\* another program is replaced, and the evidence of a run or its summary of an
\* inventory never stands without what that run has to go with it (RecoverStorage, ScanStorages and their publication in storage_scan.go).
THEOREM RescuesAreWhole == RescueSpec => []RescueWhole
<1> DEFINE Inv == RescueTypeOK /\ RescueLogged /\ RescuePlaced
<1>1. RescueInit => Inv BY RescueTypesInit, RescueLoggedInit, RescuePlacedInit
<1>2. Inv /\ [RescueNext]_rescueVars => Inv' BY RescueTypesStep, RescueLoggedStep, RescuePlacedStep
<1>3. Inv => RescueWhole BY RescueWholeHolds
<1> QED BY <1>1, <1>2, <1>3, PTL DEF RescueSpec

-----------------------------------------------------------------------------
(* Output files (OutputFiles) *)

Marks == {<<"head">>} \cup ({"phase"} \X Nat)
RowMarks == {"row"} \X (OutTables \X Nat)
NewItems == Marks \cup RowMarks \cup FieldItems
AnyItems == NewItems \cup {<<"old">>, <<"gone">>}
PhaseRecord == [start : Nat, rows : Nat]
DumpRecord == [phases : Seq(PhaseRecord), closed : BOOLEAN, sealed : BOOLEAN]

\* What a dump holds as long as it is written: its phases follow each other
\* without gap, and between their heads stand the fields of the rows.
PhaseEnd(W, ph, n) == IF n = Len(ph) THEN Len(W) ELSE ph[n + 1].start - 1
DumpAt(W, ph, rows) ==
  /\ W \in Seq(NewItems) /\ ph \in Seq(PhaseRecord) /\ ph # <<>>
  /\ Kept(W, FieldItems) = FieldsOf(rows)
  /\ \A n \in DOMAIN ph :
       /\ ph[n].start \in 1 .. Len(W) /\ W[ph[n].start] = <<"phase", n + 1>>
       /\ PhaseEnd(W, ph, n) - ph[n].start = Width * ph[n].rows

RowsInOrder(rows) == [n \in DOMAIN rows |-> <<"row", rows[n]>>]

\* What is in the files of a table while rows are written
FilesOf(t) ==
  LET p == PathOf(t)
  IN IF p \notin begun
     THEN /\ wrote[t] = <<>> /\ outFormat # "sql" /\ dump[p] = NoDump
          /\ disk[p] = Gone \/ (disk[p] = <<>> /\ t \in refused)
     ELSE IF outFormat = "dmp"
     THEN /\ dump[p].phases # <<>>
          /\ \/ dump[p].closed
             \/ wrote[t] # <<>> /\ DumpAt(WholeFile(p), dump[p].phases, wrote[t])
     ELSE /\ WholeFile(p) \in Seq(NewItems)
          /\ Kept(WholeFile(p), RowItems(t)) = RowsInOrder(wrote[t])
          /\ outFormat = "fldr" /\ wrote[t] = <<>> => t \in refused /\ p \in Range(opened)

OutTyped ==
  /\ outFormat \in {"sql", "fldr", "dmp"} /\ split \in BOOLEAN
  /\ selected \in SUBSET OutTables /\ selected # {}
  /\ ~split /\ outFormat # "sql" => \A t, u \in selected : t = u
  /\ disk \in [Paths -> Seq(AnyItems)] /\ held \in [Paths -> Seq(AnyItems)]
  /\ opened \in Seq(Paths) /\ begun \subseteq {PathOf(t) : t \in selected}
  /\ dump \in [Paths -> DumpRecord]
  /\ wrote \in [OutTables -> Seq(OutTables \X Nat)]
  /\ \A t \in OutTables : wrote[t] \in Seq({t} \X Nat)
  /\ refused \subseteq selected /\ full \subseteq Paths
  /\ outPhase \in {"start", "writing", "closed", "error"}

Writing ==
  /\ Range(opened) \subseteq begun /\ (split => Len(opened) <= MaxOpen)
  /\ \A p \in Paths : p \notin Range(opened) => held[p] = <<>>
  /\ \A p \in Paths : ~dump[p].sealed /\ (outFormat # "dmp" => dump[p].phases = <<>>)
  /\ \A t \in selected : FilesOf(t)

OutInv ==
  /\ OutTyped
  /\ outPhase = "start" =>
       /\ opened = <<>> /\ begun = {} /\ refused = {}
       /\ \A p \in Paths : dump[p] = NoDump /\ held[p] = <<>>
       /\ \A t \in OutTables : wrote[t] = <<>>
  /\ outPhase = "writing" => Writing
  /\ outPhase \in {"closed", "error"} => OutputsExact


\* A buffered write appends: what does not fit any more goes to the disk.
InAll(w) == w.disk \o w.held
Behind(d, h, items) == (d \o h) \o items

\* What the buffer held and what the file has, together, gain the items written
\* and nothing else, wherever the buffer is cut (bufio.Writer).
LEMMA WrittenWhole ==
  ASSUME NEW T, NEW d \in Seq(T), NEW h \in Seq(T), NEW items \in Seq(T)
  PROVE  /\ Written(d, h, items).disk \in Seq(T) /\ Written(d, h, items).held \in Seq(T)
         /\ InAll(Written(d, h, items)) = Behind(d, h, items)
<1>1. PICK all : all = h \o items OBVIOUS
<1>2. all \in Seq(T) /\ Len(all) \in Nat BY <1>1
<1>3. BufferSize \in Nat \ {0} BY OutputAssumption DEF OutputAssumption
<1>4. PICK cut : cut = IF Len(all) < BufferSize THEN 0 ELSE Len(all) - (Len(all) % BufferSize)
  OBVIOUS
<1>5. Len(all) % BufferSize \in 0 .. BufferSize - 1 BY <1>2, <1>3
<1>6. cut \in Nat /\ cut <= Len(all) BY <1>2, <1>3, <1>4, <1>5
<1>7. Written(d, h, items)
        = [disk |-> d \o SubSeq(all, 1, cut), held |-> SubSeq(all, cut + 1, Len(all))]
  BY <1>1, <1>4, Zenon DEF Written
<1>8. PICK x, y : x = SubSeq(all, 1, cut) /\ y = SubSeq(all, cut + 1, Len(all)) OBVIOUS
<1>9. x \in Seq(T) /\ y \in Seq(T) /\ all = x \o y BY <1>2, <1>6, <1>8, CutInTwo, Zenon
<1>10. Written(d, h, items) = [disk |-> d \o x, held |-> y] BY <1>7, <1>8, Zenon
<1>11. Written(d, h, items).disk = d \o x /\ Written(d, h, items).held = y
  <2>1. PICK w : w = Written(d, h, items) OBVIOUS
  <2>2. w.disk = d \o x /\ w.held = y BY ONLY <2>1, <1>10
  <2> QED BY <2>1, <2>2, Zenon
<1>12. d \o x \in Seq(T) BY <1>9, ConcatProperties
<1>13. PICK e : e = d \o x OBVIOUS
<1>14. e \o y = (d \o h) \o items
  <2>1. (d \o x) \o y = d \o all
    <3>1. x \in Seq(T) /\ y \in Seq(T) BY <1>9
    <3>2. (d \o x) \o y = d \o (x \o y) BY <3>1, ConcatAssociative, SMTT(20)
    <3> QED BY <1>9, <3>2, Zenon
  <2>2. (d \o h) \o items = d \o all BY <1>1, ConcatAssociative
  <2> QED BY <1>13, <2>1, <2>2, Zenon
<1>15. InAll(Written(d, h, items)) = e \o y BY <1>11, <1>13, Zenon DEF InAll
<1> QED BY <1>9, <1>11, <1>12, <1>14, <1>15, Zenon DEF Behind

RowFields(r) == [c \in 1 .. Width |-> <<"field", r, c>>]
OutRows == OutTables \X Nat

\* One row more is its fields more, behind those of the rows before it
LEMMA FieldsAppended ==
  ASSUME NEW rows \in Seq(OutRows), NEW r \in OutRows
  PROVE  /\ FieldsOf(rows) \in Seq(FieldItems) /\ RowFields(r) \in Seq(FieldItems)
         /\ Len(RowFields(r)) = Width
         /\ FieldsOf(Append(rows, r)) = FieldsOf(rows) \o RowFields(r)
<1> DEFINE n == Len(rows)
           more == Append(rows, r)
           a == FieldsOf(rows)
           b == RowFields(r)
           c == FieldsOf(more)
<1>1. Width \in Nat \ {0} /\ n \in Nat BY OutputAssumption DEF OutputAssumption
<1>2. /\ more \in Seq(OutRows) /\ Len(more) = n + 1 /\ more[n + 1] = r
      /\ \A i \in 1 .. n : more[i] = rows[i]
  BY AppendProperties
<1>3. Width * n \in Nat /\ Width * (n + 1) = Width * n + Width BY <1>1, Divided
<1> HIDE DEF n, more
<1>4. ASSUME NEW m \in Nat, NEW k \in 1 .. Width * m
      PROVE  (k - 1) \div Width + 1 \in 1 .. m /\ 1 + ((k - 1) % Width) \in 1 .. Width
  <2>1. PICK j : j = k - 1 OBVIOUS
  <2>2. j \in Nat /\ j < Width * m BY <1>1, <2>1, Divided
  <2>3. j \div Width \in 0 .. m - 1 /\ j % Width \in 0 .. Width - 1 BY <1>1, <2>2, Divided
  <2>4. j \div Width + 1 \in 1 .. m /\ 1 + (j % Width) \in 1 .. Width BY <1>1, <2>3
  <2> QED BY <2>1, <2>4, Zenon
<1>5. \A i \in 1 .. n : rows[i] \in OutRows BY ElementOfSeq DEF n
<1>6. \A i \in 1 .. n + 1 : more[i] \in OutRows BY <1>2, ElementOfSeq
<1>7. FieldsOf(rows) = [k \in 1 .. Width * n |->
        <<"field", rows[(k - 1) \div Width + 1], 1 + ((k - 1) % Width)>>]
  BY DEF FieldsOf, n
<1>8. FieldsOf(more) = [k \in 1 .. Width * (n + 1) |->
        <<"field", more[(k - 1) \div Width + 1], 1 + ((k - 1) % Width)>>]
  BY <1>2 DEF FieldsOf
<1>9. \A k \in 1 .. Width * n : a[k] \in FieldItems
  <2> TAKE k \in 1 .. Width * n
  <2>1. PICK i, f : i = (k - 1) \div Width + 1 /\ f = 1 + ((k - 1) % Width) OBVIOUS
  <2>2. i \in 1 .. n /\ f \in 1 .. Width BY <1>1, <1>4, <2>1, Zenon
  <2>3. a[k] = <<"field", rows[i], f>> BY <1>7, <2>1, Zenon
  <2> HIDE DEF a
  <2> QED BY <1>5, <2>2, <2>3 DEF FieldItems, OutRows
<1>10. a \in Seq(FieldItems) /\ Len(a) = Width * n BY <1>3, <1>7, <1>9
<1>11. b \in Seq(FieldItems) /\ Len(b) = Width /\ \A f \in 1 .. Width : b[f] = <<"field", r, f>>
  BY <1>1 DEF FieldItems, OutRows, RowFields
<1>12. PICK o, l : o = Width * n /\ l = Width * (n + 1) OBVIOUS
<1>13. PICK x : x = a \o b OBVIOUS
<1>14. /\ x \in Seq(FieldItems) /\ Len(x) = Width * n + Width
       /\ \A k \in 1 .. Width * n : x[k] = a[k]
       /\ \A f \in 1 .. Width : x[Width * n + f] = b[f]
  <2>1. a \in Seq(FieldItems) /\ b \in Seq(FieldItems) /\ Len(a) = o /\ Len(b) = Width
    BY <1>10, <1>11, <1>12, Zenon
  <2>2. /\ x \in Seq(FieldItems) /\ Len(x) = Len(a) + Len(b)
        /\ \A i \in 1 .. Len(a) + Len(b) : x[i] = IF i <= Len(a) THEN a[i] ELSE b[i - Len(a)]
    BY <1>13, <2>1, ConcatProperties, Zenon
  <2>3. o \in Nat BY <1>3, <1>12
  <2>4. /\ Len(x) = o + Width
        /\ \A k \in 1 .. o : x[k] = a[k]
        /\ \A f \in 1 .. Width : x[o + f] = b[f]
    BY ONLY <1>1, <2>1, <2>2, <2>3
  <2> QED BY <1>12, <2>2, <2>4, Zenon
<1>15. \A k \in 1 .. Width * n : c[k] = a[k]
  <2> TAKE k \in 1 .. Width * n
  <2>1. PICK i, f : i = (k - 1) \div Width + 1 /\ f = 1 + ((k - 1) % Width) OBVIOUS
  <2>2. i \in 1 .. n BY <1>1, <1>4, <2>1, Zenon
  <2>3. a[k] = <<"field", rows[i], f>> BY <1>7, <2>1, Zenon
  <2>4. k \in 1 .. Width * (n + 1) BY <1>1, <1>3
  <2>5. c[k] = <<"field", more[i], f>> BY <1>8, <2>1, <2>4, Zenon
  <2> QED BY <1>2, <2>2, <2>3, <2>5, Zenon
<1>16. \A f \in 1 .. Width : c[Width * n + f] = b[f]
  <2> TAKE f \in 1 .. Width
  <2>1. PICK k : k = Width * n + f OBVIOUS
  <2>2. PICK j : j = k - 1 OBVIOUS
  <2>3. j \in Nat /\ Width * n <= j /\ j < Width * n + Width /\ j - Width * n = f - 1
    BY <1>1, <1>3, <2>1, <2>2
  <2>4. j \div Width = n /\ j % Width = f - 1 BY <1>1, <2>3, Divided
  <2>5. j \div Width + 1 = n + 1 /\ 1 + (j % Width) = f BY <1>1, <2>4
  <2>6. k \in 1 .. Width * (n + 1) BY <1>1, <1>3, <2>1
  <2>7. c[k] = <<"field", more[j \div Width + 1], 1 + (j % Width)>>
    BY <1>8, <2>2, <2>6, Zenon
  <2>8. c[k] = <<"field", r, f>> BY <1>2, <2>5, <2>7, Zenon
  <2> QED BY <1>11, <2>1, <2>8
<1>17. c \in Seq(FieldItems) /\ Len(c) = Width * n + Width
  <2>1. \A k \in 1 .. Width * (n + 1) : c[k] \in FieldItems
    <3> TAKE k \in 1 .. Width * (n + 1)
    <3>1. PICK i, f : i = (k - 1) \div Width + 1 /\ f = 1 + ((k - 1) % Width) OBVIOUS
    <3>2. i \in 1 .. n + 1 /\ f \in 1 .. Width BY <1>1, <1>4, <3>1
    <3>3. c[k] = <<"field", more[i], f>> BY <1>8, <3>1, Zenon
    <3> HIDE DEF c
    <3> QED BY <1>6, <3>2, <3>3 DEF FieldItems, OutRows
  <2>2. l \in Nat BY <1>3, <1>12, <1>1
  <2>3. c = [k \in 1 .. l |-> c[k]] BY <1>8, <1>12, Zenon
  <2>4. \A k \in 1 .. l : c[k] \in FieldItems BY <1>12, <2>1, Zenon
  <2> HIDE DEF c
  <2>5. c \in Seq(FieldItems) /\ Len(c) = l BY ONLY <2>2, <2>3, <2>4
  <2> QED BY <2>5, <1>3, <1>12, Zenon
<1>18. \A k \in 1 .. Width * n + Width : c[k] = x[k]
  <2> TAKE k \in 1 .. Width * n + Width
  <2>1. CASE k <= Width * n BY <1>3, <1>14, <1>15, <2>1
  <2>2. CASE k > Width * n
    <3>1. PICK f \in 1 .. Width : k = Width * n + f
      <4>1. k - Width * n \in 1 .. Width /\ k = Width * n + (k - Width * n) BY <1>1, <1>3, <2>2
      <4> QED BY <4>1
    <3> QED BY <1>14, <1>16, <3>1, Zenon
  <2> QED BY <1>3, <2>1, <2>2
<1> HIDE DEF a, b, c
<1>19. c = x BY <1>14, <1>17, <1>18, SeqEqual
<1> QED BY <1>10, <1>11, <1>13, <1>19, Zenon DEF a, b, c, more

\* The kinds of items are told apart: heads, phases, fields, rows
LEMMA ItemKinds ==
  /\ <<"head">> \in NewItems /\ <<"head">> \notin FieldItems
  /\ \A n \in Nat : <<"phase", n>> \in NewItems /\ <<"phase", n>> \notin FieldItems
  /\ FieldItems \subseteq NewItems
  /\ \A t \in OutTables, n \in Nat : <<"row", <<t, n>>>> \in NewItems
  /\ \A t \in OutTables : <<"head">> \notin RowItems(t)
  /\ <<"old">> \notin NewItems
BY DEF NewItems, Marks, RowMarks, FieldItems, RowItems

\* A dump that was just created
LEMMA NewDump ==
  DumpAt(<<<<"head">>, <<"phase", 2>>>>, <<[start |-> 2, rows |-> 0]>>, <<>>)
<1>1. PICK W : W = <<<<"head">>, <<"phase", 2>>>> OBVIOUS
<1>2. PICK ph : ph = <<[start |-> 2, rows |-> 0]>> OBVIOUS
<1>3. /\ W \in Seq(NewItems) /\ Len(W) = 2 /\ W[1] = <<"head">> /\ W[2] = <<"phase", 2>>
  BY <1>1, ItemKinds
<1>4. /\ ph \in Seq(PhaseRecord) /\ ph # <<>> /\ Len(ph) = 1 /\ DOMAIN ph = {1}
      /\ ph[1].start = 2 /\ ph[1].rows = 0
  BY <1>2 DEF PhaseRecord
<1>5. Kept(W, FieldItems) = <<>>
  <2>1. \A i \in 1 .. Len(W) : W[i] \notin FieldItems BY <1>3, ItemKinds
  <2> QED BY <1>3, <2>1, KeptNone, Zenon
<1>6. FieldsOf(<<>>) = <<>>
  <2>1. 1 .. Width * Len(<<>>) = {} BY OutputAssumption DEF OutputAssumption
  <2> QED BY <2>1 DEF FieldsOf
<1>7. PhaseEnd(W, ph, 1) = 2 BY <1>3, <1>4 DEF PhaseEnd
<1>8. Width * 0 = 0 BY OutputAssumption DEF OutputAssumption
<1>9. \A n \in DOMAIN ph :
       /\ ph[n].start \in 1 .. Len(W) /\ W[ph[n].start] = <<"phase", n + 1>>
       /\ PhaseEnd(W, ph, n) - ph[n].start = Width * ph[n].rows
  BY <1>3, <1>4, <1>7, <1>8
<1> QED BY <1>1, <1>2, <1>3, <1>4, <1>5, <1>6, <1>9, Zenon DEF DumpAt

\* A phase that begins where the last one ends
LEMMA PhaseAdded ==
  ASSUME NEW W, NEW ph, NEW rows, DumpAt(W, ph, rows), NEW V, NEW qh,
         V = W \o <<<<"phase", Len(ph) + 2>>>>,
         qh = Append(ph, [start |-> Len(W) + 1, rows |-> 0])
  PROVE  DumpAt(V, qh, rows)
<1> DEFINE l == Len(ph)
           m == Len(W)
           mark == <<"phase", l + 2>>
           new == [start |-> m + 1, rows |-> 0]
<1>1. W \in Seq(NewItems) /\ ph \in Seq(PhaseRecord) /\ ph # <<>>
      /\ Kept(W, FieldItems) = FieldsOf(rows) /\ DOMAIN ph = 1 .. l /\ l \in Nat \ {0} /\ m \in Nat
  BY DEF DumpAt
<1>2. \A n \in 1 .. l :
       /\ ph[n].start \in 1 .. m /\ W[ph[n].start] = <<"phase", n + 1>>
       /\ PhaseEnd(W, ph, n) - ph[n].start = Width * ph[n].rows
  BY <1>1 DEF DumpAt
<1>3. mark \in NewItems /\ mark \notin FieldItems BY <1>1, ItemKinds
<1>4. PICK one : one = <<mark>> OBVIOUS
<1>5. one \in Seq(NewItems) /\ Len(one) = 1 /\ one[1] = mark BY <1>3, <1>4
<1>6. V = W \o one BY <1>4
<1>7. new \in PhaseRecord BY <1>1 DEF PhaseRecord
<1>8. /\ qh \in Seq(PhaseRecord) /\ qh # <<>> /\ Len(qh) = l + 1 /\ qh[l + 1] = new
      /\ \A n \in 1 .. l : qh[n] = ph[n]
  BY <1>1, <1>7, AppendProperties
<1>9. DOMAIN qh = 1 .. l + 1 BY <1>8
<1>10. new.start = m + 1 /\ new.rows = 0 OBVIOUS
<1> HIDE DEF l, m, mark, new
<1>11. /\ V \in Seq(NewItems) /\ Len(V) = m + 1 /\ V[m + 1] = mark
       /\ \A i \in 1 .. m : V[i] = W[i]
  <2>1. /\ V \in Seq(NewItems) /\ Len(V) = Len(W) + Len(one)
        /\ \A i \in 1 .. Len(W) : V[i] = W[i]
        /\ \A i \in 1 .. Len(one) : V[Len(W) + i] = one[i]
    <3>1. W \in Seq(NewItems) /\ one \in Seq(NewItems) BY <1>1, <1>5
    <3> QED BY ONLY <3>1, <1>6, Joined
  <2>2. m = Len(W) BY DEF m
  <2> QED BY <1>1, <1>5, <2>1, <2>2
<1>12. Kept(V, FieldItems) = FieldsOf(rows)
  <2>1. Kept(one, FieldItems) = <<>> BY <1>3, <1>4, KeptOne, Zenon
  <2>2. Kept(V, FieldItems) = Kept(W, FieldItems) \o Kept(one, FieldItems)
    <3>1. W \in Seq(NewItems) /\ one \in Seq(NewItems) BY <1>1, <1>5
    <3>2. Kept(W \o one, FieldItems) = Kept(W, FieldItems) \o Kept(one, FieldItems)
      BY ONLY <3>1, KeptConcat
    <3> QED BY <1>6, <3>2, Zenon
  <2>3. Kept(W, FieldItems) \in Seq(NewItems) BY <1>1, KeptFacts, Zenon
  <2>4. Kept(W, FieldItems) \o <<>> = Kept(W, FieldItems) BY <2>3, ConcatEmptySeq, Zenon
  <2> QED BY <1>1, <2>1, <2>2, <2>4, Zenon
<1>13. Width * 0 = 0 BY OutputAssumption DEF OutputAssumption
<1>14. PhaseEnd(V, qh, l + 1) = m + 1 BY <1>8, <1>11 DEF PhaseEnd
<1>15. \A n \in 1 .. l : PhaseEnd(V, qh, n) = PhaseEnd(W, ph, n)
  <2> TAKE n \in 1 .. l
  <2>1. n # l + 1 BY <1>1
  <2>2. CASE n = l
    <3>1. PhaseEnd(V, qh, n) = qh[n + 1].start - 1 BY <1>8, <2>1 DEF PhaseEnd
    <3>2. qh[n + 1].start - 1 = m BY <1>1, <1>8, <1>10, <2>2
    <3>3. PhaseEnd(W, ph, n) = m BY <2>2 DEF PhaseEnd, l, m
    <3> QED BY <3>1, <3>2, <3>3
  <2>3. CASE n # l
    <3>1. PhaseEnd(V, qh, n) = qh[n + 1].start - 1 BY <1>8, <2>1 DEF PhaseEnd
    <3>2. PhaseEnd(W, ph, n) = ph[n + 1].start - 1 BY <2>3 DEF PhaseEnd, l
    <3>3. n + 1 \in 1 .. l BY <1>1, <2>3
    <3> QED BY <1>8, <3>1, <3>2, <3>3
  <2> QED BY <2>2, <2>3
<1>16. ASSUME NEW n \in DOMAIN qh
       PROVE  /\ qh[n].start \in 1 .. Len(V) /\ V[qh[n].start] = <<"phase", n + 1>>
              /\ PhaseEnd(V, qh, n) - qh[n].start = Width * qh[n].rows
  <2>1. CASE n \in 1 .. l
    <3>1. qh[n] = ph[n] BY <1>8, <2>1
    <3>2. ph[n].start \in 1 .. m BY <1>2, <2>1
    <3>3. V[ph[n].start] = W[ph[n].start] BY <1>11, <3>2
    <3>4. ph[n].start \in 1 .. Len(V) BY <1>1, <1>11, <3>2
    <3>5. PhaseEnd(V, qh, n) = PhaseEnd(W, ph, n) BY <1>15, <2>1
    <3> QED BY <1>2, <2>1, <3>1, <3>3, <3>4, <3>5
  <2>2. CASE n = l + 1
    <3>1. mark = <<"phase", n + 1>> BY <1>1, <2>2 DEF mark
    <3>2. qh[n].start = m + 1 /\ qh[n].rows = 0 BY <1>8, <1>10, <2>2
    <3>3. m + 1 \in 1 .. Len(V) BY <1>1, <1>11
    <3>4. PhaseEnd(V, qh, n) - qh[n].start = 0
      <4>1. PhaseEnd(V, qh, n) = m + 1 BY <1>14, <2>2
      <4> QED BY ONLY <1>1, <4>1, <3>2
    <3> QED BY <1>11, <1>13, <3>1, <3>2, <3>3, <3>4
  <2> QED BY <1>1, <1>9, <2>1, <2>2
<1> QED BY <1>8, <1>11, <1>12, <1>16, Zenon DEF DumpAt

\* A row more in the last phase
LEMMA RowCounted ==
  ASSUME NEW ph \in Seq(PhaseRecord), ph # <<>>, NEW qh,
         qh = [ph EXCEPT ![Len(ph)].rows = @ + 1]
  PROVE  /\ qh \in Seq(PhaseRecord) /\ Len(qh) = Len(ph) /\ qh # <<>>
         /\ \A n \in 1 .. Len(ph) :
              /\ qh[n].start = ph[n].start
              /\ qh[n].rows = IF n = Len(ph) THEN ph[n].rows + 1 ELSE ph[n].rows
<1> DEFINE l == Len(ph)
<1>1. DOMAIN ph = 1 .. l /\ l \in Nat \ {0} OBVIOUS
<1>2. \A n \in 1 .. l : ph[n] \in PhaseRecord BY ElementOfSeq
<1>3. qh = [n \in 1 .. l |-> IF n = l THEN [ph[n] EXCEPT !.rows = @ + 1] ELSE ph[n]]
  BY <1>1
<1>4. ASSUME NEW e \in PhaseRecord PROVE [e EXCEPT !.rows = @ + 1] \in PhaseRecord
  <2>1. e.rows + 1 \in Nat BY DEF PhaseRecord
  <2>2. PICK v : v = e.rows + 1 OBVIOUS
  <2>3. [e EXCEPT !.rows = v] \in PhaseRecord BY <2>1, <2>2 DEF PhaseRecord
  <2> QED BY <2>2, <2>3, Zenon
<1>5. \A n \in 1 .. l : qh[n] \in PhaseRecord BY <1>2, <1>3, <1>4
<1>6. qh \in Seq(PhaseRecord) /\ Len(qh) = l
  <2>1. qh = [n \in 1 .. l |-> qh[n]] BY <1>3
  <2> HIDE DEF l
  <2> QED BY ONLY <1>1, <1>5, <2>1
<1>7. \A n \in 1 .. l : qh[n] = IF n = l THEN [ph[n] EXCEPT !.rows = @ + 1] ELSE ph[n]
  BY <1>3, Zenon
<1>8. \A n \in 1 .. l : /\ qh[n].start = ph[n].start
                        /\ qh[n].rows = IF n = l THEN ph[n].rows + 1 ELSE ph[n].rows
  BY <1>2, <1>7 DEF PhaseRecord
<1>9. qh # <<>> BY <1>1, <1>6
<1> QED BY <1>6, <1>8, <1>9

\* The fields of a row, behind the last row of the last phase
LEMMA RowAdded ==
  ASSUME NEW W, NEW ph, NEW rows \in Seq(OutRows), DumpAt(W, ph, rows), NEW r \in OutRows,
         NEW V, NEW qh, V = W \o RowFields(r),
         qh = [ph EXCEPT ![Len(ph)].rows = @ + 1]
  PROVE  DumpAt(V, qh, Append(rows, r))
<1> DEFINE l == Len(ph)
           m == Len(W)
           b == RowFields(r)
<1>1. W \in Seq(NewItems) /\ ph \in Seq(PhaseRecord) /\ ph # <<>>
      /\ Kept(W, FieldItems) = FieldsOf(rows) /\ DOMAIN ph = 1 .. l /\ l \in Nat \ {0} /\ m \in Nat
  BY DEF DumpAt
<1>2. \A n \in 1 .. l :
       /\ ph[n].start \in 1 .. m /\ W[ph[n].start] = <<"phase", n + 1>>
       /\ PhaseEnd(W, ph, n) - ph[n].start = Width * ph[n].rows
  BY <1>1 DEF DumpAt
<1>3. Width \in Nat \ {0} BY OutputAssumption DEF OutputAssumption
<1>4. /\ b \in Seq(FieldItems) /\ Len(b) = Width
      /\ FieldsOf(Append(rows, r)) = FieldsOf(rows) \o b
  BY FieldsAppended
<1>5. \A n \in 1 .. l : ph[n] \in PhaseRecord BY <1>1, ElementOfSeq
<1>6. /\ qh \in Seq(PhaseRecord) /\ Len(qh) = l
      /\ \A n \in 1 .. l : /\ qh[n].start = ph[n].start
                           /\ qh[n].rows = IF n = l THEN ph[n].rows + 1 ELSE ph[n].rows
  BY <1>1, RowCounted
<1>7. qh # <<>> /\ DOMAIN qh = 1 .. l BY <1>1, <1>6
<1> HIDE DEF l, m, b
<1>8. b \in Seq(NewItems)
  <2>1. \A i \in 1 .. Len(b) : b[i] \in FieldItems BY <1>4, ElementOfSeq
  <2>2. \A i \in 1 .. Len(b) : b[i] \in NewItems BY <2>1, ItemKinds
  <2>3. b \in Seq(FieldItems) BY <1>4
  <2>4. b = [i \in 1 .. Len(b) |-> b[i]] /\ Len(b) \in Nat BY ONLY <2>3
  <2> QED BY ONLY <2>2, <2>4
<1>9. V = W \o b BY DEF b
<1>10. /\ V \in Seq(NewItems) /\ Len(V) = m + Width
       /\ \A i \in 1 .. m : V[i] = W[i]
  <2>1. /\ V \in Seq(NewItems) /\ Len(V) = Len(W) + Len(b)
        /\ \A i \in 1 .. Len(W) : V[i] = W[i]
        /\ \A i \in 1 .. Len(b) : V[Len(W) + i] = b[i]
    <3>1. W \in Seq(NewItems) /\ b \in Seq(NewItems) BY <1>1, <1>8
    <3> QED BY ONLY <3>1, <1>9, Joined
  <2>2. m = Len(W) BY DEF m
  <2> QED BY <1>1, <1>3, <1>4, <2>1, <2>2
<1>11. Kept(V, FieldItems) = FieldsOf(Append(rows, r))
  <2>1. Range(b) \subseteq FieldItems BY <1>4, RangeOfSeq
  <2>2. Kept(b, FieldItems) = b BY <1>8, <2>1, KeptFacts, Zenon
  <2>3. Kept(V, FieldItems) = Kept(W, FieldItems) \o Kept(b, FieldItems)
    <3>1. W \in Seq(NewItems) /\ b \in Seq(NewItems) BY <1>1, <1>8
    <3>2. Kept(W \o b, FieldItems) = Kept(W, FieldItems) \o Kept(b, FieldItems)
      BY ONLY <3>1, KeptConcat
    <3> QED BY <1>9, <3>2, Zenon
  <2> QED BY <1>1, <1>4, <2>2, <2>3, Zenon
<1>12. \A n \in 1 .. l : PhaseEnd(V, qh, n) =
         IF n = l THEN PhaseEnd(W, ph, n) + Width ELSE PhaseEnd(W, ph, n)
  <2> TAKE n \in 1 .. l
  <2>1. CASE n = l
    <3>1. PhaseEnd(V, qh, n) = m + Width BY <1>6, <1>10, <2>1 DEF PhaseEnd
    <3>2. PhaseEnd(W, ph, n) = m BY <2>1 DEF PhaseEnd, l, m
    <3> QED BY <2>1, <3>1, <3>2
  <2>2. CASE n # l
    <3>1. PhaseEnd(V, qh, n) = qh[n + 1].start - 1 BY <1>6, <2>2 DEF PhaseEnd
    <3>2. PhaseEnd(W, ph, n) = ph[n + 1].start - 1 BY <2>2 DEF PhaseEnd, l
    <3>3. n + 1 \in 1 .. l BY <1>1, <2>2
    <3> QED BY <1>6, <2>2, <3>1, <3>2, <3>3
  <2> QED BY <2>1, <2>2
<1>13. ASSUME NEW n \in DOMAIN qh
       PROVE  /\ qh[n].start \in 1 .. Len(V) /\ V[qh[n].start] = <<"phase", n + 1>>
              /\ PhaseEnd(V, qh, n) - qh[n].start = Width * qh[n].rows
  <2>1. n \in 1 .. l BY <1>7
  <2>2. PICK st, rw, en : st = ph[n].start /\ rw = ph[n].rows /\ en = PhaseEnd(W, ph, n) OBVIOUS
  <2>3. st \in 1 .. m /\ rw \in Nat /\ en - st = Width * rw /\ W[st] = <<"phase", n + 1>>
    BY <1>2, <1>5, <2>1, <2>2 DEF PhaseRecord
  <2>4. qh[n].start = st BY <1>6, <2>1, <2>2
  <2>5. V[st] = W[st] /\ st \in 1 .. Len(V) BY ONLY <1>1, <1>3, <1>10, <2>3
  <2>6. CASE n = l
    <3>1. qh[n].rows = rw + 1 /\ PhaseEnd(V, qh, n) = en + Width
      BY <1>6, <1>12, <2>1, <2>2, <2>6
    <3>2. Width * (rw + 1) = Width * rw + Width BY <1>3, <2>3, Divided
    <3>3. en \in Int
      <4>1. en = m BY <2>2, <2>6 DEF PhaseEnd, l, m
      <4> QED BY <1>1, <4>1
    <3>4. Width * rw \in Nat BY <1>3, <2>3, Divided
    <3>5. PICK z : z = Width * rw OBVIOUS
    <3>6. (en + Width) - st = z + Width BY ONLY <1>3, <2>3, <3>3, <3>4, <3>5, <1>1
    <3> QED BY <2>3, <2>4, <2>5, <3>1, <3>2, <3>5, <3>6, Zenon
  <2>7. CASE n # l
    <3>1. qh[n].rows = rw /\ PhaseEnd(V, qh, n) = en BY <1>6, <1>12, <2>1, <2>2, <2>7
    <3> QED BY <2>3, <2>4, <2>5, <3>1
  <2> QED BY <2>6, <2>7
<1> QED BY <1>6, <1>7, <1>10, <1>11, <1>13, Zenon DEF DumpAt

\* The file of a table is one of the paths, and each path holds a sequence of items
LEMMA PathsOf ==
  ASSUME OutTyped
  PROVE  /\ \A t \in OutTables : PathOf(t) \in Paths
         /\ selected \subseteq OutTables
         /\ \A q \in Paths : /\ disk[q] \in Seq(AnyItems) /\ held[q] \in Seq(AnyItems)
                             /\ WholeFile(q) \in Seq(AnyItems)
                             /\ Len(disk[q]) \in Nat /\ Len(held[q]) \in Nat
<1>1. \A q \in Paths : disk[q] \in Seq(AnyItems) /\ held[q] \in Seq(AnyItems)
  BY DEF OutTyped
<1>2. ASSUME NEW d \in Seq(AnyItems), NEW h \in Seq(AnyItems)
      PROVE  d \o h \in Seq(AnyItems) /\ Len(d) \in Nat /\ Len(h) \in Nat
  OBVIOUS
<1>3. \A q \in Paths : /\ WholeFile(q) \in Seq(AnyItems)
                       /\ Len(disk[q]) \in Nat /\ Len(held[q]) \in Nat
  BY <1>1, <1>2 DEF WholeFile
<1>4. \A t \in OutTables : PathOf(t) \in Paths BY DEF PathOf, Paths
<1>5. selected \subseteq OutTables BY DEF OutTyped
<1> QED BY <1>1, <1>3, <1>4, <1>5

\* A file that was used moves to the back of the list of open files (touch)
LEMMA TouchedFacts ==
  ASSUME NEW seq \in Seq(Paths), NEW p \in Paths
  PROVE  /\ Touched(seq, p) \in Seq(Paths)
         /\ Range(Touched(seq, p)) = Range(seq) \cup {p}
         /\ Len(Touched(seq, p)) <= Len(seq) + 1
         /\ p \in Range(seq) => Len(Touched(seq, p)) <= Len(seq)
<1>1. PICK others : others = Kept(seq, Paths \ {p}) OBVIOUS
<1>2. /\ others \in Seq(Paths) /\ Range(others) = Range(seq) \cap (Paths \ {p})
      /\ IsFiniteSet(Range(seq))
      /\ Len(others) + Cardinality(Range(seq) \ (Paths \ {p})) <= Len(seq)
  BY <1>1, KeptFacts, Zenon
<1>3. Range(seq) \subseteq Paths BY RangeOfSeq
<1>4. PICK one : one = <<p>> OBVIOUS
<1>5. one \in Seq(Paths) /\ Len(one) = 1 /\ one[1] = p BY <1>4
<1>6. Range(one) = {p}
  <2>1. Range(one) = {one[i] : i \in 1 .. Len(one)} BY <1>5, RangeEquality, Zenon
  <2> QED BY ONLY <2>1, <1>5
<1>7. PICK c : c = others \o one OBVIOUS
<1>8. c = Touched(seq, p) BY <1>1, <1>4, <1>7, Zenon DEF Touched
<1>9. c \in Seq(Paths) /\ Len(c) = Len(others) + 1
  <2>1. others \in Seq(Paths) BY <1>2
  <2>2. others \o one \in Seq(Paths) /\ Len(others \o one) = Len(others) + Len(one)
    BY ONLY <2>1, <1>5, ConcatProperties
  <2> QED BY <1>5, <1>7, <2>2
<1>10. Range(c) = Range(others) \cup Range(one)
  <2>1. Range(others \o one) = Range(others) \cup Range(one)
    BY <1>2, <1>5, RangeConcatenation
  <2> QED BY <1>7, <2>1, Zenon
<1>11. Range(c) = Range(seq) \cup {p} BY <1>2, <1>3, <1>6, <1>10
<1>12. PICK gone : gone = Range(seq) \ (Paths \ {p}) OBVIOUS
<1>13. IsFiniteSet(gone) /\ Cardinality(gone) \in Nat BY <1>2, <1>12, FS_Subset, FS_CardinalityType
<1>14. p \in Range(seq) => Cardinality(gone) >= 1
  <2>1. SUFFICES ASSUME p \in Range(seq) PROVE Cardinality(gone) # 0 BY <1>13
  <2>2. gone # {} BY <1>12, <2>1
  <2> QED BY <1>13, <2>2, FS_EmptySet
<1>15. Len(others) \in Nat /\ Len(seq) \in Nat BY <1>2
<1>16. Len(others) + Cardinality(gone) <= Len(seq) BY <1>2, <1>12
<1>17. Len(c) <= Len(seq) + 1 /\ (p \in Range(seq) => Len(c) <= Len(seq))
  BY ONLY <1>9, <1>13, <1>14, <1>15, <1>16
<1> QED BY <1>8, <1>9, <1>11, <1>17, Zenon

\* Room is made without losing anything: the file closed for it is written out
\* in full, and it is not one a write was refused to.
LEMMA RoomWhole ==
  ASSUME OutTyped, Writing, NEW p \in Paths, CanOpen(p), NEW room, room = RoomMade(p)
  PROVE  /\ room.disk \in [Paths -> Seq(AnyItems)] /\ room.held \in [Paths -> Seq(AnyItems)]
         /\ room.opened \in Seq(Paths) /\ Range(room.opened) \subseteq Range(opened)
         /\ p \in Range(opened) => p \in Range(room.opened)
         /\ split => Len(room.opened) <= MaxOpen
         /\ split /\ p \notin Range(opened) => Len(room.opened) <= MaxOpen - 1
         /\ \A q \in Paths : /\ q \notin Range(room.opened) => room.held[q] = <<>>
                             /\ room.disk[q] \o room.held[q] = WholeFile(q)
                             /\ q \notin Range(opened) => room.disk[q] = disk[q]
         /\ outFormat # "dmp" => \A u \in refused :
              PathOf(u) \in Range(opened) => PathOf(u) \in Range(room.opened)
<1>1. /\ disk \in [Paths -> Seq(AnyItems)] /\ held \in [Paths -> Seq(AnyItems)]
      /\ opened \in Seq(Paths) /\ Len(opened) \in Nat
      /\ \A q \in Paths : q \notin Range(opened) => held[q] = <<>>
      /\ split => Len(opened) <= MaxOpen
  BY DEF OutTyped, Writing
<1>2. MaxOpen \in Nat \ {0} BY OutputAssumption DEF OutputAssumption
<1>3. ToSet(opened) = Range(opened) BY ToSetIsRange
<1>4. CASE ~NeedsRoom(p)
  <2>1. room = [disk |-> disk, held |-> held, opened |-> opened] BY <1>4 DEF RoomMade
  <2>2. room.disk = disk /\ room.held = held /\ room.opened = opened BY ONLY <2>1
  <2>3. split /\ p \notin Range(opened) => Len(opened) <= MaxOpen - 1
    BY <1>1, <1>2, <1>3, <1>4 DEF NeedsRoom
  <2> QED BY <1>1, <2>2, <2>3 DEF WholeFile
<1>5. CASE NeedsRoom(p)
  <2>1. split /\ p \notin Range(opened) /\ Len(opened) >= MaxOpen
    BY <1>3, <1>5 DEF NeedsRoom
  <2>2. opened # <<>> BY <1>1, <1>2, <2>1
  <2>3. PICK e, rest : e = Head(opened) /\ rest = Tail(opened) OBVIOUS
  <2>4. /\ e \in Paths /\ rest \in Seq(Paths) /\ Len(rest) = Len(opened) - 1
        /\ \A i \in 1 .. Len(rest) : rest[i] = opened[i + 1]
    BY <1>1, <2>2, <2>3, HeadTailProperties
  <2>5. Range(opened) = {opened[i] : i \in 1 .. Len(opened)}
        /\ Range(rest) = {rest[i] : i \in 1 .. Len(rest)}
    BY <1>1, <2>4, RangeEquality
  <2>6. e = opened[1] BY <1>1, <2>2, <2>3
  <2>7. Range(opened) = Range(rest) \cup {e}
    <3>1. ASSUME NEW q \in Range(opened) PROVE q \in Range(rest) \/ q = e
      <4>1. PICK i \in 1 .. Len(opened) : q = opened[i] BY <2>5
      <4>2. CASE i = 1 BY <2>6, <4>1, <4>2
      <4>3. CASE i # 1
        <5>1. i - 1 \in 1 .. Len(rest) /\ (i - 1) + 1 = i BY <1>1, <2>4, <4>3
        <5>2. PICK j : j = i - 1 OBVIOUS
        <5>3. rest[j] = opened[j + 1] BY <2>4, <5>1, <5>2
        <5> QED BY <2>5, <4>1, <5>1, <5>2, <5>3
      <4> QED BY <4>2, <4>3
    <3>2. ASSUME NEW q \in Range(rest) PROVE q \in Range(opened)
      <4>1. PICK i \in 1 .. Len(rest) : q = rest[i] BY <2>5
      <4>2. i + 1 \in 1 .. Len(opened) BY <1>1, <2>4
      <4> QED BY <2>4, <2>5, <4>1, <4>2
    <3>3. e \in Range(opened)
      <4>1. 1 \in 1 .. Len(opened) BY <1>1, <1>2, <2>1
      <4> QED BY <2>5, <2>6, <4>1
    <3> QED BY <3>1, <3>2, <3>3
  <2>8. PICK w : w = WholeFile(e) OBVIOUS
  <2>9. w \in Seq(AnyItems) BY <2>4, <2>8, PathsOf
  <2>10. room = [disk |-> [disk EXCEPT ![e] = w], held |-> [held EXCEPT ![e] = <<>>],
                 opened |-> rest]
    BY <1>5, <2>3, <2>8, Zenon DEF RoomMade, Evicted
  <2>11. room.disk = [disk EXCEPT ![e] = w] /\ room.held = [held EXCEPT ![e] = <<>>]
         /\ room.opened = rest
    BY ONLY <2>10
  <2>12. room.disk \in [Paths -> Seq(AnyItems)] /\ room.held \in [Paths -> Seq(AnyItems)]
    <3>1. <<>> \in Seq(AnyItems) BY EmptySeq
    <3> QED BY <1>1, <2>9, <2>11, <3>1
  <2>13. Range(rest) \subseteq Range(opened) /\ Len(rest) <= MaxOpen - 1 /\ Len(rest) <= MaxOpen
    BY <1>1, <1>2, <2>1, <2>4, <2>7
  <2>14. ASSUME NEW q \in Paths
         PROVE  /\ q \notin Range(rest) => room.held[q] = <<>>
                /\ room.disk[q] \o room.held[q] = WholeFile(q)
                /\ q \notin Range(opened) => room.disk[q] = disk[q]
    <3>1. CASE q = e
      <4>1. room.disk[q] = w /\ room.held[q] = <<>> BY <1>1, <2>4, <2>11, <3>1
      <4>2. w \o <<>> = w BY <2>9, ConcatEmptySeq
      <4>3. q \in Range(opened) BY <2>7, <3>1
      <4> QED BY <2>8, <3>1, <4>1, <4>2, <4>3, Zenon
    <3>2. CASE q # e
      <4>1. room.disk[q] = disk[q] /\ room.held[q] = held[q] BY <1>1, <2>11, <3>2
      <4>2. q \notin Range(rest) => q \notin Range(opened) BY <2>7, <3>2
      <4> QED BY <1>1, <4>1, <4>2, Zenon DEF WholeFile
    <3> QED BY <3>1, <3>2
  <2>15. ASSUME outFormat # "dmp", NEW u \in refused, PathOf(u) \in Range(opened)
         PROVE  PathOf(u) \in Range(rest)
    <3>1. CanFlush(e) BY <1>5, <2>3 DEF CanOpen, Evicted
    <3>2. PathOf(u) # e BY <2>15, <3>1 DEF CanFlush
    <3> QED BY <2>7, <2>15, <3>2
  <2> QED BY <2>1, <2>4, <2>11, <2>12, <2>13, <2>14, <2>15, Zenon
<1> QED BY <1>4, <1>5

\* What a file begins with
Beginning == IF outFormat = "dmp" THEN <<<<"head">>, <<"phase", 2>>>>
             ELSE IF outFormat = "sql" THEN <<<<"head">>>> ELSE <<>>

\* What a new file begins with, by format: no row
LEMMA BeginningIs ==
  /\ Beginning \in Seq(NewItems) /\ Beginning \in Seq(AnyItems)
  /\ \A t \in OutTables : outFormat # "dmp" => Kept(Beginning, RowItems(t)) = <<>>
<1>1. NewItems \subseteq AnyItems BY DEF AnyItems
<1>2. CASE outFormat = "dmp"
  <2>1. <<"head">> \in NewItems /\ <<"phase", 2>> \in NewItems BY ItemKinds
  <2>2. Beginning = <<<<"head">>, <<"phase", 2>>>> BY <1>2 DEF Beginning
  <2> QED BY <1>1, <1>2, <2>1, <2>2
<1>3. CASE outFormat = "sql"
  <2>1. <<"head">> \in NewItems /\ \A t \in OutTables : <<"head">> \notin RowItems(t)
    BY ItemKinds
  <2>2. PICK h : h = <<"head">> OBVIOUS
  <2>3. Beginning = <<h>> BY <1>3, <2>2 DEF Beginning
  <2>4. \A t \in OutTables : Kept(<<h>>, RowItems(t)) = <<>>
    <3> TAKE t \in OutTables
    <3>1. h \in NewItems /\ h \notin RowItems(t) BY <2>1, <2>2
    <3>2. Kept(<<h>>, RowItems(t)) = IF h \in RowItems(t) THEN <<h>> ELSE <<>>
      BY <3>1, KeptOne
    <3> QED BY <3>1, <3>2
  <2>5. <<h>> \in Seq(NewItems) /\ <<h>> \in Seq(AnyItems) BY <1>1, <2>1, <2>2
  <2> QED BY <2>3, <2>4, <2>5, Zenon
<1>4. CASE outFormat # "dmp" /\ outFormat # "sql"
  <2>1. Beginning = <<>> BY <1>4 DEF Beginning
  <2>2. <<>> \in Seq(NewItems) /\ <<>> \in Seq(AnyItems) /\ Len(<<>>) = 0 BY EmptySeq
  <2>3. \A t \in OutTables : Kept(<<>>, RowItems(t)) = <<>>
    <3>1. PICK none : none = <<>> OBVIOUS
    <3>2. none \in Seq(NewItems) /\ Len(none) = 0 BY <2>2, <3>1
    <3>3. ASSUME NEW T PROVE Kept(none, T) = <<>>
      <4>1. \A i \in 1 .. Len(none) : none[i] \notin T BY <3>2
      <4>2. none \in Seq(NewItems) BY <3>2
      <4> QED BY ONLY <4>1, <4>2, KeptNone
    <3> QED BY <3>1, <3>3
  <2> QED BY <2>1, <2>2, <2>3, Zenon
<1> QED BY <1>2, <1>3, <1>4

\* A file that is opened goes on where it was left, one that is new begins; the
\* others keep what they hold.
LEMMA TargetWhole ==
  ASSUME OutTyped, Writing, NEW p \in Paths, CanOpen(p), NEW at, at = Target(p)
  PROVE  /\ at.disk \in [Paths -> Seq(AnyItems)] /\ at.held \in [Paths -> Seq(AnyItems)]
         /\ at.opened \in Seq(Paths) /\ Range(at.opened) \subseteq begun \cup {p}
         /\ p \in Range(at.opened)
         /\ split => Len(at.opened) <= MaxOpen
         /\ \A q \in Paths : q \notin Range(at.opened) => at.held[q] = <<>>
         /\ \A q \in Paths : q # p => /\ at.disk[q] \o at.held[q] = WholeFile(q)
                                      /\ q \notin begun => at.disk[q] = disk[q]
         /\ p \in begun => at.disk[p] \o at.held[p] = WholeFile(p)
         /\ p \notin begun => at.disk[p] \o at.held[p] = Beginning
         /\ outFormat # "dmp" => \A u \in refused :
              PathOf(u) \in Range(opened) => PathOf(u) \in Range(at.opened)
<1> DEFINE new == p \notin ToSet(opened) /\ Starts(p)
<1>1. PICK room : room = RoomMade(p) OBVIOUS
<1>2. /\ room.disk \in [Paths -> Seq(AnyItems)] /\ room.held \in [Paths -> Seq(AnyItems)]
      /\ room.opened \in Seq(Paths) /\ Range(room.opened) \subseteq Range(opened)
      /\ p \in Range(opened) => p \in Range(room.opened)
      /\ split => Len(room.opened) <= MaxOpen
      /\ split /\ p \notin Range(opened) => Len(room.opened) <= MaxOpen - 1
  BY <1>1, RoomWhole, Zenon
<1>3. \A q \in Paths : /\ q \notin Range(room.opened) => room.held[q] = <<>>
                       /\ room.disk[q] \o room.held[q] = WholeFile(q)
                       /\ q \notin Range(opened) => room.disk[q] = disk[q]
  BY <1>1, RoomWhole, Zenon
<1>4. outFormat # "dmp" => \A u \in refused :
              PathOf(u) \in Range(opened) => PathOf(u) \in Range(room.opened)
  BY <1>1, RoomWhole, Zenon
<1>5. Range(opened) \subseteq begun BY DEF Writing
<1>6. new <=> p \notin begun BY <1>5, ToSetIsRange DEF Starts
<1>7. at = [disk |-> IF new THEN [room.disk EXCEPT ![p] = <<>>] ELSE room.disk,
            held |-> IF ~new THEN room.held ELSE [room.held EXCEPT ![p] = Beginning],
            opened |-> IF split \/ p \notin ToSet(room.opened) THEN Touched(room.opened, p)
                       ELSE room.opened]
  BY <1>1, Zenon DEF Target, Beginning
<1> HIDE DEF new
<1>8. /\ at.disk = IF new THEN [room.disk EXCEPT ![p] = <<>>] ELSE room.disk
      /\ at.held = IF ~new THEN room.held ELSE [room.held EXCEPT ![p] = Beginning]
      /\ at.opened = IF split \/ p \notin ToSet(room.opened) THEN Touched(room.opened, p)
                     ELSE room.opened
  BY ONLY <1>7
<1>9. /\ at.opened \in Seq(Paths) /\ Range(at.opened) = Range(room.opened) \cup {p}
      /\ split => Len(at.opened) <= MaxOpen
  <2>1. CASE split \/ p \notin ToSet(room.opened)
    <3>1. PICK seq, s : seq = Touched(room.opened, p) /\ s = room.opened OBVIOUS
    <3>2. s \in Seq(Paths) /\ Len(s) \in Nat BY <1>2, <3>1
    <3>3. /\ seq \in Seq(Paths) /\ Range(seq) = Range(s) \cup {p}
          /\ Len(seq) <= Len(s) + 1
          /\ p \in Range(s) => Len(seq) <= Len(s)
      BY <3>1, <3>2, TouchedFacts, Zenon
    <3>4. /\ split => Len(s) <= MaxOpen
          /\ split /\ p \notin Range(s) => Len(s) <= MaxOpen - 1
      BY <1>2, <3>1
    <3>5. split => Len(seq) <= MaxOpen
      <4>1. Len(seq) \in Nat BY <3>3
      <4>2. MaxOpen \in Nat BY OutputAssumption DEF OutputAssumption
      <4> QED BY ONLY <3>2, <3>3, <3>4, <4>1, <4>2
    <3>6. at.opened = seq BY <1>8, <2>1, <3>1
    <3> QED BY <3>1, <3>3, <3>5, <3>6, Zenon
  <2>2. CASE ~(split \/ p \notin ToSet(room.opened))
    <3>1. at.opened = room.opened /\ p \in Range(room.opened) /\ ~split
      BY <1>8, <2>2, ToSetIsRange
    <3> QED BY <1>2, <3>1
  <2> QED BY <2>1, <2>2
<1>10. at.disk \in [Paths -> Seq(AnyItems)] /\ at.held \in [Paths -> Seq(AnyItems)]
  <2>1. <<>> \in Seq(AnyItems) /\ Beginning \in Seq(AnyItems) BY EmptySeq, BeginningIs
  <2> QED BY ONLY <1>2, <1>8, <2>1
<1>11. ASSUME NEW q \in Paths, q # p
       PROVE  at.disk[q] = room.disk[q] /\ at.held[q] = room.held[q]
  BY ONLY <1>2, <1>8, <1>11
<1>12. \A q \in Paths : q \notin Range(at.opened) => at.held[q] = <<>>
  BY <1>3, <1>9, <1>11
<1>13. ASSUME NEW q \in Paths, q # p
       PROVE  /\ at.disk[q] \o at.held[q] = WholeFile(q)
              /\ q \notin begun => at.disk[q] = disk[q]
  <2>1. at.disk[q] = room.disk[q] /\ at.held[q] = room.held[q] BY <1>11, <1>13
  <2>2. room.disk[q] \o room.held[q] = WholeFile(q) BY <1>3
  <2>3. q \notin begun => room.disk[q] = disk[q] BY <1>3, <1>5
  <2> QED BY <2>1, <2>2, <2>3, Zenon
<1>14. p \in begun => at.disk[p] \o at.held[p] = WholeFile(p)
  BY <1>3, <1>6, <1>8, Zenon
<1>15. ASSUME p \notin begun PROVE at.disk[p] \o at.held[p] = Beginning
  <2>1. at.disk[p] = <<>> /\ at.held[p] = Beginning
    <3>1. new BY <1>6, <1>15
    <3> QED BY ONLY <1>2, <1>8, <3>1, p \in Paths
  <2>2. <<>> \o Beginning = Beginning BY BeginningIs, ConcatEmptySeq
  <2> QED BY <2>1, <2>2, Zenon
<1>16. Range(at.opened) \subseteq begun \cup {p} /\ p \in Range(at.opened)
  BY <1>2, <1>5, <1>9
<1>17. outFormat # "dmp" => \A u \in refused :
              PathOf(u) \in Range(opened) => PathOf(u) \in Range(at.opened)
  BY <1>4, <1>9
<1> QED BY <1>9, <1>10, <1>12, <1>13, <1>14, <1>15, <1>16, <1>17, Zenon

\* Two tables of one export share a file only when all go to one SQL file.
LEMMA FilesApart ==
  ASSUME OutTyped, outFormat # "sql", NEW t \in selected, NEW u \in selected,
         PathOf(t) = PathOf(u)
  PROVE  t = u
<1>1. CASE split BY <1>1 DEF PathOf
<1>2. CASE ~split BY <1>2 DEF OutTyped
<1> QED BY <1>1, <1>2

\* A row more is one item more, behind those of the rows before it
LEMMA RowsOrdered ==
  /\ RowsInOrder(<<>>) = <<>>
  /\ \A S : \A rows \in Seq(S) : \A r \in S :
       RowsInOrder(Append(rows, r)) = RowsInOrder(rows) \o <<<<"row", r>>>>
<1>1. RowsInOrder(<<>>) = <<>>
  <2>1. DOMAIN <<>> = {} OBVIOUS
  <2> QED BY <2>1 DEF RowsInOrder
<1>2. ASSUME NEW S, NEW rows \in Seq(S), NEW r \in S
      PROVE  RowsInOrder(Append(rows, r)) = RowsInOrder(rows) \o <<<<"row", r>>>>
  <2> DEFINE T == {"row"} \X S
  <2>1. PICK more, l : more = Append(rows, r) /\ l = Len(rows) OBVIOUS
  <2>2. /\ l \in Nat /\ DOMAIN rows = 1 .. l /\ DOMAIN more = 1 .. l + 1
        /\ more[l + 1] = r /\ \A i \in 1 .. l : more[i] = rows[i]
    BY <2>1, AppendProperties
  <2>3. PICK a, b, c : a = RowsInOrder(rows) /\ b = <<<<"row", r>>>> /\ c = RowsInOrder(more)
    OBVIOUS
  <2>4. a = [n \in 1 .. l |-> <<"row", rows[n]>>] BY <2>2, <2>3 DEF RowsInOrder
  <2>5. c = [n \in 1 .. l + 1 |-> <<"row", more[n]>>] BY <2>2, <2>3 DEF RowsInOrder
  <2>6. \A i \in 1 .. l : rows[i] \in S BY <2>1, ElementOfSeq
  <2>7. \A i \in 1 .. l + 1 : more[i] \in S BY <2>2, <2>6
  <2>8. a \in Seq(T) /\ Len(a) = l BY <2>2, <2>4, <2>6
  <2>9. c \in Seq(T) /\ Len(c) = l + 1 BY <2>2, <2>5, <2>7
  <2>10. b \in Seq(T) /\ Len(b) = 1 /\ b[1] = <<"row", r>> BY <2>3
  <2> HIDE DEF T
  <2>11. PICK x : x = a \o b OBVIOUS
  <2>12. /\ x \in Seq(T) /\ Len(x) = Len(a) + Len(b)
         /\ \A i \in 1 .. Len(a) : x[i] = a[i]
         /\ \A i \in 1 .. Len(b) : x[Len(a) + i] = b[i]
    <3>1. a \in Seq(T) /\ b \in Seq(T) BY <2>8, <2>10
    <3> QED BY ONLY <3>1, <2>11, Joined
  <2>13. x[l + 1] = <<"row", r>>
    <3>1. 1 \in 1 .. Len(b) BY <2>10
    <3>2. x[Len(a) + 1] = b[1] BY <2>12, <3>1, Zenon
    <3> QED BY <2>8, <2>10, <3>2
  <2>14. ASSUME NEW i \in 1 .. l + 1 PROVE c[i] = x[i]
    <3>1. CASE i \in 1 .. l
      <4>1. c[i] = <<"row", more[i]>> /\ a[i] = <<"row", rows[i]>> BY <2>4, <2>5, <3>1
      <4>2. x[i] = a[i] BY <2>8, <2>12, <3>1
      <4> QED BY <2>2, <3>1, <4>1, <4>2
    <3>2. CASE i = l + 1 BY <2>2, <2>5, <2>13, <3>2
    <3> QED BY <2>2, <3>1, <3>2
  <2>15. c = x BY <2>8, <2>9, <2>10, <2>12, <2>14, SeqEqual
  <2> QED BY <2>1, <2>3, <2>11, <2>15, Zenon
<1> QED BY <1>1, <1>2

\* What stands in a file that is not there yet, and the dump nobody began
LEMMA GoneTyped == Gone \in Seq(AnyItems) /\ Old \in Seq(AnyItems) /\ <<>> \in Seq(AnyItems)
  /\ NoDump \in DumpRecord /\ NoDump.phases = <<>> /\ ~NoDump.sealed /\ ~NoDump.closed
BY EmptySeq DEF Gone, Old, AnyItems, NoDump, DumpRecord

\* Creating the outputs (newDataOutputRouter): nothing is written yet
LEMMA CreateStep == ASSUME OutInv, CreateOutputs PROVE OutInv'
<1> DEFINE paths == {PathOf(t) : t \in selected}
           open == outFormat = "sql" /\ ~split
<1>1. /\ outPhase = "start" /\ outPhase' = "writing"
      /\ disk' = [p \in Paths |->
             IF p \notin paths THEN disk[p]
             ELSE IF outFormat # "sql" THEN Gone
             ELSE IF split THEN <<<<"head">>>> ELSE <<>>]
      /\ held' = IF open THEN [held EXCEPT ![Main] = <<<<"head">>>>] ELSE held
      /\ opened' = IF open THEN <<Main>> ELSE <<>>
      /\ begun' = IF outFormat = "sql" THEN paths ELSE {}
      /\ UNCHANGED <<outFormat, split, selected, dump, wrote, refused, full>>
  BY DEF CreateOutputs
<1>2. OutTyped BY DEF OutInv
<1>3. /\ opened = <<>> /\ begun = {} /\ refused = {}
      /\ \A p \in Paths : dump[p] = NoDump /\ held[p] = <<>>
      /\ \A t \in OutTables : wrote[t] = <<>>
  BY <1>1 DEF OutInv
<1>4. paths \subseteq Paths BY <1>2, PathsOf DEF OutTyped
<1>5. PICK one : one = <<<<"head">>>> OBVIOUS
<1>6. one \in Seq(AnyItems)
  <2>1. <<"head">> \in AnyItems BY ItemKinds DEF AnyItems
  <2> QED BY <1>5, <2>1
<1>7. PICK first : first = <<Main>> OBVIOUS
<1>8. Main \in Paths /\ first \in Seq(Paths) /\ Range(first) = {Main}
  <2>1. Main \in Paths BY DEF Paths
  <2>2. first \in Seq(Paths) /\ Len(first) = 1 /\ first[1] = Main BY <1>7, <2>1
  <2>3. Range(first) = {first[i] : i \in 1 .. Len(first)} BY <2>2, RangeEquality, Zenon
  <2> QED BY <2>1, <2>2, <2>3
<1>9. open => Main \in paths BY <1>2 DEF OutTyped, PathOf
<1>10. disk' \in [Paths -> Seq(AnyItems)] /\ held' \in [Paths -> Seq(AnyItems)]
  <2>1. \A p \in Paths : disk[p] \in Seq(AnyItems) BY <1>2 DEF OutTyped
  <2>2. held \in [Paths -> Seq(AnyItems)] BY <1>2 DEF OutTyped
  <2> HIDE DEF paths, open
  <2> QED BY <1>1, <1>5, <1>6, <2>1, <2>2, GoneTyped
<1>11. Range(<<>>) = {} BY DEF Range
<1>12. /\ opened' \in Seq(Paths) /\ Range(opened') \subseteq begun'
       /\ split => opened' = <<>>
       /\ begun' \subseteq {PathOf(t)' : t \in selected'}
  <2>1. <<>> \in Seq(Paths) BY EmptySeq
  <2>2. \A t : PathOf(t)' = PathOf(t) BY <1>1 DEF PathOf
  <2>3. begun' \subseteq {PathOf(t)' : t \in selected'} BY <1>1, <2>2
  <2>4. CASE open
    <3>1. opened' = first /\ begun' = paths /\ ~split BY <1>1, <1>7, <2>4
    <3> QED BY <1>8, <1>9, <2>3, <2>4, <3>1
  <2>5. CASE ~open
    <3>1. opened' = <<>> BY <1>1, <2>5
    <3> QED BY <1>11, <2>1, <2>3, <3>1
  <2> QED BY <2>4, <2>5
<1>13. OutTyped' BY <1>1, <1>2, <1>10, <1>12 DEF OutTyped, Paths, PathOf
<1>14. ASSUME NEW p \in Paths, p \notin Range(opened') PROVE held'[p] = <<>>
  <2>1. CASE open
    <3>1. p # Main BY <1>1, <1>7, <1>8, <1>14, <2>1
    <3> QED BY <1>1, <1>2, <1>3, <2>1, <3>1 DEF OutTyped
  <2>2. CASE ~open BY <1>1, <1>3, <2>2
  <2> QED BY <2>1, <2>2
<1>15. \A p \in Paths : ~dump'[p].sealed /\ dump'[p].phases = <<>>
  BY <1>1, <1>3, GoneTyped
<1>16. ASSUME NEW t \in selected' PROVE FilesOf(t)'
  <2>1. t \in selected /\ t \in OutTables /\ wrote'[t] = <<>> BY <1>1, <1>2, <1>3 DEF OutTyped
  <2>2. PICK p : p = PathOf(t) OBVIOUS
  <2>3. p \in paths /\ p \in Paths /\ PathOf(t)' = p BY <1>1, <1>2, <2>1, <2>2, PathsOf DEF PathOf
  <2>4. CASE outFormat # "sql"
    <3>1. begun' = {} /\ disk'[p] = Gone /\ dump'[p] = NoDump BY <1>1, <1>3, <2>3, <2>4
    <3> QED BY <1>1, <2>1, <2>3, <2>4, <3>1 DEF FilesOf
  <2>5. CASE outFormat = "sql"
    <3>1. p \in begun' /\ outFormat' = "sql" BY <1>1, <2>3, <2>5
    <3>2. disk'[p] \o held'[p] = one
      <4>1. CASE split
        <5>1. disk'[p] = one /\ held'[p] = <<>> BY <1>1, <1>3, <1>5, <2>3, <2>5, <4>1
        <5>2. one \o <<>> = one BY <1>6, ConcatEmptySeq
        <5> QED BY <5>1, <5>2, Zenon
      <4>2. CASE ~split
        <5>1. p = Main BY <2>2, <4>2 DEF PathOf
        <5>2. disk'[p] = <<>> BY <1>1, <2>3, <2>5, <4>2
        <5>3. held'[p] = one BY <1>1, <1>2, <1>5, <2>3, <2>5, <4>2, <5>1 DEF OutTyped
        <5>4. <<>> \o one = one BY <1>6, ConcatEmptySeq
        <5> QED BY <5>2, <5>3, <5>4, Zenon
      <4> QED BY <4>1, <4>2
    <3>3. one = Beginning BY <1>5, <2>5 DEF Beginning
    <3>4. one \in Seq(NewItems) /\ Kept(one, RowItems(t)) = <<>>
      BY <2>1, <2>5, <3>3, BeginningIs
    <3>5. WholeFile(p)' = one BY <3>2 DEF WholeFile
    <3>6. /\ WholeFile(p)' \in Seq(NewItems)
          /\ Kept(WholeFile(p)', RowItems(t)) = RowsInOrder(wrote'[t])
      BY <2>1, <3>4, <3>5, RowsOrdered, Zenon
    <3> QED BY <2>3, <3>1, <3>6 DEF FilesOf, RowItems
  <2> QED BY <2>4, <2>5
<1>17. split' => Len(opened') <= MaxOpen'
  BY <1>1, <1>12, OutputAssumption DEF OutputAssumption
<1>18. Writing' BY <1>12, <1>14, <1>15, <1>16, <1>17 DEF Writing, Paths
<1> QED BY <1>1, <1>13, <1>18 DEF OutInv

\* A disk that fills up changes no file
LEMMA DiskFullStep == ASSUME OutInv, DiskFull PROVE OutInv'
<1>1. /\ outPhase = "writing" /\ full' \subseteq Paths
      /\ UNCHANGED <<outFormat, split, selected, disk, held, opened, begun, dump, wrote,
                     refused, outPhase>>
  BY DEF DiskFull
<1>2. OutTyped /\ Writing BY <1>1 DEF OutInv
<1>3. OutTyped' BY <1>1, <1>2 DEF OutTyped, Paths, PathOf
<1>4. \A t \in selected : FilesOf(t)' <=> FilesOf(t)
  BY <1>1 DEF FilesOf, WholeFile, PathOf
<1>5. Writing' BY <1>1, <1>2, <1>4 DEF Writing, Paths
<1> QED BY <1>1, <1>3, <1>5 DEF OutInv

\* A table whose file cannot be opened writes nothing and is reported
LEMMA OpenFailsStep ==
  ASSUME OutInv, NEW t \in OutTables, OpenFails(t) PROVE OutInv'
<1>1. PICK p, room : p = PathOf(t) /\ room = RoomMade(p) OBVIOUS
<1>2. /\ outPhase = "writing" /\ t \in selected /\ p \notin ToSet(opened)
      /\ refused' = refused \cup {t}
      /\ UNCHANGED <<outFormat, split, selected, begun, dump, wrote, full, outPhase>>
      /\ \/ ~CanOpen(p) /\ UNCHANGED <<disk, held, opened>>
         \/ /\ CanOpen(p) /\ held' = room.held /\ opened' = room.opened
            /\ \/ disk' = room.disk
               \/ outFormat = "fldr" /\ p \notin begun /\ disk' = [room.disk EXCEPT ![p] = <<>>]
  BY <1>1, Zenon DEF OpenFails, OutFails, MayWrite, Starts
<1>3. OutTyped /\ Writing BY <1>2 DEF OutInv
<1>4. p \in Paths /\ p \notin Range(opened) BY <1>1, <1>2, <1>3, PathsOf, ToSetIsRange DEF OutTyped
\* what is in the files, whichever of the three it is
<1>5. /\ disk' \in [Paths -> Seq(AnyItems)] /\ held' \in [Paths -> Seq(AnyItems)]
      /\ opened' \in Seq(Paths) /\ Range(opened') \subseteq Range(opened)
      /\ split => Len(opened') <= MaxOpen
      /\ \A q \in Paths : q \notin Range(opened') => held'[q] = <<>>
      /\ \A q \in Paths : q \in begun \/ q # p => disk'[q] \o held'[q] = WholeFile(q)
      /\ \A q \in Paths : q \notin begun =>
           disk'[q] = disk[q] \/ (q = p /\ outFormat = "fldr" /\ disk'[q] = <<>>)
      /\ outFormat # "dmp" => \A u \in refused :
           PathOf(u) \in Range(opened) => PathOf(u) \in Range(opened')
  <2>1. CASE UNCHANGED <<disk, held, opened>>
    BY <1>3, <2>1 DEF OutTyped, Writing, WholeFile
  <2>2. CASE /\ CanOpen(p) /\ held' = room.held /\ opened' = room.opened
             /\ \/ disk' = room.disk
                \/ outFormat = "fldr" /\ p \notin begun /\ disk' = [room.disk EXCEPT ![p] = <<>>]
    <3>1. /\ room.disk \in [Paths -> Seq(AnyItems)] /\ room.held \in [Paths -> Seq(AnyItems)]
          /\ room.opened \in Seq(Paths) /\ Range(room.opened) \subseteq Range(opened)
          /\ split => Len(room.opened) <= MaxOpen
      BY <1>1, <1>3, <1>4, <2>2, RoomWhole, Zenon
    <3>2. \A q \in Paths : /\ q \notin Range(room.opened) => room.held[q] = <<>>
                           /\ room.disk[q] \o room.held[q] = WholeFile(q)
                           /\ q \notin Range(opened) => room.disk[q] = disk[q]
      BY <1>1, <1>3, <1>4, <2>2, RoomWhole, Zenon
    <3>3. outFormat # "dmp" => \A u \in refused :
            PathOf(u) \in Range(opened) => PathOf(u) \in Range(room.opened)
      BY <1>1, <1>3, <1>4, <2>2, RoomWhole, Zenon
    <3>4. Range(opened) \subseteq begun BY <1>3 DEF Writing
    <3>5. CASE disk' = room.disk BY <2>2, <3>1, <3>2, <3>3, <3>4, <3>5
    <3>6. CASE outFormat = "fldr" /\ p \notin begun /\ disk' = [room.disk EXCEPT ![p] = <<>>]
      <4>1. disk' \in [Paths -> Seq(AnyItems)] BY <3>1, <3>6, GoneTyped
      <4>2. \A q \in Paths : disk'[q] = IF q = p THEN <<>> ELSE room.disk[q] BY <3>1, <3>6
      <4> QED BY <2>2, <3>1, <3>2, <3>3, <3>4, <3>6, <4>1, <4>2
    <3> QED BY <2>2, <3>5, <3>6
  <2> QED BY <1>2, <2>1, <2>2
<1>6. Paths' = Paths /\ \A u : PathOf(u)' = PathOf(u) BY <1>2 DEF Paths, PathOf
<1>7. OutTyped' BY <1>2, <1>3, <1>5, <1>6 DEF OutTyped
<1>8. ASSUME NEW u \in selected PROVE FilesOf(u)'
  <2>1. PICK q : q = PathOf(u) OBVIOUS
  <2>2. q \in Paths /\ u \in OutTables BY <1>3, <2>1, PathsOf DEF OutTyped
  <2>3. PathOf(u)' = q BY <1>6, <2>1
  <2>4. FilesOf(u) BY <1>3 DEF Writing
  <2>5. CASE q \notin begun
    <3>1. /\ wrote[u] = <<>> /\ outFormat # "sql" /\ dump[q] = NoDump
          /\ disk[q] = Gone \/ (disk[q] = <<>> /\ u \in refused)
      BY <2>1, <2>4, <2>5, Zenon DEF FilesOf
    <3>2. q = p => u = t BY <1>1, <1>2, <1>3, <2>1, <3>1, FilesApart
    <3>3. disk'[q] = Gone \/ (disk'[q] = <<>> /\ u \in refused')
      BY <1>2, <1>5, <2>2, <2>5, <3>1, <3>2
    <3> QED BY <1>2, <2>3, <2>5, <3>1, <3>3 DEF FilesOf
  <2>6. CASE q \in begun
    <3>1. WholeFile(q)' = WholeFile(q) BY <1>5, <2>2, <2>6, Zenon DEF WholeFile
    <3>2. CASE outFormat = "dmp"
      <4>1. /\ dump[q].phases # <<>>
            /\ \/ dump[q].closed
               \/ wrote[u] # <<>> /\ DumpAt(WholeFile(q), dump[q].phases, wrote[u])
        BY <2>1, <2>4, <2>6, <3>2, Zenon DEF FilesOf
      <4>2. /\ dump'[q].phases # <<>>
            /\ \/ dump'[q].closed
               \/ wrote'[u] # <<>> /\ DumpAt(WholeFile(q)', dump'[q].phases, wrote'[u])
        BY <1>2, <3>1, <4>1
      <4> QED BY <1>2, <2>3, <2>6, <3>2, <4>2 DEF FilesOf
    <3>3. CASE outFormat # "dmp"
      <4>1. /\ WholeFile(q) \in Seq(NewItems)
            /\ Kept(WholeFile(q), RowItems(u)) = RowsInOrder(wrote[u])
            /\ outFormat = "fldr" /\ wrote[u] = <<>> => u \in refused /\ q \in Range(opened)
        BY <2>1, <2>4, <2>6, <3>3, Zenon DEF FilesOf
      <4>2. /\ WholeFile(q)' \in Seq(NewItems)
            /\ Kept(WholeFile(q)', RowItems(u)) = RowsInOrder(wrote'[u])
            /\ outFormat' = "fldr" /\ wrote'[u] = <<>> => u \in refused' /\ q \in Range(opened')
        BY <1>2, <1>5, <2>1, <3>1, <3>3, <4>1
      <4> QED BY <1>2, <2>3, <2>6, <3>3, <4>2 DEF FilesOf
    <3> QED BY <3>2, <3>3
  <2> QED BY <2>5, <2>6
<1>9. Writing'
  <2>1. Range(opened') \subseteq begun' /\ (split' => Len(opened') <= MaxOpen')
    BY <1>2, <1>3, <1>5 DEF Writing
  <2>2. \A q \in Paths : ~dump'[q].sealed /\ (outFormat' # "dmp" => dump'[q].phases = <<>>)
    BY <1>2, <1>3 DEF Writing
  <2>3. \A u \in selected' : FilesOf(u)' BY <1>2, <1>8
  <2> QED BY <1>5, <1>6, <2>1, <2>2, <2>3 DEF Writing
<1> QED BY <1>2, <1>7, <1>9 DEF OutInv

\* What a table is about to write to is a file of its own rows, and the next row
\* of a table is a new one.
LEMMA RowTyped ==
  ASSUME OutTyped, NEW t \in selected
  PROVE  /\ t \in OutTables /\ PathOf(t) \in Paths /\ PathOf(t) \in {PathOf(u) : u \in selected}
         /\ NextRow(t) \in {t} \X Nat /\ NextRow(t) \in OutRows
         /\ wrote[t] \in Seq(OutRows) /\ wrote[t] \in Seq({t} \X Nat)
         /\ <<"row", NextRow(t)>> \in NewItems
         /\ <<"row", NextRow(t)>> \in RowItems(t)
         /\ \A u \in OutTables : u # t => <<"row", NextRow(t)>> \notin RowItems(u)
<1>1. t \in OutTables /\ PathOf(t) \in Paths BY PathsOf DEF OutTyped
<1>2. wrote[t] \in Seq(OutRows) /\ wrote[t] \in Seq({t} \X Nat)
  BY <1>1 DEF OutTyped, OutRows
<1>3. PICK n : n = Len(wrote[t]) + 1 OBVIOUS
<1>4. n \in Nat BY <1>2, <1>3
<1>5. NextRow(t) = <<t, n>> BY <1>3 DEF NextRow
<1>6. <<"row", <<t, n>>>> \in NewItems BY <1>1, <1>4, ItemKinds
<1>7. <<"row", <<t, n>>>> \in RowItems(t) BY <1>4 DEF RowItems
<1>8. ASSUME NEW u \in OutTables, u # t PROVE <<"row", <<t, n>>>> \notin RowItems(u)
  BY <1>8 DEF RowItems
<1>9. NextRow(t) \in {t} \X Nat /\ NextRow(t) \in OutRows BY <1>1, <1>4, <1>5 DEF OutRows
<1>10. PathOf(t) \in {PathOf(u) : u \in selected} OBVIOUS
<1> QED BY <1>1, <1>2, <1>5, <1>6, <1>7, <1>8, <1>9, <1>10, Zenon

\* A row of a text format (writeRow): its file is opened or opened again, the file
\* used longest ago is flushed and closed for it, and the row is appended.
LEMMA TextStep ==
  ASSUME OutInv, NEW t \in OutTables, WriteText(t) PROVE OutInv'
<1>1. /\ outFormat # "dmp" /\ outPhase = "writing" /\ t \in selected \ refused
      /\ CanOpen(PathOf(t))
  BY DEF WriteText, MayWrite
<1>2. OutTyped /\ Writing BY <1>1 DEF OutInv
<1>3. PICK p : p = PathOf(t) OBVIOUS
<1>4. PICK at : at = Target(p) OBVIOUS
<1>5. PICK r : r = NextRow(t) OBVIOUS
<1>6. PICK row : row = <<<<"row", r>>>> OBVIOUS
<1>7. PICK after : after = Written(at.disk[p], at.held[p], row) OBVIOUS
<1>8. /\ opened' = at.opened /\ begun' = begun \cup {p} /\ dump' = dump
      /\ \/ disk' = at.disk /\ held' = at.held /\ OutFails(t)
         \/ /\ disk' = [at.disk EXCEPT ![p] = after.disk]
            /\ held' = [at.held EXCEPT ![p] = after.held]
            /\ wrote' = [wrote EXCEPT ![t] = Append(@, r)]
            /\ UNCHANGED <<outFormat, split, selected, refused, full, outPhase>>
  <2>1. WriteText(t) OBVIOUS
  <2> QED BY <2>1, <1>3, <1>4, <1>5, <1>6, <1>7, Zenon DEF WriteText
<1>9. /\ UNCHANGED <<outFormat, split, selected, full, outPhase, dump>>
      /\ refused \subseteq refused' /\ refused' \subseteq refused \cup {t}
  BY <1>8 DEF OutFails
<1>10. /\ p \in Paths /\ p \in {PathOf(u) : u \in selected}
       /\ r \in {t} \X Nat /\ r \in OutRows
       /\ wrote[t] \in Seq(OutRows) /\ wrote[t] \in Seq({t} \X Nat)
       /\ <<"row", r>> \in NewItems
       /\ <<"row", r>> \in RowItems(t)
       /\ \A u \in OutTables : u # t => <<"row", r>> \notin RowItems(u)
  BY <1>1, <1>2, <1>3, <1>5, RowTyped
<1>30. OutTyped /\ Writing /\ p \in Paths /\ CanOpen(p) BY <1>1, <1>2, <1>3, <1>10
<1>11. /\ at.disk \in [Paths -> Seq(AnyItems)] /\ at.held \in [Paths -> Seq(AnyItems)]
       /\ at.opened \in Seq(Paths) /\ Range(at.opened) \subseteq begun \cup {p}
       /\ p \in Range(at.opened)
       /\ split => Len(at.opened) <= MaxOpen
       /\ \A q \in Paths : q \notin Range(at.opened) => at.held[q] = <<>>
  BY <1>4, <1>30, TargetWhole, Zenon
<1>12. \A q \in Paths : q # p => /\ at.disk[q] \o at.held[q] = WholeFile(q)
                                 /\ q \notin begun => at.disk[q] = disk[q]
  <2>1. \A q \in Paths : q # p => at.disk[q] \o at.held[q] = WholeFile(q)
    BY <1>4, <1>30, TargetWhole, Zenon
  <2>2. \A q \in Paths : q # p => (q \notin begun => at.disk[q] = disk[q])
    BY <1>4, <1>30, TargetWhole, Zenon
  <2> QED BY <2>1, <2>2, Zenon
<1>13. /\ p \in begun => at.disk[p] \o at.held[p] = WholeFile(p)
       /\ p \notin begun => at.disk[p] \o at.held[p] = Beginning
  BY <1>4, <1>30, TargetWhole, Zenon
<1>14. \A u \in refused : PathOf(u) \in Range(opened) => PathOf(u) \in Range(at.opened)
  BY <1>1, <1>4, <1>30, TargetWhole, Zenon
<1>15. PICK W : W = at.disk[p] \o at.held[p] OBVIOUS
<1>16. /\ W \in Seq(NewItems)
       /\ \A u \in selected : PathOf(u) = p => Kept(W, RowItems(u)) = RowsInOrder(wrote[u])
  <2>1. \A u \in selected : FilesOf(u) BY <1>2 DEF Writing
  <2>2. CASE p \in begun
    <3>1. W = WholeFile(p) BY <1>13, <1>15, <2>2
    <3>2. \A u \in selected : PathOf(u) = p =>
            /\ WholeFile(p) \in Seq(NewItems)
            /\ Kept(WholeFile(p), RowItems(u)) = RowsInOrder(wrote[u])
      BY <1>1, <2>1, <2>2, Zenon DEF FilesOf
    <3> QED BY <1>1, <1>3, <3>1, <3>2
  <2>3. CASE p \notin begun
    <3>1. W = Beginning BY <1>13, <1>15, <2>3
    <3>2. \A u \in selected : PathOf(u) = p => wrote[u] = <<>>
      BY <2>1, <2>3, Zenon DEF FilesOf
    <3>3. \A u \in selected : u \in OutTables BY <1>2 DEF OutTyped
    <3> QED BY <1>1, <3>1, <3>2, <3>3, BeginningIs, RowsOrdered
  <2> QED BY <2>2, <2>3
<1>17. PICK h : h = <<"row", r>> OBVIOUS
<1>18. row = <<h>> /\ h \in NewItems BY <1>6, <1>10, <1>17
<1>19. row \in Seq(NewItems) /\ row \in Seq(AnyItems) BY <1>18 DEF AnyItems
<1>20. PICK V : V = W \o row OBVIOUS
<1>21. V \in Seq(NewItems)
  <2>1. W \o row \in Seq(NewItems) BY <1>16, <1>19, ConcatProperties
  <2> QED BY <1>20, <2>1
<1>22. \A u \in OutTables : Kept(V, RowItems(u)) =
         IF u = t THEN Kept(W, RowItems(u)) \o row ELSE Kept(W, RowItems(u))
  <2> TAKE u \in OutTables
  <2>1. PICK T : T = RowItems(u) OBVIOUS
  <2>2. Kept(W \o row, T) = Kept(W, T) \o Kept(row, T) BY <1>16, <1>19, KeptConcat
  <2>3. Kept(W, T) \in Seq(NewItems) BY <1>16, KeptFacts
  <2>4. Kept(W, T) \o <<>> = Kept(W, T) BY <2>3, ConcatEmptySeq
  <2>5. Kept(<<h>>, T) = IF h \in T THEN <<h>> ELSE <<>> BY <1>18, KeptOne
  <2>6. CASE u = t
    <3>1. h \in T BY <1>10, <1>17, <2>1, <2>6
    <3>2. Kept(row, T) = row BY <1>18, <2>5, <3>1
    <3> QED BY <1>20, <2>1, <2>2, <2>6, <3>2, Zenon
  <2>7. CASE u # t
    <3>1. h \notin T BY <1>10, <1>17, <2>1, <2>7
    <3>2. Kept(row, T) = <<>> BY <1>18, <2>5, <3>1
    <3> QED BY <1>20, <2>1, <2>2, <2>4, <2>7, <3>2, Zenon
  <2> QED BY <2>6, <2>7
<1>23. /\ after.disk \in Seq(AnyItems) /\ after.held \in Seq(AnyItems)
       /\ after.disk \o after.held = V
  <2>1. PICK d, e : d = at.disk[p] /\ e = at.held[p] OBVIOUS
  <2>2. d \in Seq(AnyItems) /\ e \in Seq(AnyItems) BY <1>10, <1>11, <2>1
  <2>3. /\ Written(d, e, row).disk \in Seq(AnyItems) /\ Written(d, e, row).held \in Seq(AnyItems)
        /\ InAll(Written(d, e, row)) = Behind(d, e, row)
    BY <1>19, <2>2, WrittenWhole
  <2>4. after = Written(d, e, row) /\ V = Behind(d, e, row)
    BY <1>7, <1>15, <1>20, <2>1, Zenon DEF Behind
  <2>5. V = after.disk \o after.held BY <2>3, <2>4, Zenon DEF InAll
  <2> QED BY <2>3, <2>4, <2>5, Zenon
<1>24. /\ disk' \in [Paths -> Seq(AnyItems)] /\ held' \in [Paths -> Seq(AnyItems)]
       /\ \A q \in Paths \ {p} : disk'[q] = at.disk[q] /\ held'[q] = at.held[q]
  BY <1>8, <1>11, <1>23
<1>25. \/ disk'[p] \o held'[p] = W /\ wrote' = wrote /\ refused' = refused \cup {t}
       \/ /\ disk'[p] \o held'[p] = V /\ wrote' = [wrote EXCEPT ![t] = Append(@, r)]
          /\ refused' = refused
  <2>1. CASE disk' = at.disk /\ held' = at.held /\ OutFails(t)
    BY <1>15, <2>1 DEF OutFails
  <2>2. CASE /\ disk' = [at.disk EXCEPT ![p] = after.disk]
             /\ held' = [at.held EXCEPT ![p] = after.held]
             /\ wrote' = [wrote EXCEPT ![t] = Append(@, r)]
             /\ UNCHANGED <<outFormat, split, selected, refused, full, outPhase>>
    <3>1. disk'[p] = after.disk /\ held'[p] = after.held BY <1>10, <1>11, <2>2
    <3> QED BY <1>23, <2>2, <3>1, Zenon
  <2> QED BY <1>8, <2>1, <2>2
<1>26. /\ wrote' \in [OutTables -> Seq(OutTables \X Nat)]
       /\ \A u \in OutTables : wrote'[u] \in Seq({u} \X Nat)
       /\ \A u \in OutTables : u # t => wrote'[u] = wrote[u]
  <2>1. /\ wrote \in [OutTables -> Seq(OutTables \X Nat)]
        /\ \A u \in OutTables : wrote[u] \in Seq({u} \X Nat)
    BY <1>2 DEF OutTyped
  <2>2. CASE wrote' = wrote BY <2>1, <2>2
  <2>3. CASE wrote' = [wrote EXCEPT ![t] = Append(@, r)]
    <3>1. PICK s : s = Append(wrote[t], r) OBVIOUS
    <3>2. s \in Seq(OutRows) /\ s \in Seq({t} \X Nat) BY <1>10, <3>1, AppendProperties
    <3>3. wrote' = [wrote EXCEPT ![t] = s] BY <2>3, <3>1
    <3>4. /\ wrote' \in [OutTables -> Seq(OutTables \X Nat)]
          /\ wrote'[t] = s /\ \A u \in OutTables : u # t => wrote'[u] = wrote[u]
      BY <2>1, <3>2, <3>3 DEF OutRows
    <3> QED BY <2>1, <3>2, <3>4
  <2> QED BY <1>25, <2>2, <2>3
<1>27. OutTyped'
  <2>1. \A u : PathOf(u)' = PathOf(u) BY <1>9 DEF PathOf
  <2>2. Paths' = Paths BY DEF Paths
  <2>3. begun' \subseteq {PathOf(u)' : u \in selected'}
    BY <1>2, <1>8, <1>9, <1>10, <2>1 DEF OutTyped
  <2>4. refused' \subseteq selected' BY <1>1, <1>2, <1>9 DEF OutTyped
  <2>5. dump' \in [Paths -> DumpRecord] BY <1>2, <1>9 DEF OutTyped
  <2>6. opened' \in Seq(Paths) BY <1>8, <1>11
  <2> QED BY <1>2, <1>9, <1>24, <1>26, <2>2, <2>3, <2>4, <2>5, <2>6 DEF OutTyped
<1>28. ASSUME NEW u \in selected PROVE FilesOf(u)'
  <2>1. PICK q : q = PathOf(u) OBVIOUS
  <2>2. q \in Paths /\ u \in OutTables BY <1>2, <2>1, PathsOf DEF OutTyped
  <2>3. PathOf(u)' = q BY <1>9, <2>1 DEF PathOf
  <2>4. FilesOf(u) BY <1>2 DEF Writing
  <2>5. WholeFile(q)' = disk'[q] \o held'[q] BY DEF WholeFile
  <2>6. CASE q # p
    <3>1. u # t BY <1>3, <2>1, <2>6
    <3>2. WholeFile(q)' = WholeFile(q) /\ wrote'[u] = wrote[u] /\ (q \in begun' <=> q \in begun)
          /\ (q \notin begun => disk'[q] = disk[q])
      <4>1. disk'[q] = at.disk[q] /\ held'[q] = at.held[q] BY <1>24, <2>2, <2>6
      <4>2. at.disk[q] \o at.held[q] = WholeFile(q) BY <1>12, <2>2, <2>6
      <4>3. q \notin begun => at.disk[q] = disk[q] BY <1>12, <2>2, <2>6
      <4>4. WholeFile(q)' = WholeFile(q) BY <2>5, <4>1, <4>2, Zenon
      <4> QED BY <1>8, <1>26, <2>2, <2>6, <3>1, <4>1, <4>3, <4>4
    <3>3. u \in refused /\ q \in Range(opened) => u \in refused' /\ q \in Range(opened')
      BY <1>8, <1>9, <1>14, <2>1
    <3>4. CASE q \notin begun
      BY <1>9, <2>1, <2>3, <2>4, <3>2, <3>4 DEF FilesOf
    <3>5. CASE q \in begun
      <4>1. /\ WholeFile(q) \in Seq(NewItems)
            /\ Kept(WholeFile(q), RowItems(u)) = RowsInOrder(wrote[u])
            /\ outFormat = "fldr" /\ wrote[u] = <<>> => u \in refused /\ q \in Range(opened)
        BY <1>1, <2>1, <2>4, <3>5 DEF FilesOf
      <4>2. /\ WholeFile(q)' \in Seq(NewItems)
            /\ Kept(WholeFile(q)', RowItems(u)) = RowsInOrder(wrote'[u])
            /\ outFormat' = "fldr" /\ wrote'[u] = <<>> => u \in refused' /\ q \in Range(opened')
        BY <1>9, <3>2, <3>3, <4>1
      <4> QED BY <1>1, <1>9, <2>3, <3>2, <3>5, <4>2 DEF FilesOf
    <3> QED BY <3>4, <3>5
  <2>7. CASE q = p
    <3>1. q \in begun' /\ q \in Range(opened') BY <1>8, <1>11, <2>7
    <3>2. Kept(W, RowItems(u)) = RowsInOrder(wrote[u]) BY <1>16, <2>1, <2>7
    <3>3. outFormat = "fldr" => u = t
      <4>1. outFormat # "sql" => u = t BY <1>1, <1>2, <1>3, <2>1, <2>7, FilesApart
      <4> QED BY <4>1
    <3>4. CASE /\ disk'[p] \o held'[p] = W /\ wrote' = wrote /\ refused' = refused \cup {t}
      <4>1. WholeFile(q)' = W BY <2>5, <2>7, <3>4, Zenon
      <4>2. /\ WholeFile(q)' \in Seq(NewItems)
            /\ Kept(WholeFile(q)', RowItems(u)) = RowsInOrder(wrote'[u])
        BY <1>16, <3>2, <3>4, <4>1, Zenon
      <4>3. outFormat' = "fldr" => u \in refused' BY <1>9, <3>3, <3>4
      <4> QED BY <1>1, <1>9, <2>3, <3>1, <4>2, <4>3 DEF FilesOf
    <3>5. CASE /\ disk'[p] \o held'[p] = V /\ wrote' = [wrote EXCEPT ![t] = Append(@, r)]
               /\ refused' = refused
      <4>1. WholeFile(q)' = V BY <2>5, <2>7, <3>5, Zenon
      <4>2. Kept(V, RowItems(u)) = RowsInOrder(wrote'[u]) /\ (u = t => wrote'[u] # <<>>)
        <5>1. CASE u = t
          <6>1. wrote'[t] = Append(wrote[t], r) BY <1>2, <3>5 DEF OutTyped
          <6>2. RowsInOrder(Append(wrote[t], r)) = RowsInOrder(wrote[t]) \o <<<<"row", r>>>>
            BY <1>10, RowsOrdered, Zenon
          <6>3. Kept(V, RowItems(u)) = Kept(W, RowItems(u)) \o row BY <1>22, <2>2, <5>1
          <6>4. Append(wrote[t], r) # <<>> BY <1>10, AppendProperties
          <6> QED BY <1>6, <3>2, <5>1, <6>1, <6>2, <6>3, <6>4, Zenon
        <5>2. CASE u # t
          <6>1. Kept(V, RowItems(u)) = Kept(W, RowItems(u)) BY <1>22, <2>2, <5>2
          <6> QED BY <1>26, <2>2, <3>2, <5>2, <6>1
        <5> QED BY <5>1, <5>2
      <4>3. /\ WholeFile(q)' \in Seq(NewItems)
            /\ Kept(WholeFile(q)', RowItems(u)) = RowsInOrder(wrote'[u])
        BY <1>21, <4>1, <4>2, Zenon
      <4>4. outFormat' = "fldr" => wrote'[u] # <<>> BY <1>9, <3>3, <4>2
      <4> QED BY <1>1, <1>9, <2>3, <3>1, <4>3, <4>4 DEF FilesOf
    <3> QED BY <1>25, <3>4, <3>5
  <2> QED BY <2>6, <2>7
<1>29. Writing'
  <2>1. Range(opened') \subseteq begun' /\ (split' => Len(opened') <= MaxOpen')
    BY <1>8, <1>9, <1>11
  <2>2. \A q \in Paths : q \notin Range(opened') => held'[q] = <<>>
    <3> TAKE q \in Paths
    <3>1. q \notin Range(opened') => q # p /\ at.held[q] = <<>> BY <1>8, <1>11
    <3> QED BY <1>24, <3>1
  <2>3. \A q \in Paths : ~dump'[q].sealed /\ (outFormat' # "dmp" => dump'[q].phases = <<>>)
    BY <1>2, <1>9 DEF Writing
  <2>4. \A u \in selected' : FilesOf(u)' BY <1>9, <1>28
  <2>5. Paths' = Paths BY DEF Paths
  <2> QED BY <2>1, <2>2, <2>3, <2>4, <2>5 DEF Writing
<1> QED BY <1>1, <1>9, <1>27, <1>29 DEF OutInv

\* The fields of a row
LEMMA FieldsAre == ASSUME NEW t PROVE Fields(t) = RowFields(NextRow(t))
BY DEF Fields, RowFields

\* A row of a dump (DMPDataWriter): it starts a phase when the last one is long
\* enough, and an error in the middle gives the dump up, never to be sealed.
LEMMA DumpStep ==
  ASSUME OutInv, NEW t \in OutTables, NEW breaks \in BOOLEAN, WriteDump(t, breaks)
  PROVE  OutInv'
<1>1. /\ outFormat = "dmp" /\ outPhase = "writing" /\ t \in selected \ refused
      /\ CanOpen(PathOf(t))
  BY DEF WriteDump, MayWrite
<1>2. OutTyped /\ Writing BY <1>1 DEF OutInv
<1>3. PICK p : p = PathOf(t) OBVIOUS
<1>4. PICK at : at = Target(p) OBVIOUS
<1>5. PICK d : d = DumpOf(p) OBVIOUS
<1>6. PICK r : r = NextRow(t) OBVIOUS
<1>7. PICK cut, grown : cut = PhaseEnds(p, at, d) /\ grown = WithPhase(p, at, d) OBVIOUS
<1>8. PICK phase : phase = IF cut THEN <<<<"phase", Len(d.phases) + 2>>>> ELSE <<>> OBVIOUS
<1>9. PICK fields : fields = Fields(t) OBVIOUS
<1>10. PICK items : items = phase \o fields OBVIOUS
<1>11. PICK base : base = IF cut THEN [disk |-> at.disk[p] \o at.held[p], held |-> <<>>]
                          ELSE [disk |-> at.disk[p], held |-> at.held[p]]
  OBVIOUS
<1>12. PICK after : after = Written(base.disk, base.held, items) OBVIOUS
<1>13. /\ opened' = at.opened /\ begun' = begun \cup {p}
       /\ \/ /\ disk' = [at.disk EXCEPT ![p] = Gone] /\ held' = [at.held EXCEPT ![p] = <<>>]
             /\ dump' = [dump EXCEPT ![p] = Aborted(d)] /\ OutFails(t)
          \/ /\ disk' = [at.disk EXCEPT ![p] = after.disk]
             /\ held' = [at.held EXCEPT ![p] = after.held]
             /\ dump' = [dump EXCEPT ![p] =
                  [grown EXCEPT !.phases[Len(grown.phases)].rows = @ + 1]]
             /\ wrote' = [wrote EXCEPT ![t] = Append(@, r)]
             /\ UNCHANGED <<outFormat, split, selected, refused, full, outPhase>>
  <2>1. WriteDump(t, breaks) OBVIOUS
  <2> QED BY <2>1, <1>3, <1>4, <1>5, <1>6, <1>7, <1>8, <1>9, <1>10, <1>11, <1>12, Zenon
      DEF WriteDump
<1>14. /\ UNCHANGED <<outFormat, split, selected, full, outPhase>>
       /\ refused \subseteq refused' /\ refused' \subseteq refused \cup {t}
  BY <1>13 DEF OutFails
<1>15. /\ p \in Paths /\ p \in {PathOf(u) : u \in selected}
       /\ r \in {t} \X Nat /\ r \in OutRows
       /\ wrote[t] \in Seq(OutRows) /\ wrote[t] \in Seq({t} \X Nat)
  BY <1>1, <1>2, <1>3, <1>6, RowTyped
<1>16. OutTyped /\ Writing /\ p \in Paths /\ CanOpen(p) BY <1>1, <1>2, <1>3, <1>15
<1>17. /\ at.disk \in [Paths -> Seq(AnyItems)] /\ at.held \in [Paths -> Seq(AnyItems)]
       /\ at.opened \in Seq(Paths) /\ Range(at.opened) \subseteq begun \cup {p}
       /\ p \in Range(at.opened)
       /\ split => Len(at.opened) <= MaxOpen
       /\ \A q \in Paths : q \notin Range(at.opened) => at.held[q] = <<>>
  BY <1>4, <1>16, TargetWhole, Zenon
<1>18. \A q \in Paths : q # p => /\ at.disk[q] \o at.held[q] = WholeFile(q)
                                 /\ q \notin begun => at.disk[q] = disk[q]
  <2>1. \A q \in Paths : q # p => at.disk[q] \o at.held[q] = WholeFile(q)
    BY <1>4, <1>16, TargetWhole, Zenon
  <2>2. \A q \in Paths : q # p => (q \notin begun => at.disk[q] = disk[q])
    BY <1>4, <1>16, TargetWhole, Zenon
  <2> QED BY <2>1, <2>2, Zenon
<1>19. /\ p \in begun => at.disk[p] \o at.held[p] = WholeFile(p)
       /\ p \notin begun => at.disk[p] \o at.held[p] = Beginning
  BY <1>4, <1>16, TargetWhole, Zenon
<1>20. PICK W, dh, hh : dh = at.disk[p] /\ hh = at.held[p] /\ W = dh \o hh OBVIOUS
<1>21. /\ dh \in Seq(AnyItems) /\ hh \in Seq(AnyItems) /\ W \in Seq(AnyItems)
       /\ Len(W) = Len(dh) + Len(hh) /\ Len(W) \in Nat
  <2>1. dh \in Seq(AnyItems) /\ hh \in Seq(AnyItems) BY <1>15, <1>17, <1>20
  <2>2. W \in Seq(AnyItems) /\ Len(W) = Len(dh) + Len(hh) BY ONLY <1>20, <2>1, Joined
  <2> QED BY <2>1, <2>2
<1>22. PICK ph : ph = d.phases OBVIOUS
\* what stood in the file before
<1>23. /\ d \in DumpRecord /\ ph # <<>> /\ ~d.sealed
       /\ d.closed \/ DumpAt(W, ph, wrote[t])
  <2>1. FilesOf(t) BY <1>1, <1>2 DEF Writing
  <2>2. CASE p \in begun
    <3>1. d = dump[p] BY <1>5, <2>2 DEF DumpOf, Starts
    <3>2. /\ dump[p].phases # <<>>
          /\ dump[p].closed \/ DumpAt(WholeFile(p), dump[p].phases, wrote[t])
      BY <1>1, <1>3, <2>1, <2>2, Zenon DEF FilesOf
    <3>3. dump[p] \in DumpRecord /\ ~dump[p].sealed BY <1>2, <1>15 DEF OutTyped, Writing
    <3>4. W = WholeFile(p) BY <1>19, <1>20, <2>2, Zenon
    <3> QED BY <1>22, <3>1, <3>2, <3>3, <3>4, Zenon
  <2>3. CASE p \notin begun
    <3>1. d = [NoDump EXCEPT !.phases = <<[start |-> 2, rows |-> 0]>>]
      BY <1>1, <1>5, <2>3 DEF DumpOf, Starts
    <3>2. PICK first : first = <<[start |-> 2, rows |-> 0]>> OBVIOUS
    <3>3. first \in Seq(PhaseRecord) /\ first # <<>>
      <4>1. [start |-> 2, rows |-> 0] \in PhaseRecord BY DEF PhaseRecord
      <4> QED BY <3>2, <4>1
    <3>4. d = [phases |-> first, closed |-> FALSE, sealed |-> FALSE]
      BY <3>1, <3>2 DEF NoDump
    <3>5. d \in DumpRecord /\ d.phases = first /\ ~d.sealed BY <3>3, <3>4 DEF DumpRecord
    <3>6. W = <<<<"head">>, <<"phase", 2>>>> BY <1>1, <1>19, <1>20, <2>3, Zenon DEF Beginning
    <3>7. wrote[t] = <<>> BY <1>3, <2>1, <2>3, Zenon DEF FilesOf
    <3>8. DumpAt(W, first, wrote[t]) BY <3>2, <3>6, <3>7, NewDump, Zenon
    <3> QED BY <1>22, <3>3, <3>5, <3>8
  <2> QED BY <2>2, <2>3
<1>24. ph \in Seq(PhaseRecord) /\ Len(ph) \in Nat BY <1>22, <1>23 DEF DumpRecord
\* with a phase more, if one is due
<1>25. PICK V, gh : V = W \o phase /\ gh = grown.phases OBVIOUS
<1>26. /\ V \in Seq(AnyItems) /\ phase \in Seq(AnyItems)
       /\ gh \in Seq(PhaseRecord) /\ gh # <<>>
       /\ grown = [d EXCEPT !.phases = gh]
       /\ d.closed \/ DumpAt(V, gh, wrote[t])
  <2>1. CASE cut
    <3>1. PICK new : new = [start |-> Len(W) + 1, rows |-> 0] OBVIOUS
    <3>2. new \in PhaseRecord BY <1>21, <3>1 DEF PhaseRecord
    <3>3. Offset(p, at) = Len(W) BY <1>20, <1>21 DEF Offset
    <3>4. grown = [d EXCEPT !.phases = Append(@, new)]
      BY <1>7, <2>1, <3>1, <3>3 DEF WithPhase
    <3>5. d.phases = ph BY <1>22
    <3>6. PICK g : g = Append(ph, new) OBVIOUS
    <3>7. grown = [d EXCEPT !.phases = g] BY <3>4, <3>5, <3>6
    <3>8. gh = g BY <1>23, <1>25, <3>7 DEF DumpRecord
    <3>9. g \in Seq(PhaseRecord) /\ g # <<>> BY <1>24, <3>2, <3>6, AppendProperties
    <3>10. PICK mark : mark = <<"phase", Len(ph) + 2>> OBVIOUS
    <3>11. mark \in NewItems
      <4>1. Len(ph) + 2 \in Nat BY <1>24
      <4> QED BY <3>10, <4>1, ItemKinds
    <3>12. phase = <<mark>> BY <1>8, <2>1, <3>5, <3>10
    <3>13. phase \in Seq(AnyItems) BY <3>11, <3>12 DEF AnyItems
    <3>14. V = W \o <<<<"phase", Len(ph) + 2>>>> BY <1>25, <3>10, <3>12, Zenon
    <3>15. g = Append(ph, [start |-> Len(W) + 1, rows |-> 0]) BY <3>1, <3>6, Zenon
    <3>16. DumpAt(W, ph, wrote[t]) => DumpAt(V, g, wrote[t]) BY <3>14, <3>15, PhaseAdded, Zenon
    <3>17. V \in Seq(AnyItems)
      <4>1. W \o phase \in Seq(AnyItems) BY <1>21, <3>13, ConcatProperties
      <4> QED BY <1>25, <4>1
    <3> QED BY <1>23, <3>7, <3>8, <3>9, <3>13, <3>16, <3>17
  <2>2. CASE ~cut
    <3>1. grown = d BY <1>7, <2>2 DEF WithPhase
    <3>2. phase = <<>> BY <1>8, <2>2
    <3>3. W \o <<>> = W BY <1>21, ConcatEmptySeq
    <3>4. V = W BY <1>25, <3>2, <3>3, Zenon
    <3>5. phase \in Seq(AnyItems) BY <3>2, EmptySeq
    <3>6. gh = ph BY <1>22, <1>25, <3>1
    <3>7. d = [d EXCEPT !.phases = ph] BY <1>22, <1>23 DEF DumpRecord
    <3> QED BY <1>21, <1>23, <1>24, <3>1, <3>4, <3>5, <3>6, <3>7
  <2> QED BY <2>1, <2>2
<1>27. PICK U, qh, nd : /\ U = V \o fields /\ qh = [gh EXCEPT ![Len(gh)].rows = @ + 1]
                        /\ nd = [grown EXCEPT !.phases[Len(grown.phases)].rows = @ + 1]
  OBVIOUS
<1>28. fields = RowFields(r) /\ fields \in Seq(AnyItems)
  <2>1. fields = RowFields(r) BY <1>6, <1>9, FieldsAre
  <2>2. RowFields(r) \in Seq(FieldItems) BY <1>15, FieldsAppended
  <2>3. FieldItems \subseteq AnyItems BY DEF AnyItems, NewItems
  <2>4. \A i \in 1 .. Len(fields) : fields[i] \in FieldItems BY <2>1, <2>2, ElementOfSeq
  <2>5. \A i \in 1 .. Len(fields) : fields[i] \in AnyItems BY <2>3, <2>4
  <2>6. fields = [i \in 1 .. Len(fields) |-> fields[i]] /\ Len(fields) \in Nat BY <2>1, <2>2
  <2> QED BY ONLY <2>1, <2>5, <2>6
<1>29. qh \in Seq(PhaseRecord) /\ qh # <<>> BY <1>26, <1>27, RowCounted
<1>30. nd = [d EXCEPT !.phases = qh] /\ nd \in DumpRecord /\ nd.phases = qh /\ ~nd.sealed
       /\ nd.closed = d.closed
  <2>1. nd = [grown EXCEPT !.phases = [gh EXCEPT ![Len(gh)].rows = @ + 1]]
    BY <1>25, <1>27
  <2>2. nd = [grown EXCEPT !.phases = qh] BY <1>27, <2>1
  <2>3. nd = [d EXCEPT !.phases = qh] BY <1>26, <2>2
  <2> QED BY <1>23, <1>29, <2>3 DEF DumpRecord
<1>31. d.closed \/ (wrote'[t] = Append(wrote[t], r) => DumpAt(U, qh, wrote'[t]))
  <2>1. U = V \o RowFields(r) BY <1>27, <1>28, Zenon
  <2>2. DumpAt(V, gh, wrote[t]) => DumpAt(U, qh, Append(wrote[t], r))
    <3>1. wrote[t] \in Seq(OutRows) /\ r \in OutRows BY <1>15
    <3>2. qh = [gh EXCEPT ![Len(gh)].rows = @ + 1] BY <1>27
    <3> QED BY <2>1, <3>1, <3>2, RowAdded
  <2> QED BY <1>26, <2>2
<1>32. /\ after.disk \in Seq(AnyItems) /\ after.held \in Seq(AnyItems)
       /\ after.disk \o after.held = U
  <2>1. PICK b, c : b = base.disk /\ c = base.held OBVIOUS
  <2>2. b \in Seq(AnyItems) /\ c \in Seq(AnyItems) /\ b \o c = W
    <3>1. CASE cut
      <4>1. base = [disk |-> W, held |-> <<>>] BY <1>11, <1>20, <3>1
      <4>2. b = W /\ c = <<>> BY <2>1, <4>1
      <4>3. W \o <<>> = W /\ <<>> \in Seq(AnyItems) BY <1>21, ConcatEmptySeq, EmptySeq
      <4> QED BY <1>21, <4>2, <4>3, Zenon
    <3>2. CASE ~cut
      <4>1. base = [disk |-> dh, held |-> hh] BY <1>11, <1>20, <3>2
      <4>2. b = dh /\ c = hh BY <2>1, <4>1
      <4> QED BY <1>20, <1>21, <4>2, Zenon
    <3> QED BY <3>1, <3>2
  <2>3. items \in Seq(AnyItems)
    <3>1. phase \in Seq(AnyItems) /\ fields \in Seq(AnyItems) BY <1>26, <1>28
    <3>2. phase \o fields \in Seq(AnyItems) BY <3>1, ConcatProperties
    <3> QED BY <1>10, <3>2
  <2>4. b \in Seq(AnyItems) /\ c \in Seq(AnyItems) BY <2>2
  <2>5. /\ Written(b, c, items).disk \in Seq(AnyItems)
        /\ Written(b, c, items).held \in Seq(AnyItems)
        /\ InAll(Written(b, c, items)) = Behind(b, c, items)
    BY <2>3, <2>4, WrittenWhole
  <2>6. after = Written(b, c, items) BY <1>12, <2>1, Zenon
  <2>7. Behind(b, c, items) = W \o items BY <2>2, Zenon DEF Behind
  <2>8. W \o items = U
    <3>1. phase \in Seq(AnyItems) /\ fields \in Seq(AnyItems) /\ W \in Seq(AnyItems)
      BY <1>21, <1>26, <1>28
    <3>2. (W \o phase) \o fields = W \o (phase \o fields) BY ONLY <3>1, ConcatAssociative
    <3> QED BY <1>10, <1>25, <1>27, <3>2, Zenon
  <2>9. after.disk \o after.held = U BY <2>5, <2>6, <2>7, <2>8, Zenon DEF InAll
  <2> QED BY <2>5, <2>6, <2>9, Zenon
<1>33. /\ Aborted(d) \in DumpRecord /\ Aborted(d).closed
       /\ Aborted(d).phases = ph /\ ~Aborted(d).sealed
  BY <1>22, <1>23 DEF DumpRecord, Aborted
\* what stands there now
<1>34. /\ disk' \in [Paths -> Seq(AnyItems)] /\ held' \in [Paths -> Seq(AnyItems)]
       /\ dump' \in [Paths -> DumpRecord]
       /\ \A q \in Paths : q # p =>
            disk'[q] = at.disk[q] /\ held'[q] = at.held[q] /\ dump'[q] = dump[q]
       /\ ~dump'[p].sealed /\ dump'[p].phases # <<>>
       /\ \/ wrote' = wrote /\ dump'[p].closed
          \/ /\ wrote' = [wrote EXCEPT ![t] = Append(@, r)]
             /\ dump'[p].closed \/ DumpAt(disk'[p] \o held'[p], dump'[p].phases, wrote'[t])
  <2>1. dump \in [Paths -> DumpRecord] /\ wrote \in [OutTables -> Seq(OutTables \X Nat)]
    BY <1>2 DEF OutTyped
  <2>2. CASE /\ disk' = [at.disk EXCEPT ![p] = Gone] /\ held' = [at.held EXCEPT ![p] = <<>>]
             /\ dump' = [dump EXCEPT ![p] = Aborted(d)] /\ OutFails(t)
    <3>1. dump'[p] = Aborted(d) BY <1>15, <2>1, <2>2
    <3>2. wrote' = wrote BY <2>2 DEF OutFails
    <3>3. /\ disk' \in [Paths -> Seq(AnyItems)] /\ held' \in [Paths -> Seq(AnyItems)]
          /\ dump' \in [Paths -> DumpRecord]
          /\ \A q \in Paths : q # p =>
            disk'[q] = at.disk[q] /\ held'[q] = at.held[q] /\ dump'[q] = dump[q]
      BY <1>17, <1>33, <2>1, <2>2, GoneTyped
    <3> QED BY <1>23, <1>33, <3>1, <3>2, <3>3
  <2>3. CASE /\ disk' = [at.disk EXCEPT ![p] = after.disk]
             /\ held' = [at.held EXCEPT ![p] = after.held]
             /\ dump' = [dump EXCEPT ![p] =
                  [grown EXCEPT !.phases[Len(grown.phases)].rows = @ + 1]]
             /\ wrote' = [wrote EXCEPT ![t] = Append(@, r)]
             /\ UNCHANGED <<outFormat, split, selected, refused, full, outPhase>>
    <3>1. dump' = [dump EXCEPT ![p] = nd] BY <1>27, <2>3, Zenon
    <3>2. /\ dump'[p] = nd /\ disk'[p] = after.disk /\ held'[p] = after.held
      BY <1>15, <1>17, <2>1, <2>3, <3>1
    <3>3. disk'[p] \o held'[p] = U BY <1>32, <3>2, Zenon
    <3>4. wrote'[t] = Append(wrote[t], r) BY <2>1, <2>3
    <3>5. nd.closed \/ DumpAt(U, qh, wrote'[t]) BY <1>30, <1>31, <3>4
    <3>6. dump'[p].closed \/ DumpAt(disk'[p] \o held'[p], dump'[p].phases, wrote'[t])
      BY <1>30, <3>2, <3>3, <3>5, Zenon
    <3>7. /\ disk' \in [Paths -> Seq(AnyItems)] /\ held' \in [Paths -> Seq(AnyItems)]
          /\ dump' \in [Paths -> DumpRecord]
          /\ \A q \in Paths : q # p =>
            disk'[q] = at.disk[q] /\ held'[q] = at.held[q] /\ dump'[q] = dump[q]
      BY <1>17, <1>30, <1>32, <2>1, <2>3, <3>1
    <3> QED BY <1>29, <1>30, <2>3, <3>2, <3>6, <3>7, Zenon
  <2> QED BY <1>13, <2>2, <2>3
<1>35. /\ wrote' \in [OutTables -> Seq(OutTables \X Nat)]
       /\ \A u \in OutTables : wrote'[u] \in Seq({u} \X Nat)
       /\ \A u \in OutTables : u # t => wrote'[u] = wrote[u]
       /\ wrote' # wrote => wrote'[t] # <<>>
  <2>1. /\ wrote \in [OutTables -> Seq(OutTables \X Nat)]
        /\ \A u \in OutTables : wrote[u] \in Seq({u} \X Nat)
    BY <1>2 DEF OutTyped
  <2>2. CASE wrote' = wrote BY <2>1, <2>2
  <2>3. CASE wrote' = [wrote EXCEPT ![t] = Append(@, r)]
    <3>1. PICK s : s = Append(wrote[t], r) OBVIOUS
    <3>2. s \in Seq(OutRows) /\ s \in Seq({t} \X Nat) /\ s # <<>>
      BY <1>15, <3>1, AppendProperties
    <3>3. wrote' = [wrote EXCEPT ![t] = s] BY <2>3, <3>1
    <3>4. /\ wrote' \in [OutTables -> Seq(OutTables \X Nat)]
          /\ wrote'[t] = s /\ \A u \in OutTables : u # t => wrote'[u] = wrote[u]
      BY <2>1, <3>2, <3>3 DEF OutRows
    <3> QED BY <2>1, <3>2, <3>4
  <2> QED BY <1>34, <2>2, <2>3
<1>36. OutTyped'
  <2>1. \A u : PathOf(u)' = PathOf(u) BY <1>14 DEF PathOf
  <2>2. Paths' = Paths BY DEF Paths
  <2>3. begun' \subseteq {PathOf(u)' : u \in selected'}
    BY <1>2, <1>13, <1>14, <1>15, <2>1 DEF OutTyped
  <2>4. refused' \subseteq selected' BY <1>1, <1>2, <1>14 DEF OutTyped
  <2>5. opened' \in Seq(Paths) BY <1>13, <1>17
  <2> QED BY <1>2, <1>14, <1>34, <1>35, <2>2, <2>3, <2>4, <2>5 DEF OutTyped
<1>37. ASSUME NEW u \in selected PROVE FilesOf(u)'
  <2>1. PICK q : q = PathOf(u) OBVIOUS
  <2>2. q \in Paths /\ u \in OutTables BY <1>2, <2>1, PathsOf DEF OutTyped
  <2>3. PathOf(u)' = q BY <1>14, <2>1 DEF PathOf
  <2>4. FilesOf(u) BY <1>2 DEF Writing
  <2>5. WholeFile(q)' = disk'[q] \o held'[q] BY DEF WholeFile
  <2>6. CASE q # p
    <3>1. u # t BY <1>3, <2>1, <2>6
    <3>2. /\ WholeFile(q)' = WholeFile(q) /\ wrote'[u] = wrote[u] /\ (q \in begun' <=> q \in begun)
          /\ (q \notin begun => disk'[q] = disk[q]) /\ dump'[q] = dump[q]
      <4>1. disk'[q] = at.disk[q] /\ held'[q] = at.held[q] /\ dump'[q] = dump[q]
        BY <1>34, <2>2, <2>6
      <4>2. at.disk[q] \o at.held[q] = WholeFile(q) BY <1>18, <2>2, <2>6
      <4>3. q \notin begun => at.disk[q] = disk[q] BY <1>18, <2>2, <2>6
      <4>4. WholeFile(q)' = WholeFile(q) BY <2>5, <4>1, <4>2, Zenon
      <4> QED BY <1>13, <1>35, <2>2, <2>6, <3>1, <4>1, <4>3, <4>4
    <3>3. CASE q \notin begun
      BY <1>14, <2>1, <2>3, <2>4, <3>2, <3>3 DEF FilesOf
    <3>4. CASE q \in begun
      <4>1. /\ dump[q].phases # <<>>
            /\ \/ dump[q].closed
               \/ wrote[u] # <<>> /\ DumpAt(WholeFile(q), dump[q].phases, wrote[u])
        BY <1>1, <2>1, <2>4, <3>4 DEF FilesOf
      <4>2. /\ dump'[q].phases # <<>>
            /\ \/ dump'[q].closed
               \/ wrote'[u] # <<>> /\ DumpAt(WholeFile(q)', dump'[q].phases, wrote'[u])
        BY <3>2, <4>1
      <4>3. q \in begun' /\ outFormat' = "dmp" BY <1>1, <1>14, <3>2, <3>4
      <4> QED BY <2>3, <4>2, <4>3 DEF FilesOf
    <3> QED BY <3>3, <3>4
  <2>7. CASE q = p
    <3>1. u = t
      <4>1. outFormat # "sql" BY <1>1
      <4> QED BY <1>1, <1>2, <1>3, <2>1, <2>7, <4>1, FilesApart
    <3>2. q \in begun' /\ outFormat' = "dmp" BY <1>1, <1>13, <1>14, <2>7
    <3>3. dump'[q].closed \/ (wrote'[u] # <<>> /\ DumpAt(WholeFile(q)', dump'[q].phases, wrote'[u]))
      <4>1. CASE wrote' = wrote /\ dump'[p].closed BY <2>7, <4>1
      <4>2. CASE /\ wrote' = [wrote EXCEPT ![t] = Append(@, r)]
                 /\ dump'[p].closed \/ DumpAt(disk'[p] \o held'[p], dump'[p].phases, wrote'[t])
        <5>1. wrote'[t] # <<>>
          <6>1. wrote'[t] = Append(wrote[t], r) BY <1>2, <4>2 DEF OutTyped
          <6> QED BY <1>15, <6>1, AppendProperties
        <5> QED BY <2>5, <2>7, <3>1, <4>2, <5>1, Zenon
      <4> QED BY <1>34, <4>1, <4>2
    <3>4. dump'[q].phases # <<>> BY <1>34, <2>7
    <3> QED BY <2>3, <3>2, <3>3, <3>4 DEF FilesOf
  <2> QED BY <2>6, <2>7
<1>38. Writing'
  <2>1. Range(opened') \subseteq begun' /\ (split' => Len(opened') <= MaxOpen')
    BY <1>13, <1>14, <1>17
  <2>2. \A q \in Paths : q \notin Range(opened') => held'[q] = <<>>
    <3> TAKE q \in Paths
    <3>1. q \notin Range(opened') => q # p /\ at.held[q] = <<>> BY <1>13, <1>17
    <3> QED BY <1>34, <3>1
  <2>3. \A q \in Paths : ~dump'[q].sealed /\ (outFormat' # "dmp" => dump'[q].phases = <<>>)
    BY <1>1, <1>2, <1>14, <1>34 DEF Writing
  <2>4. \A u \in selected' : FilesOf(u)' BY <1>14, <1>37
  <2>5. Paths' = Paths BY DEF Paths
  <2> QED BY <2>1, <2>2, <2>3, <2>4, <2>5 DEF Writing
<1> QED BY <1>1, <1>14, <1>36, <1>38 DEF OutInv

\* What a reader of a dump finds
ReadBack(D, ph, rows) ==
  /\ Kept(D, FieldItems) = FieldsOf(rows)
  /\ \A n \in DOMAIN ph :
       /\ D[ph[n].start] = <<"phase", n + 1>>
       /\ Len(SubSeq(D, ph[n].start + 1, PhaseEnd(D, ph, n))) = Width * ph[n].rows

\* A sealed dump read back by its phases gives the rows written
LEMMA DumpRead ==
  ASSUME NEW D, NEW ph, NEW rows, DumpAt(D, ph, rows) PROVE ReadBack(D, ph, rows)
<1>1. /\ D \in Seq(NewItems) /\ ph \in Seq(PhaseRecord) /\ DOMAIN ph = 1 .. Len(ph)
      /\ Len(ph) \in Nat /\ Len(D) \in Nat /\ Width \in Nat \ {0}
      /\ Kept(D, FieldItems) = FieldsOf(rows)
  BY OutputAssumption DEF DumpAt, OutputAssumption
<1>2. \A n \in DOMAIN ph :
       /\ ph[n].start \in 1 .. Len(D) /\ D[ph[n].start] = <<"phase", n + 1>>
       /\ PhaseEnd(D, ph, n) - ph[n].start = Width * ph[n].rows
  BY DEF DumpAt
<1>3. ASSUME NEW n \in DOMAIN ph
      PROVE  Len(SubSeq(D, ph[n].start + 1, PhaseEnd(D, ph, n))) = Width * ph[n].rows
  <2>1. PICK st, rw, en, w : /\ st = ph[n].start /\ rw = ph[n].rows /\ en = PhaseEnd(D, ph, n)
                             /\ w = Width * rw
    OBVIOUS
  <2>2. rw \in Nat
    <3>1. ph[n] \in PhaseRecord BY <1>1, ElementOfSeq
    <3> QED BY <2>1, <3>1 DEF PhaseRecord
  <2>3. st \in 1 .. Len(D) /\ en - st = w /\ w \in Nat
    <3>1. w \in Nat BY <1>1, <2>1, <2>2, Divided
    <3> QED BY <1>2, <2>1, <3>1
  <2>4. en \in Int /\ en <= Len(D)
    <3>1. CASE n = Len(ph) BY <1>1, <2>1, <3>1 DEF PhaseEnd
    <3>2. CASE n # Len(ph)
      <4>1. n + 1 \in DOMAIN ph BY <1>1, <3>2
      <4>2. ph[n + 1].start \in 1 .. Len(D) BY <1>2, <4>1
      <4>3. en = ph[n + 1].start - 1 BY <2>1, <3>2 DEF PhaseEnd
      <4> QED BY <1>1, <4>2, <4>3
    <3> QED BY <3>1, <3>2
  <2>5. PICK m : m = st + 1 OBVIOUS
  <2>6. m \in Int /\ m >= 2 /\ (m <= en => en - m + 1 = w) /\ (~(m <= en) => w = 0)
    BY ONLY <1>1, <2>3, <2>4, <2>5
  <2>7. \A i \in m .. en : D[i] \in NewItems
    <3> TAKE i \in m .. en
    <3>1. i \in 1 .. Len(D) BY <1>1, <2>4, <2>6
    <3> QED BY <1>1, <3>1, ElementOfSeq
  <2>8. Len(SubSeq(D, m, en)) = IF m <= en THEN en - m + 1 ELSE 0
    BY <2>4, <2>6, <2>7, SubSeqProperties
  <2>9. Len(SubSeq(D, m, en)) = w BY ONLY <2>6, <2>8
  <2> QED BY <2>1, <2>5, <2>9, Zenon
<1> QED BY <1>1, <1>2, <1>3, Zenon DEF ReadBack

\* The rows read from a text file are those written
LEMMA RowsBack ==
  ASSUME NEW S, NEW rows \in Seq(S)
  PROVE  [n \in DOMAIN RowsInOrder(rows) |-> RowsInOrder(rows)[n][2]] = rows
<1>1. DOMAIN RowsInOrder(rows) = DOMAIN rows BY DEF RowsInOrder
<1>2. \A n \in DOMAIN rows : RowsInOrder(rows)[n] = <<"row", rows[n]>> BY DEF RowsInOrder
<1>3. rows = [n \in DOMAIN rows |-> rows[n]] OBVIOUS
<1>4. PICK x : x = RowsInOrder(rows) OBVIOUS
<1>5. DOMAIN x = DOMAIN rows /\ \A n \in DOMAIN rows : x[n][2] = rows[n] BY <1>1, <1>2, <1>4
<1>6. [n \in DOMAIN x |-> x[n][2]] = rows BY ONLY <1>3, <1>5
<1> QED BY <1>4, <1>6, Zenon

\* Closing (Close): all that is still buffered is written, and only a dump without an
\* error is sealed; an error anywhere is reported.
LEMMA CloseStep == ASSUME OutInv, CloseOutputs PROVE OutInv'
<1> DEFINE dumps == {p \in Paths : dump[p].phases # <<>>}
           texts == ToSet(opened)
           touched == IF outFormat = "dmp" THEN {p \in dumps : ~dump[p].closed} ELSE texts
           fine == {p \in touched : IF outFormat = "dmp" THEN p \notin full ELSE CanFlush(p)}
           aborted == {p \in dumps : dump[p].closed}
<1>1. /\ outPhase = "writing"
      /\ disk' = [p \in Paths |-> IF p \in fine THEN WholeFile(p) ELSE disk[p]]
      /\ held' = [p \in Paths |-> IF p \in touched THEN <<>> ELSE held[p]]
      /\ dump' = [p \in Paths |->
             IF p \in dumps THEN Closed(dump[p], p \in fine) ELSE dump[p]]
      /\ outPhase' = IF aborted = {} /\ fine = touched THEN "closed" ELSE "error"
      /\ UNCHANGED <<outFormat, split, selected, opened, begun, wrote, refused, full>>
  BY DEF CloseOutputs
<1>2. OutTyped /\ Writing BY <1>1 DEF OutInv
<1>3. \A p \in Paths : /\ p \in dumps <=> dump[p].phases # <<>>
                       /\ p \in aborted <=> dump[p].phases # <<>> /\ dump[p].closed
  OBVIOUS
<1>4. outFormat = "dmp" => \A p \in Paths :
        /\ p \in touched <=> dump[p].phases # <<>> /\ ~dump[p].closed
        /\ p \in fine <=> p \in touched /\ p \notin full
  BY <1>3
<1>5. outFormat # "dmp" => \A p \in Paths :
        /\ p \in touched <=> p \in Range(opened)
        /\ p \in fine => p \in touched /\ CanFlush(p)
        /\ p \notin dumps
  BY <1>2, <1>3, ToSetIsRange DEF Writing
<1>6. fine \subseteq touched OBVIOUS
<1> HIDE DEF dumps, texts, touched, fine, aborted
<1>7. /\ disk' \in [Paths -> Seq(AnyItems)] /\ held' \in [Paths -> Seq(AnyItems)]
      /\ dump' \in [Paths -> DumpRecord]
  <2>1. \A p \in Paths : /\ WholeFile(p) \in Seq(AnyItems) /\ disk[p] \in Seq(AnyItems)
                         /\ held[p] \in Seq(AnyItems) /\ dump[p] \in DumpRecord
    BY <1>2, PathsOf DEF OutTyped
  <2>2. <<>> \in Seq(AnyItems) BY EmptySeq
  <2>3. \A p \in Paths : Closed(dump[p], p \in fine) \in DumpRecord
    <3>1. ASSUME NEW d \in DumpRecord, NEW b \in BOOLEAN PROVE Closed(d, b) \in DumpRecord
      BY DEF Closed, DumpRecord
    <3>2. \A p \in Paths : (p \in fine) \in BOOLEAN OBVIOUS
    <3> QED BY <2>1, <3>1, <3>2
  <2> QED BY <1>1, <2>1, <2>2, <2>3
<1>8. OutTyped'
  <2>1. outPhase' \in {"start", "writing", "closed", "error"} BY <1>1
  <2> QED BY <1>1, <1>2, <1>7, <2>1 DEF OutTyped, Paths, PathOf
<1>9. ASSUME NEW d \in DumpRecord, NEW b \in BOOLEAN
      PROVE  Closed(d, b).phases = d.phases /\ (Closed(d, b).sealed <=> b)
  BY DEF Closed, DumpRecord
<1>10. \A p \in Paths : /\ disk'[p] = IF p \in fine THEN WholeFile(p) ELSE disk[p]
                        /\ dump'[p].phases = dump[p].phases
                        /\ dump'[p].sealed <=> p \in dumps /\ p \in fine
  <2> TAKE p \in Paths
  <2>1. disk'[p] = IF p \in fine THEN WholeFile(p) ELSE disk[p] BY <1>1
  <2>2. dump'[p] = IF p \in dumps THEN Closed(dump[p], p \in fine) ELSE dump[p] BY <1>1
  <2>3. dump[p] \in DumpRecord /\ ~dump[p].sealed BY <1>2 DEF OutTyped, Writing
  <2>4. (p \in fine) \in BOOLEAN OBVIOUS
  <2>5. CASE p \in dumps
    <3>1. dump'[p] = Closed(dump[p], p \in fine) BY <2>2, <2>5
    <3>2. Closed(dump[p], p \in fine).phases = dump[p].phases
          /\ (Closed(dump[p], p \in fine).sealed <=> p \in fine)
      BY <1>9, <2>3, <2>4
    <3> QED BY <2>1, <2>5, <3>1, <3>2, Zenon
  <2>6. CASE p \notin dumps BY <2>1, <2>2, <2>3, <2>6
  <2> QED BY <2>5, <2>6
<1>11. ASSUME NEW t \in selected, NEW p, p = PathOf(t)
       PROVE  /\ dump'[p].sealed => ReadBack(disk'[p], dump'[p].phases, wrote'[t])
              /\ outPhase' = "closed" =>
                   \/ /\ outFormat # "sql" /\ wrote[t] = <<>>
                      /\ disk'[p] = Gone \/ (disk'[p] = <<>> /\ t \in refused)
                   \/ outFormat = "dmp" /\ wrote[t] # <<>> /\ dump'[p].sealed
                   \/ /\ outFormat # "dmp" /\ (outFormat # "sql" => wrote[t] # <<>>)
                      /\ disk'[p] \in Seq(NewItems)
                      /\ Kept(disk'[p], RowItems(t)) = RowsInOrder(wrote[t])
  <2>1. p \in Paths /\ t \in OutTables /\ FilesOf(t)
    BY <1>2, <1>11, PathsOf DEF OutTyped, Writing
  <2>2. CASE p \notin begun
    <3>1. /\ wrote[t] = <<>> /\ outFormat # "sql" /\ dump[p] = NoDump
          /\ disk[p] = Gone \/ (disk[p] = <<>> /\ t \in refused)
      BY <1>11, <2>1, <2>2 DEF FilesOf
    <3>2. p \notin Range(opened) BY <1>2, <2>2 DEF Writing
    <3>3. dump[p].phases = <<>> BY <3>1, GoneTyped
    <3>4. p \notin dumps /\ p \notin touched BY <1>3, <1>4, <1>5, <2>1, <3>2, <3>3
    <3>5. p \notin fine BY <1>6, <3>4
    <3>6. ~dump'[p].sealed /\ disk'[p] = disk[p] BY <1>10, <2>1, <3>1, <3>4, <3>5
    <3> QED BY <3>1, <3>6
  <2>3. CASE p \in begun /\ outFormat = "dmp"
    <3>1. /\ dump[p].phases # <<>>
          /\ dump[p].closed \/ (wrote[t] # <<>> /\ DumpAt(WholeFile(p), dump[p].phases, wrote[t]))
      BY <1>11, <2>1, <2>3 DEF FilesOf
    <3>2. p \in dumps /\ (p \in touched <=> ~dump[p].closed) BY <1>3, <1>4, <2>1, <2>3, <3>1
    <3>3. dump'[p].sealed => ReadBack(disk'[p], dump'[p].phases, wrote'[t])
      <4>1. SUFFICES ASSUME dump'[p].sealed
                     PROVE  ReadBack(disk'[p], dump'[p].phases, wrote'[t])
        OBVIOUS
      <4>2. p \in fine /\ p \in touched BY <1>6, <1>10, <2>1, <4>1
      <4>3. ReadBack(WholeFile(p), dump[p].phases, wrote[t])
        <5>1. DumpAt(WholeFile(p), dump[p].phases, wrote[t]) BY <3>1, <3>2, <4>2
        <5> QED BY <5>1, DumpRead
      <4>4. disk'[p] = WholeFile(p) /\ dump'[p].phases = dump[p].phases /\ wrote' = wrote
        BY <1>1, <1>10, <2>1, <4>2
      <4> QED BY <4>3, <4>4, Zenon
    <3>4. outPhase' = "closed" => wrote[t] # <<>> /\ dump'[p].sealed
      <4>1. SUFFICES ASSUME outPhase' = "closed" PROVE wrote[t] # <<>> /\ dump'[p].sealed
        OBVIOUS
      <4>2. aborted = {} /\ fine = touched BY <1>1, <4>1
      <4>3. ~dump[p].closed BY <1>3, <2>1, <3>1, <4>2
      <4>4. p \in fine BY <3>2, <4>2, <4>3
      <4> QED BY <1>10, <2>1, <3>1, <3>2, <4>3, <4>4
    <3> QED BY <2>3, <3>3, <3>4
  <2>4. CASE p \in begun /\ outFormat # "dmp"
    <3>1. /\ WholeFile(p) \in Seq(NewItems)
          /\ Kept(WholeFile(p), RowItems(t)) = RowsInOrder(wrote[t])
          /\ outFormat = "fldr" /\ wrote[t] = <<>> => t \in refused /\ p \in Range(opened)
      BY <1>11, <2>1, <2>4 DEF FilesOf
    <3>2. ~dump'[p].sealed BY <1>5, <1>10, <2>1, <2>4
    <3>3. ASSUME outPhase' = "closed"
          PROVE  disk'[p] = WholeFile(p) /\ (outFormat # "sql" => wrote[t] # <<>>)
      <4>1. fine = touched BY <1>1, <3>3
      <4>2. outFormat # "sql" => outFormat = "fldr" BY <1>2, <2>4 DEF OutTyped
      <4>3. CASE p \in touched
        <5>1. p \in fine /\ CanFlush(p) BY <1>5, <2>1, <2>4, <4>1, <4>3
        <5>2. t \notin refused BY <1>11, <2>4, <5>1 DEF CanFlush
        <5> QED BY <1>10, <2>1, <3>1, <4>2, <5>1, <5>2
      <4>4. CASE p \notin touched
        <5>1. p \notin fine /\ p \notin Range(opened) BY <1>5, <1>6, <2>1, <2>4, <4>4
        <5>2. held[p] = <<>> /\ disk[p] \in Seq(AnyItems) BY <1>2, <2>1, <5>1 DEF Writing, OutTyped
        <5>3. disk[p] \o <<>> = disk[p] BY <5>2, ConcatEmptySeq
        <5>4. WholeFile(p) = disk[p] BY <5>2, <5>3, Zenon DEF WholeFile
        <5>5. disk'[p] = disk[p] BY <1>10, <2>1, <5>1
        <5> QED BY <3>1, <4>2, <5>1, <5>4, <5>5
      <4> QED BY <4>3, <4>4
    <3> QED BY <2>4, <3>1, <3>2, <3>3
  <2> QED BY <2>2, <2>3, <2>4
<1>12. OutputsExact'
  <2>1. split' => Len(opened') <= MaxOpen' BY <1>1, <1>2 DEF Writing
  <2>2. \A t : PathOf(t)' = PathOf(t) BY <1>1 DEF PathOf
  <2>3. ASSUME NEW t \in selected', dump'[PathOf(t)'].sealed PROVE DumpExact(t, PathOf(t))'
    <3>1. PICK p : p = PathOf(t) OBVIOUS
    <3>2. t \in selected /\ PathOf(t)' = p BY <1>1, <2>2, <3>1
    <3>3. ReadBack(disk'[p], dump'[p].phases, wrote'[t]) BY <1>11, <2>3, <3>1, <3>2
    <3> QED BY <3>2, <3>3 DEF DumpExact, PhaseItems, ReadBack, PhaseEnd
  <2>4. ASSUME outPhase' = "closed", NEW t \in selected'
        PROVE  (IF outFormat # "sql" /\ wrote[t] = <<>>
                THEN disk[PathOf(t)] = Gone \/ (disk[PathOf(t)] = <<>> /\ t \in refused)
                ELSE IF outFormat = "dmp" THEN dump[PathOf(t)].sealed
                ELSE RowsIn(t, PathOf(t)) = wrote[t]
                     /\ <<"old">> \notin ToSet(disk[PathOf(t)]))'
    <3>1. PICK p : p = PathOf(t) OBVIOUS
    <3>2. t \in selected /\ PathOf(t)' = p /\ wrote' = wrote /\ outFormat' = outFormat
         /\ refused' = refused
      BY <1>1, <2>2, <3>1
    <3>3. CASE /\ outFormat # "sql" /\ wrote[t] = <<>>
               /\ disk'[p] = Gone \/ (disk'[p] = <<>> /\ t \in refused)
      BY <3>2, <3>3
    <3>4. CASE outFormat = "dmp" /\ wrote[t] # <<>> /\ dump'[p].sealed BY <3>2, <3>4
    <3>5. CASE /\ outFormat # "dmp" /\ (outFormat # "sql" => wrote[t] # <<>>)
               /\ disk'[p] \in Seq(NewItems)
               /\ Kept(disk'[p], RowItems(t)) = RowsInOrder(wrote[t])
      <4>1. wrote[t] \in Seq(OutRows) BY <1>2, <3>2 DEF OutTyped, OutRows
      <4>2. RowsIn(t, p)' = wrote[t]
        <5>1. RowsIn(t, p)' = [n \in DOMAIN RowsInOrder(wrote[t]) |->
                                 RowsInOrder(wrote[t])[n][2]]
          BY <3>5, Zenon DEF RowsIn
        <5> QED BY <4>1, <5>1, RowsBack, Zenon
      <4>3. <<"old">> \notin ToSet(disk'[p])
        <5>1. Range(disk'[p]) \subseteq NewItems BY <3>5, RangeOfSeq
        <5> QED BY <5>1, ToSetIsRange, ItemKinds
      <4> QED BY <3>2, <3>5, <4>2, <4>3
    <3>6. \/ /\ outFormat # "sql" /\ wrote[t] = <<>>
             /\ disk'[p] = Gone \/ (disk'[p] = <<>> /\ t \in refused)
          \/ outFormat = "dmp" /\ wrote[t] # <<>> /\ dump'[p].sealed
          \/ /\ outFormat # "dmp" /\ (outFormat # "sql" => wrote[t] # <<>>)
             /\ disk'[p] \in Seq(NewItems)
             /\ Kept(disk'[p], RowItems(t)) = RowsInOrder(wrote[t])
      BY <1>11, <2>4, <3>1, <3>2
    <3> QED BY <3>3, <3>4, <3>5, <3>6
  <2> QED BY <2>1, <2>3, <2>4 DEF OutputsExact
<1> QED BY <1>1, <1>8, <1>12 DEF OutInv

\* Before the outputs are created nothing is begun
LEMMA OutStarts == ASSUME OutInit PROVE OutInv
<1>1. /\ outFormat \in {"sql", "fldr", "dmp"} /\ split \in BOOLEAN
      /\ selected \in (SUBSET OutTables) \ {{}}
      /\ ~split /\ outFormat # "sql" => Cardinality(selected) = 1
      /\ disk = [p \in Paths |-> Old] /\ held = [p \in Paths |-> <<>>]
      /\ opened = <<>> /\ begun = {} /\ dump = [p \in Paths |-> NoDump]
      /\ wrote = [t \in OutTables |-> <<>>] /\ refused = {}
      /\ full = {} /\ outPhase = "start"
  BY DEF OutInit
<1>2. ~split /\ outFormat # "sql" => \A t, u \in selected : t = u
  <2>1. SUFFICES ASSUME Cardinality(selected) = 1 PROVE \A t, u \in selected : t = u BY <1>1
  <2>2. IsFiniteSet(selected) BY <1>1, OutputAssumption, FS_Subset DEF OutputAssumption
  <2> QED BY <2>1, <2>2, FS_Singleton
<1>3. disk \in [Paths -> Seq(AnyItems)] /\ held \in [Paths -> Seq(AnyItems)]
      /\ dump \in [Paths -> DumpRecord]
  BY <1>1, GoneTyped
<1>4. wrote \in [OutTables -> Seq(OutTables \X Nat)]
      /\ \A t \in OutTables : wrote[t] = <<>> /\ wrote[t] \in Seq({t} \X Nat)
  <2>1. \A S : <<>> \in Seq(S) BY EmptySeq
  <2> QED BY <1>1, <2>1
<1>5. opened \in Seq(Paths) BY <1>1, EmptySeq
<1>6. OutTyped BY <1>1, <1>2, <1>3, <1>4, <1>5 DEF OutTyped
<1> QED BY <1>1, <1>4, <1>6 DEF OutInv

LEMMA OutStays == OutInv /\ [OutNext]_outVars => OutInv'
<1>1. SUFFICES ASSUME OutInv, [OutNext]_outVars PROVE OutInv' OBVIOUS
<1>2. CASE CreateOutputs BY <1>1, <1>2, CreateStep
<1>3. CASE DiskFull BY <1>1, <1>3, DiskFullStep
<1>4. ASSUME NEW t \in OutTables, OpenFails(t) PROVE OutInv' BY <1>1, <1>4, OpenFailsStep
<1>5. ASSUME NEW t \in OutTables, WriteText(t) PROVE OutInv' BY <1>1, <1>5, TextStep
<1>6. ASSUME NEW t \in OutTables, NEW breaks \in BOOLEAN, WriteDump(t, breaks) PROVE OutInv'
  BY <1>1, <1>6, DumpStep
<1>7. CASE CloseOutputs BY <1>1, <1>7, CloseStep
<1>8. CASE UNCHANGED outVars
  <2>1. /\ OutTyped' <=> OutTyped
        /\ Writing' <=> Writing
        /\ OutputsExact' <=> OutputsExact
    BY <1>8 DEF outVars, OutTyped, Writing, OutputsExact, FilesOf, PathOf, WholeFile, Paths,
       DumpExact, PhaseItems, RowsIn
  <2> QED BY <1>1, <1>8, <2>1 DEF OutInv, outVars, Paths
<1> QED BY <1>1, <1>2, <1>3, <1>4, <1>5, <1>6, <1>7, <1>8 DEF OutNext

\* An output closed without an error holds the rows written to it, whole, in order and
\* each once, whatever was suspended, evicted or cut into phases in between; no more
\* files are open than allowed, and a dump with its final header is exact even when the
\* export failed (dataOutputRouter in data_writer.go, DMPDataWriter in dmp.go).
THEOREM OutputsAreExact == OutSpec => []OutputsExact
<1>1. OutInit => OutInv BY OutStarts
<1>2. OutInv /\ [OutNext]_outVars => OutInv' BY OutStays
<1>3. OutInv => OutputsExact
  <2>1. SUFFICES ASSUME OutInv PROVE OutputsExact OBVIOUS
  <2>2. OutTyped BY <2>1 DEF OutInv
  <2>3. CASE outPhase = "start"
    <3>1. \A p \in Paths : ~dump[p].sealed BY <2>1, <2>3, GoneTyped DEF OutInv
    <3>2. \A t \in selected : PathOf(t) \in Paths BY <2>2, PathsOf DEF OutTyped
    <3>3. Len(opened) <= MaxOpen
      <4>1. Len(<<>>) = 0 OBVIOUS
      <4> QED BY <2>1, <2>3, <4>1, OutputAssumption DEF OutInv, OutputAssumption
    <3> QED BY <2>3, <3>1, <3>2, <3>3 DEF OutputsExact
  <2>4. CASE outPhase = "writing"
    <3>1. Writing BY <2>1, <2>4 DEF OutInv
    <3>2. \A t \in selected : PathOf(t) \in Paths BY <2>2, PathsOf DEF OutTyped
    <3> QED BY <2>4, <3>1, <3>2 DEF OutputsExact, Writing
  <2>5. CASE outPhase \in {"closed", "error"} BY <2>1, <2>5 DEF OutInv
  <2> QED BY <2>2, <2>3, <2>4, <2>5 DEF OutTyped
<1> QED BY <1>1, <1>2, <1>3, PTL DEF OutSpec

\* The open files and those begun are files of tables or the main one, and only
\* tables selected for the export are reported as refused (dataOutputRouter).
THEOREM OutTypeCorrect == OutSpec => []OutTypeOK
<1>1. OutInit => OutInv BY OutStarts
<1>2. OutInv /\ [OutNext]_outVars => OutInv' BY OutStays
<1>3. OutInv => OutTypeOK
  <2> SUFFICES ASSUME OutInv PROVE OutTypeOK OBVIOUS
  <2>1. OutTyped BY DEF OutInv
  <2>2. ToSet(opened) \subseteq Paths BY <2>1 DEF OutTyped, ToSet
  <2>3. begun \subseteq Paths BY <2>1, PathsOf DEF OutTyped
  <2> QED BY <2>1, <2>2, <2>3 DEF OutTyped, OutTypeOK
<1> QED BY <1>1, <1>2, <1>3, PTL DEF OutSpec
=============================================================================
