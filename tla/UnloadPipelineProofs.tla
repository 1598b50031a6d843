------------------------ MODULE UnloadPipelineProofs ------------------------
(***************************************************************************)
(* Proofs about UnloadPipeline for any number of workers, pages, any batch *)
(* size, chunk cap, memory limit, queue capacity and page contents.        *)
(***************************************************************************)
EXTENDS UnloadPipeline, Induction, TLAPS

-----------------------------------------------------------------------------
(* Sequences                                                               *)

\* The elements of a sequence after an append (resultsCh <- chunk).
LEMMA ToSetAppend ==
  ASSUME NEW S, NEW s \in Seq(S), NEW x \in S
  PROVE  ToSet(Append(s, x)) = ToSet(s) \cup {x}
<1>1. /\ DOMAIN Append(s, x) = 1 .. Len(s) + 1
      /\ Len(s) \in Nat
      /\ DOMAIN s = 1 .. Len(s)
      /\ \A i \in 1 .. Len(s) : Append(s, x)[i] = s[i]
      /\ Append(s, x)[Len(s) + 1] = x
  OBVIOUS
<1>2. ASSUME NEW y PROVE y \in ToSet(Append(s, x)) <=> y \in ToSet(s) \cup {x}
  <2>1. ASSUME y \in ToSet(Append(s, x)) PROVE y \in ToSet(s) \cup {x}
    <3>1. PICK i \in 1 .. Len(s) + 1 : y = Append(s, x)[i]
      BY <1>1, <2>1 DEF ToSet
    <3>2. CASE i = Len(s) + 1 BY <1>1, <3>1, <3>2
    <3>3. CASE i \in 1 .. Len(s) BY <1>1, <3>1, <3>3 DEF ToSet
    <3> QED BY <1>1, <3>2, <3>3
  <2>2. ASSUME y \in ToSet(s) PROVE y \in ToSet(Append(s, x))
    <3>1. PICK i \in 1 .. Len(s) : y = s[i] BY <1>1, <2>2 DEF ToSet
    <3>2. i \in DOMAIN Append(s, x) /\ y = Append(s, x)[i] BY <1>1, <3>1
    <3> QED BY <3>2 DEF ToSet
  <2>3. x \in ToSet(Append(s, x))
    <3>1. Len(s) + 1 \in DOMAIN Append(s, x) BY <1>1
    <3> QED BY <1>1, <3>1 DEF ToSet
  <2> QED BY <2>1, <2>2, <2>3
<1> QED BY <1>2

\* The elements of a sequence after a receive (chunk := range resultsCh).
LEMMA ToSetTail ==
  ASSUME NEW S, NEW s \in Seq(S), s # <<>>
  PROVE  /\ Head(s) \in ToSet(s)
         /\ Head(s) \in S
         /\ Tail(s) \in Seq(S)
         /\ ToSet(Tail(s)) \subseteq ToSet(s)
<1>1. /\ Len(s) \in Nat \ {0}
      /\ DOMAIN s = 1 .. Len(s)
      /\ Head(s) = s[1]
      /\ Tail(s) \in Seq(S)
      /\ DOMAIN Tail(s) = 1 .. Len(s) - 1
      /\ \A i \in 1 .. Len(s) - 1 : Tail(s)[i] = s[i + 1]
  OBVIOUS
<1>2. Head(s) \in ToSet(s) /\ Head(s) \in S
  <2>1. 1 \in DOMAIN s BY <1>1
  <2> QED BY <1>1, <2>1 DEF ToSet
<1>3. ASSUME NEW y \in ToSet(Tail(s)) PROVE y \in ToSet(s)
  <2>1. PICK i \in 1 .. Len(s) - 1 : y = Tail(s)[i] BY <1>1 DEF ToSet
  <2>2. i + 1 \in DOMAIN s /\ y = s[i + 1] BY <1>1, <2>1
  <2> QED BY <2>2 DEF ToSet
<1> QED BY <1>1, <1>2, <1>3

\* The elements of a sequence are its head and those of its tail.
LEMMA ToSetHeadTail ==
  ASSUME NEW S, NEW s \in Seq(S), s # <<>>
  PROVE  ToSet(s) = {Head(s)} \cup ToSet(Tail(s))
<1>1. /\ Len(s) \in Nat \ {0}
      /\ DOMAIN s = 1 .. Len(s)
      /\ Head(s) = s[1]
      /\ DOMAIN Tail(s) = 1 .. Len(s) - 1
      /\ \A i \in 1 .. Len(s) - 1 : Tail(s)[i] = s[i + 1]
  OBVIOUS
<1>2. ASSUME NEW y \in ToSet(s) PROVE y \in {Head(s)} \cup ToSet(Tail(s))
  <2>1. PICK i \in 1 .. Len(s) : y = s[i] BY <1>1 DEF ToSet
  <2>2. CASE i = 1 BY <1>1, <2>1, <2>2
  <2>3. CASE i # 1
    <3>1. i - 1 \in 1 .. Len(s) - 1 BY <1>1, <2>3
    <3>2. y = Tail(s)[i - 1] BY <1>1, <2>1, <3>1
    <3> QED BY <1>1, <3>1, <3>2 DEF ToSet
  <2> QED BY <2>2, <2>3
<1> QED BY <1>2, ToSetTail

\* The elements of a sequence over S are in S.
LEMMA ToSetType ==
  ASSUME NEW S, NEW s \in Seq(S)
  PROVE  ToSet(s) \subseteq S
<1>1. DOMAIN s = 1 .. Len(s) /\ \A i \in 1 .. Len(s) : s[i] \in S OBVIOUS
<1> QED BY <1>1 DEF ToSet

\* Distinct elements stay distinct when one is received or a new one sent.
LEMMA DistinctTail ==
  ASSUME NEW S, NEW s \in Seq(S), s # <<>>,
         \A i, k \in 1 .. Len(s) : s[i] = s[k] => i = k
  PROVE  /\ \A i, k \in 1 .. Len(Tail(s)) : Tail(s)[i] = Tail(s)[k] => i = k
         /\ Head(s) \notin ToSet(Tail(s))
<1>1. /\ Len(s) \in Nat \ {0}
      /\ Head(s) = s[1]
      /\ Len(Tail(s)) = Len(s) - 1
      /\ DOMAIN Tail(s) = 1 .. Len(s) - 1
      /\ \A i \in 1 .. Len(s) - 1 : Tail(s)[i] = s[i + 1]
  OBVIOUS
<1>2. ASSUME NEW i \in 1 .. Len(s) - 1, NEW k \in 1 .. Len(s) - 1,
             Tail(s)[i] = Tail(s)[k]
      PROVE  i = k
  <2>1. i + 1 \in 1 .. Len(s) /\ k + 1 \in 1 .. Len(s) BY <1>1
  <2>2. s[i + 1] = s[k + 1] BY <1>1, <1>2
  <2>3. i + 1 = k + 1 BY <2>1, <2>2
  <2> QED BY <2>3
<1>3. ASSUME Head(s) \in ToSet(Tail(s)) PROVE FALSE
  <2>1. PICK i \in 1 .. Len(s) - 1 : Head(s) = Tail(s)[i] BY <1>1, <1>3 DEF ToSet
  <2>2. s[1] = s[i + 1] /\ i + 1 \in 1 .. Len(s) /\ 1 \in 1 .. Len(s) BY <1>1, <2>1
  <2>3. i + 1 = 1 BY <2>2
  <2> QED BY <2>3
<1> QED BY <1>1, <1>2, <1>3

LEMMA DistinctAppend ==
  ASSUME NEW S, NEW s \in Seq(S), NEW x \in S, x \notin ToSet(s),
         \A i, k \in 1 .. Len(s) : s[i] = s[k] => i = k
  PROVE  LET t == Append(s, x) IN
         \A i, k \in 1 .. Len(t) : t[i] = t[k] => i = k
<1> DEFINE t == Append(s, x)
<1>1. /\ Len(s) \in Nat
      /\ DOMAIN s = 1 .. Len(s)
      /\ Len(t) = Len(s) + 1
      /\ \A i \in 1 .. Len(s) : t[i] = s[i]
      /\ t[Len(s) + 1] = x
  OBVIOUS
<1> HIDE DEF t
<1>2. \A i \in 1 .. Len(s) : t[i] # x BY <1>1 DEF ToSet
<1>3. ASSUME NEW i \in 1 .. Len(t), NEW k \in 1 .. Len(t), t[i] = t[k] PROVE i = k
  <2>1. CASE i \in 1 .. Len(s) /\ k \in 1 .. Len(s) BY <1>1, <1>3, <2>1
  <2>2. CASE i = Len(s) + 1 /\ k \in 1 .. Len(s) BY <1>1, <1>2, <1>3, <2>2
  <2>3. CASE i \in 1 .. Len(s) /\ k = Len(s) + 1 BY <1>1, <1>2, <1>3, <2>3
  <2>4. CASE i = Len(s) + 1 /\ k = Len(s) + 1 BY <2>4
  <2> QED BY <1>1, <2>1, <2>2, <2>3, <2>4
<1>4. \A i, k \in 1 .. Len(t) : t[i] = t[k] => i = k BY <1>3
<1> QED BY <1>4 DEF t
-----------------------------------------------------------------------------
(* The books                                                               *)

\* Recording a result keeps the book well formed.
LEMMA RecordedType ==
  ASSUME NEW b \in Book, NEW p \in Pages, NEW r \in PageResult,
         NEW ks \in SUBSET Keys, NEW b2 \in Recorded(b, p, r, ks)
  PROVE  b2 \in Book
<1>1. ASSUME NEW c \in Book PROVE Mark(c, ks) \in Book
  BY <1>1 DEF Book, Mark
<1>2. ASSUME NEW c \in Book
      PROVE  /\ Failed(c, r) \in Book
             /\ Finished(c, p) \in Book
             /\ PutAside(c, p) \in Book
             /\ Aborted(c) \in Book
  <2>1. Failed(c, r) \in Book BY <1>2 DEF Book, PageResult, Failed
  <2>2. Finished(c, p) \in Book BY <1>2 DEF Book, Finished
  <2>3. PutAside(c, p) \in Book
    <3>1. Append(c.pending, p) \in Seq(Pages) BY <1>2 DEF Book
    <3> QED BY <1>2, <3>1 DEF Book, PutAside
  <2>4. Aborted(c) \in Book BY <1>2 DEF Book, Aborted
  <2> QED BY <2>1, <2>2, <2>3, <2>4
<1>3. Exported(b, p, ks) \in Book
  <2>1. Mark(b, ks) \in Book BY <1>1
  <2>2. Append(Mark(b, ks).out, p) \in Seq(Pages) BY <2>1 DEF Book
  <2> QED BY <2>1, <2>2 DEF Book, Exported
<1> QED
  BY <1>1, <1>2, <1>3 DEF Recorded, PageResult, PageKinds

\* Once tracking overflowed, the keys a row carries no longer matter.
LEMMA KeysIgnoredOnOverflow ==
  ASSUME NEW b, b.overflow, NEW p, NEW r, NEW ks
  PROVE  Recorded(b, p, r, ks) = Recorded(b, p, r, {})
<1>1. Mark(b, ks) = Mark(b, {}) BY DEF Mark
<1> QED BY <1>1 DEF Recorded, Exported

\* Recording never turns tracking back on.
LEMMA OverflowStays ==
  ASSUME NEW b \in Book, b.overflow, NEW p, NEW r, NEW ks,
         r.kind \in PageKinds, NEW b2 \in Recorded(b, p, r, ks)
  PROVE  b2.overflow
<1>1. Mark(b, ks) = b BY DEF Mark
<1> QED BY <1>1 DEF Recorded, Exported, PageKinds, Failed, Finished, PutAside,
                    Aborted, Book
-----------------------------------------------------------------------------
(* Types                                                                   *)

\* A chunk a worker starts is a chunk.
LEMMA NewChunkType ==
  ASSUME NEW j \in Nat, NEW s \in Nat, NEW p \in Nat
  PROVE  NewChunk(j, s, p) \in Chunk
BY DEF NewChunk, Chunk

LEMMA BatchType ==
  ASSUME NEW j \in Nat
  PROVE  JobStart(j) \in Nat /\ JobEnd(j) \in Nat /\ JobEnd(j) <= NumPages
BY PipelineAssumption, BookAssumption DEF JobStart, JobEnd

\* A job handed out starts within the plan: the batch count is rounded up,
\* never past the last page.
LEMMA JobFits ==
  ASSUME NEW j \in Jobs
  PROVE  JobStart(j) <= JobEnd(j)
<1> DEFINE q == NumBatches
<1>1. NumPages \in Nat /\ BatchPages \in Nat /\ BatchPages > 0
  BY PipelineAssumption, BookAssumption
<1>2. q \in Int /\ q * BatchPages <= NumPages + BatchPages - 1
  BY <1>1 DEF NumBatches
<1>3. j \in Nat /\ j <= q - 1 BY <1>2 DEF Jobs
<1> HIDE DEF q
<1>4. j * BatchPages <= (q - 1) * BatchPages BY <1>1, <1>2, <1>3
<1>5. (q - 1) * BatchPages = q * BatchPages - BatchPages BY <1>1, <1>2
<1>6. j * BatchPages \in Int /\ q * BatchPages \in Int BY <1>1, <1>2, <1>3
<1>7. j * BatchPages <= NumPages BY <1>1, <1>2, <1>4, <1>5, <1>6
<1>8. (j + 1) * BatchPages = j * BatchPages + BatchPages BY <1>1, <1>3
<1> QED BY <1>1, <1>6, <1>7, <1>8 DEF JobStart, JobEnd

LEMMA WithPageType ==
  ASSUME NEW c \in Chunk, c.hi \in Pages, disk \in [Pages -> PageResult],
         NEW active \in BOOLEAN
  PROVE  WithPage(c, active) \in Chunk
<1>1. c.hi + 1 \in Nat BY DEF Chunk
<1>2. c.bytes + disk[c.hi].bytes \in Nat
  <2>1. disk[c.hi].bytes \in Nat BY DEF PageResult
  <2> QED BY <2>1 DEF Chunk
<1>3. (IF active THEN c.keyed \cup {c.hi} ELSE c.keyed) \in SUBSET Pages
  BY DEF Chunk
<1> QED BY <1>1, <1>2, <1>3 DEF WithPage, Chunk

-----------------------------------------------------------------------------
(* The inductive invariant                                                 *)

IInv == TypeOK /\ InOrder

\* A broadcast changes nothing but who sleeps.
LEMMA AwakeType ==
  ASSUME pc \in [Workers -> WorkerPC]
  PROVE  /\ Awake \in [Workers -> WorkerPC]
         /\ \A w \in Workers : (Awake[w] \notin {"idle", "exit"}) <=> Busy(w)
BY DEF Awake, WorkerPC, Busy

LEMMA InitInv == Init => IInv
<1> SUFFICES ASSUME Init PROVE IInv OBVIOUS
<1> USE DEF Init
<1>1. NoChunk \in Chunk BY NewChunkType DEF NoChunk
<1>2. EmptyBook \in Book BY DEF EmptyBook, Book
<1>3. TypeOK
  BY <1>1, <1>2, PipelineAssumption DEF TypeOK, WorkerPC, WriterPC
<1>4. ToSet(resultsCh) = {} BY DEF ToSet
<1>5. \A w \in Workers : ~Busy(w) BY DEF Busy
<1>6. JobStart(0) = 0 /\ ~(JobStart(0) > NumPages)
  BY PipelineAssumption, BookAssumption DEF JobStart
<1>7. WriterInPlace BY <1>6 DEF WriterInPlace
<1>8. JobsOwned /\ ChunksTile /\ BuildingContinues
  BY <1>5 DEF JobsOwned, ChunksTile, BuildingContinues
<1>9. SentEmitted /\ KeysInTime
  BY <1>4, <1>5 DEF SentEmitted, KeysInTime, Sent
<1> QED BY <1>3, <1>7, <1>8, <1>9 DEF IInv, InOrder

\* While the writer applies a chunk, the page it takes next is planned.
LEMMA CursorIsPage ==
  ASSUME IInv, wpc = "apply", ~book.err, cursor < current.hi
  PROVE  cursor \in Pages
<1>1. Place(current) \in emitted
  BY DEF IInv, InOrder, SentEmitted, Sent
<1>2. current.hi <= JobEnd(current.job)
  BY <1>1 DEF IInv, InOrder, ChunksTile, Place
<1>3. current.job \in Nat /\ current.hi \in Nat /\ cursor \in Nat
  BY DEF IInv, TypeOK, Chunk
<1>4. JobEnd(current.job) \in Nat /\ JobEnd(current.job) <= NumPages
  BY <1>3, BatchType
<1> QED BY <1>2, <1>3, <1>4, BookAssumption DEF Pages

LEMMA TypeStep == IInv /\ [Next]_vars => TypeOK'
<1> SUFFICES ASSUME IInv, [Next]_vars PROVE TypeOK' OBVIOUS
<1> USE DEF IInv, TypeOK, workerVars, writerVars, budgetVars
<1>1. ASSUME NEW w \in Workers, TakeJob(w) PROVE TypeOK'
  <2>1. NewChunk(nextJob, 0, JobStart(nextJob)) \in Chunk
    BY BatchType, NewChunkType
  <2> QED BY <1>1, <2>1 DEF TakeJob, WorkerPC
<1>2. ASSUME NEW w \in Workers, Exit(w) PROVE TypeOK'
  BY <1>2 DEF Exit, WorkerPC
<1>3. ASSUME NEW w \in Workers, DecodePage(w) PROVE TypeOK'
  <2>1. building[w].hi \in Pages
    <3>1. building[w].hi \in Nat /\ building[w].job \in Nat BY DEF Chunk
    <3>2. /\ JobEnd(building[w].job) \in Nat
          /\ JobEnd(building[w].job) <= NumPages
      BY <3>1, BatchType
    <3>3. building[w].hi < JobEnd(building[w].job) BY <1>3 DEF DecodePage
    <3> QED BY <3>1, <3>2, <3>3, BookAssumption DEF Pages
  <2>2. book.overflow \in BOOLEAN BY DEF Book
  <2>3. WithPage(building[w], ~book.overflow) \in Chunk
    BY <2>1, <2>2, WithPageType
  <2> QED BY <1>3, <2>3 DEF DecodePage, WorkerPC
<1>4. ASSUME NEW w \in Workers, FinishJob(w) PROVE TypeOK'
  <2>1. [building[w] EXCEPT !.last = TRUE] \in Chunk BY DEF Chunk
  <2> QED BY <1>4, <2>1 DEF FinishJob, WorkerPC
<1>5. ASSUME NEW w \in Workers, Acquire(w) PROVE TypeOK'
  <2>1. building[w].bytes \in Int BY DEF Chunk
  <2> QED BY <1>5, <2>1 DEF Acquire, WorkerPC
<1>6. ASSUME NEW w \in Workers, Block(w) PROVE TypeOK'
  BY <1>6 DEF Block, WorkerPC
<1>7. ASSUME NEW w \in Workers, Send(w) PROVE TypeOK'
  <2>1. Successor(building[w]) \in Chunk
    <3>1. building[w].job \in Nat /\ building[w].sub + 1 \in Nat
            /\ building[w].hi \in Nat
      BY DEF Chunk
    <3> QED BY <3>1, NewChunkType DEF Successor
  <2>2. NoChunk \in Chunk BY NewChunkType DEF NoChunk
  <2>3. building[w] \in Chunk OBVIOUS
  <2>4. Place(building[w]) \in
          [job : Nat, sub : Nat, lo : Nat, hi : Nat, last : BOOLEAN]
    BY <2>3 DEF Place, Chunk
  <2>5. resultsCh' \in Seq(Chunk) BY <1>7, <2>3 DEF Send
  <2>6. building' \in [Workers -> Chunk] BY <1>7, <2>1, <2>2 DEF Send
  <2>7. pc' \in [Workers -> WorkerPC] BY <1>7 DEF Send, WorkerPC
  <2>8. emitted' \subseteq
          [job : Nat, sub : Nat, lo : Nat, hi : Nat, last : BOOLEAN]
    BY <1>7, <2>4 DEF Send
  <2> QED BY <1>7, <2>5, <2>6, <2>7, <2>8 DEF Send
<1>8. CASE Receive
  BY <1>8, ToSetTail DEF Receive, WriterPC
<1>9. CASE Pick
  BY <1>9 DEF Pick, WriterPC, Chunk
<1>10. CASE NothingDue
  BY <1>10 DEF NothingDue, WriterPC
<1>11. CASE ApplyPage
  <2>1. cursor \in Pages BY <1>11, CursorIsPage DEF ApplyPage
  <2>2. disk[cursor] \in PageResult BY <2>1
  <2>3. RenderedKeys(disk[cursor], cursor \in current.keyed) \in SUBSET Keys
    BY <2>2 DEF RenderedKeys, PageResult
  <2>4. book' \in Book BY <1>11, <2>1, <2>2, <2>3, RecordedType DEF ApplyPage
  <2> QED BY <1>11, <2>4 DEF ApplyPage
<1>12. CASE Release
  <2>1. current.bytes \in Int BY DEF Chunk
  <2>2. NoChunk \in Chunk BY NewChunkType DEF NoChunk
  <2> QED BY <1>12, <2>1, <2>2, AwakeType DEF Release, WriterPC
<1>13. CASE Advance
  BY <1>13, AwakeType DEF Advance, WriterPC
<1>14. CASE ResultsClosed
  BY <1>14 DEF ResultsClosed, WriterPC
<1>15. CASE UNCHANGED vars
  BY <1>15 DEF vars
<1> QED
  BY <1>1, <1>2, <1>3, <1>4, <1>5, <1>6, <1>7, <1>8, <1>9, <1>10, <1>11,
     <1>12, <1>13, <1>14, <1>15 DEF Next, Worker, Writer, Returned

-----------------------------------------------------------------------------
(* Each part of InOrder is preserved.                                      *)

\* Outside TakeJob, Exit and Send, who is busy with which job is unchanged,
\* and so are the jobs handed out and the chunks emitted.
Steady ==
  /\ nextJob' = nextJob
  /\ emitted' = emitted
  /\ \A w \in Workers : Busy(w)' <=> Busy(w)

\* Steps of a worker on its own chunk
Local(w) == DecodePage(w) \/ FinishJob(w) \/ Acquire(w) \/ Block(w)

LEMMA LocalSteady ==
  ASSUME TypeOK, NEW w \in Workers, Local(w)
  PROVE  Steady /\ Busy(w)
<1> USE DEF TypeOK, Steady, Busy, budgetVars, writerVars
<1>1. CASE DecodePage(w)
  BY <1>1 DEF DecodePage
<1>2. CASE FinishJob(w) BY <1>2 DEF FinishJob
<1>3. CASE Acquire(w) BY <1>3 DEF Acquire
<1>4. CASE Block(w) BY <1>4 DEF Block
<1> QED BY <1>1, <1>2, <1>3, <1>4 DEF Local

LEMMA WriterSteady ==
  ASSUME TypeOK, Writer
  PROVE  Steady /\ building' = building
<1> USE DEF TypeOK, Steady, Busy, budgetVars, workerVars
<1>1. CASE Receive BY <1>1 DEF Receive
<1>2. CASE Pick BY <1>2 DEF Pick
<1>3. CASE NothingDue BY <1>3 DEF NothingDue
<1>4. CASE ApplyPage BY <1>4 DEF ApplyPage
<1>5. CASE Release BY <1>5, AwakeType DEF Release
<1>6. CASE Advance BY <1>6, AwakeType DEF Advance
<1>7. CASE ResultsClosed BY <1>7 DEF ResultsClosed
<1> QED BY <1>1, <1>2, <1>3, <1>4, <1>5, <1>6, <1>7 DEF Writer

\* What a local step does to the chunk it builds
LEMMA LocalChunk ==
  ASSUME TypeOK, NEW w \in Workers, Local(w)
  PROVE  /\ \A v \in Workers \ {w} : building'[v] = building[v]
         /\ building'[w].job = building[w].job
         /\ building'[w].sub = building[w].sub
         /\ building'[w].lo = building[w].lo
         /\ \/ building'[w].hi = building[w].hi
            \/ /\ building'[w].hi = building[w].hi + 1
               /\ building[w].hi < JobEnd(building[w].job)
               /\ building'[w].last = building[w].last
<1> USE DEF TypeOK
<1>1. CASE DecodePage(w)
  <2>1. building' = [building EXCEPT ![w] = WithPage(building[w], ~book.overflow)]
    BY <1>1 DEF DecodePage
  <2>2. building[w] \in Chunk OBVIOUS
  <2> QED BY <1>1, <2>1, <2>2 DEF DecodePage, WithPage, Chunk
<1>2. CASE FinishJob(w)
  BY <1>2 DEF FinishJob, Chunk
<1>3. CASE Acquire(w) BY <1>3 DEF Acquire
<1>4. CASE Block(w) BY <1>4 DEF Block
<1> QED BY <1>1, <1>2, <1>3, <1>4 DEF Local

LEMMA JobsOwnedStep == IInv /\ [Next]_vars => JobsOwned'
<1> SUFFICES ASSUME IInv, [Next]_vars PROVE JobsOwned' OBVIOUS
<1>0. TypeOK /\ JobsOwned BY DEF IInv, InOrder
<1> USE DEF JobsOwned
<1>1. ASSUME NEW w \in Workers, TakeJob(w) PROVE JobsOwned'
  <2>1. /\ nextJob' = nextJob + 1
        /\ emitted' = emitted
        /\ building'[w].job = nextJob
        /\ \A v \in Workers \ {w} :
             building'[v] = building[v] /\ (Busy(v)' <=> Busy(v))
    BY <1>0, <1>1 DEF TakeJob, NewChunk, TypeOK, Busy
  <2>2. nextJob \in Nat /\ \A v \in Workers : building[v].job \in Nat
    BY <1>0 DEF TypeOK, Chunk
  <2>3. \A e \in emitted : e.job \in Nat BY <1>0 DEF TypeOK
  <2> QED BY <1>0, <2>1, <2>2, <2>3
<1>2. ASSUME NEW w \in Workers, Exit(w) PROVE JobsOwned'
  BY <1>0, <1>2 DEF Exit, TypeOK, Busy
<1>3. ASSUME NEW w \in Workers, Local(w) PROVE JobsOwned'
  BY <1>0, <1>3, LocalSteady, LocalChunk DEF Steady
<1>4. ASSUME NEW w \in Workers, Send(w) PROVE JobsOwned'
  <2>1. /\ nextJob' = nextJob
        /\ Busy(w)
        /\ emitted' = emitted \cup {Place(building[w])}
        /\ \A v \in Workers \ {w} :
             building'[v] = building[v] /\ (Busy(v)' <=> Busy(v))
        /\ Busy(w)' => building'[w].job = building[w].job
    BY <1>0, <1>4 DEF Send, Successor, NewChunk, TypeOK, Busy
  <2>2. Place(building[w]).job = building[w].job BY DEF Place
  <2> QED BY <1>0, <2>1, <2>2
<1>5. CASE Writer
  BY <1>0, <1>5, WriterSteady DEF Steady
<1>6. CASE UNCHANGED vars
  BY <1>0, <1>6 DEF vars, Busy
<1> QED
  BY <1>1, <1>2, <1>3, <1>4, <1>5, <1>6 DEF Next, Worker, Returned, Local

LEMMA ChunksTileStep == IInv /\ [Next]_vars => ChunksTile'
<1> SUFFICES ASSUME IInv, [Next]_vars PROVE ChunksTile' OBVIOUS
<1>0. TypeOK /\ ChunksTile /\ BuildingContinues BY DEF IInv, InOrder
<1>1. ASSUME NEW w \in Workers, Send(w) PROVE ChunksTile'
  <2> DEFINE n == Place(building[w])
  <2>1. emitted' = emitted \cup {n} BY <1>1 DEF Send
  <2>2. Busy(w) BY <1>1 DEF Send, Busy
  <2>3. /\ n.lo <= n.hi
        /\ n.hi <= JobEnd(n.job)
        /\ n.sub = 0 => n.lo = JobStart(n.job)
        /\ n.last => n.hi = JobEnd(n.job)
        /\ n.sub > 0 => \E e \in emitted :
                          e.job = n.job /\ n.sub = e.sub + 1 /\ e.hi = n.lo
        /\ \A e \in emitted : e.job = n.job => e.sub < n.sub
    BY <1>0, <2>2 DEF BuildingContinues, Place
  <2>4. n.sub \in Nat /\ \A e \in emitted : e.sub \in Nat
    BY <1>0 DEF TypeOK, Chunk, Place
  <2> HIDE DEF n
  <2>5. ASSUME NEW c \in emitted', NEW d \in emitted', c.job = d.job
        PROVE  (c.sub = d.sub => c = d) /\ (d.sub = c.sub + 1 => d.lo = c.hi)
    <3>1. CASE c \in emitted /\ d \in emitted
      BY <1>0, <2>5, <3>1 DEF ChunksTile
    <3>2. CASE c = n /\ d = n BY <2>4, <3>2
    <3>3. CASE c = n /\ d \in emitted
      BY <2>3, <2>4, <2>5, <3>3
    <3>4. CASE c \in emitted /\ d = n
      <4>1. c.sub < n.sub BY <2>3, <2>5, <3>4
      <4>2. ASSUME n.sub = c.sub + 1 PROVE n.lo = c.hi
        <5>1. PICK e \in emitted :
                e.job = n.job /\ n.sub = e.sub + 1 /\ e.hi = n.lo
          BY <2>3, <2>4, <3>4, <4>2
        <5>2. e.sub = c.sub BY <2>4, <3>4, <4>2, <5>1
        <5>3. e = c BY <1>0, <2>5, <3>4, <5>1, <5>2 DEF ChunksTile
        <5> QED BY <5>1, <5>3
      <4> QED BY <2>4, <3>4, <4>1, <4>2
    <3> QED BY <2>1, <3>1, <3>2, <3>3, <3>4
  <2>6. \A c \in emitted' :
          /\ c.lo <= c.hi
          /\ c.hi <= JobEnd(c.job)
          /\ c.sub = 0 => c.lo = JobStart(c.job)
          /\ c.last => c.hi = JobEnd(c.job)
    BY <1>0, <2>1, <2>3 DEF ChunksTile
  <2> QED BY <2>5, <2>6 DEF ChunksTile, JobStart, JobEnd
<1>2. CASE emitted' = emitted
  BY <1>0, <1>2 DEF ChunksTile, JobStart, JobEnd
<1>3. ASSUME NEW w \in Workers, Worker(w), ~Send(w) PROVE emitted' = emitted
  BY <1>3 DEF Worker, TakeJob, Exit, DecodePage, FinishJob, Acquire, Block
<1>4. CASE Writer BY <1>0, <1>2, <1>4, WriterSteady DEF Steady
<1>5. CASE UNCHANGED vars BY <1>2, <1>5 DEF vars
<1> QED BY <1>1, <1>2, <1>3, <1>4, <1>5 DEF Next, Returned

LEMMA BuildingContinuesStep == IInv /\ [Next]_vars => BuildingContinues'
<1> SUFFICES ASSUME IInv, [Next]_vars PROVE BuildingContinues' OBVIOUS
<1>0. TypeOK /\ JobsOwned /\ BuildingContinues BY DEF IInv, InOrder
<1> USE DEF BuildingContinues
<1>1. ASSUME NEW w \in Workers, TakeJob(w) PROVE BuildingContinues'
  <2>1. /\ emitted' = emitted
        /\ building'[w] = NewChunk(nextJob, 0, JobStart(nextJob))
        /\ \A v \in Workers \ {w} :
             building'[v] = building[v] /\ (Busy(v)' <=> Busy(v))
    BY <1>0, <1>1 DEF TakeJob, TypeOK, Busy
  <2>2. \A e \in emitted : e.job # nextJob
    BY <1>0 DEF JobsOwned, TypeOK
  <2>3. nextJob \in Jobs BY <1>1 DEF TakeJob
  <2>4. JobStart(nextJob) <= JobEnd(nextJob)
    BY <1>0, <2>3, JobFits DEF TypeOK
  <2>5. /\ building'[w].lo = JobStart(nextJob) /\ building'[w].hi = JobStart(nextJob)
        /\ building'[w].job = nextJob /\ building'[w].sub = 0
        /\ building'[w].last = FALSE
    BY <2>1 DEF NewChunk
  <2>6. JobStart(nextJob) \in Nat BY <1>0, BatchType DEF TypeOK
  <2>7. \A e \in emitted' : e.job # building'[w].job BY <2>1, <2>2, <2>5
  <2> HIDE DEF BuildingContinues
  <2>8. ASSUME NEW v \in Workers \ {w}, Busy(v)'
        PROVE  building'[v] = building[v] /\ Busy(v) /\ emitted' = emitted
    BY <2>1, <2>8
  <2> QED BY <1>0, <2>4, <2>5, <2>6, <2>7, <2>8 DEF BuildingContinues
<1>2. ASSUME NEW w \in Workers, Exit(w) PROVE BuildingContinues'
  BY <1>0, <1>2 DEF Exit, TypeOK, Busy
<1>3. ASSUME NEW w \in Workers, Local(w) PROVE BuildingContinues'
  <2>1. emitted' = emitted /\ Busy(w) /\ \A v \in Workers : Busy(v)' <=> Busy(v)
    BY <1>0, <1>3, LocalSteady DEF Steady
  <2>2. /\ building[w].lo \in Nat /\ building[w].hi \in Nat
        /\ JobEnd(building[w].job) \in Nat
    BY <1>0, BatchType DEF TypeOK, Chunk
  <2>3. building'[w].last => building'[w].hi = JobEnd(building[w].job)
    <3>1. CASE FinishJob(w)
      <4>1. building'[w].hi = building[w].hi
        BY <1>0, <3>1 DEF FinishJob, TypeOK, Chunk
      <4> QED BY <1>0, <2>1, <2>2, <3>1, <4>1 DEF FinishJob
    <3>2. CASE DecodePage(w)
      <4>1. /\ building'[w].last = building[w].last
            /\ building[w].hi < JobEnd(building[w].job)
        BY <1>0, <3>2 DEF DecodePage, WithPage, TypeOK, Chunk
      <4>2. ~building[w].last
        <5>1. building[w].last => building[w].hi = JobEnd(building[w].job)
          BY <1>0, <2>1
        <5> QED BY <2>2, <4>1, <5>1
      <4> QED BY <4>1, <4>2
    <3>3. CASE Acquire(w) \/ Block(w)
      BY <1>0, <2>1, <3>3 DEF Acquire, Block
    <3> QED BY <1>3, <3>1, <3>2, <3>3 DEF Local
  <2>4. /\ building'[w].lo <= building'[w].hi
        /\ building'[w].hi <= JobEnd(building[w].job)
    BY <1>0, <1>3, <2>1, <2>2, LocalChunk
  <2> QED BY <1>0, <1>3, <2>1, <2>3, <2>4, LocalChunk
<1>4. ASSUME NEW w \in Workers, Send(w) PROVE BuildingContinues'
  <2> DEFINE c == building[w]
  <2>1. /\ emitted' = emitted \cup {Place(c)}
        /\ Busy(w)
        /\ \A v \in Workers \ {w} :
             building'[v] = building[v] /\ (Busy(v)' <=> Busy(v))
        /\ Busy(w)' => building'[w] = Successor(c) /\ ~c.last
    BY <1>0, <1>4 DEF Send, TypeOK, Busy
  <2>2. \A v \in Workers \ {w} : Busy(v) => building[v].job # Place(c).job
    BY <1>0, <2>1 DEF JobsOwned, Place
  <2>3. ASSUME NEW v \in Workers \ {w}, Busy(v)'
        PROVE  /\ building'[v] = building[v]
               /\ Busy(v)
               /\ \A e \in emitted' : e.job = building[v].job => e \in emitted
    BY <2>1, <2>2, <2>3
  <2>4. ASSUME Busy(w)'
        PROVE  LET d == Successor(c) IN
               /\ d.lo <= d.hi /\ d.hi <= JobEnd(d.job) /\ ~d.last /\ d.sub > 0
               /\ \E e \in emitted' :
                    e.job = d.job /\ d.sub = e.sub + 1 /\ e.hi = d.lo
               /\ \A e \in emitted' : e.job = d.job => e.sub < d.sub
    <3>1. c.sub \in Nat /\ c.hi \in Nat /\ \A e \in emitted : e.sub \in Nat
      BY <1>0 DEF TypeOK, Chunk
    <3>2. /\ Place(c).job = c.job /\ Place(c).sub = c.sub /\ Place(c).hi = c.hi
          /\ Successor(c).job = c.job /\ Successor(c).sub = c.sub + 1
          /\ Successor(c).lo = c.hi /\ Successor(c).hi = c.hi
          /\ Successor(c).last = FALSE
      BY DEF Place, Successor, NewChunk
    <3>3. c.hi <= JobEnd(c.job) /\ \A e \in emitted : e.job = c.job => e.sub < c.sub
      BY <1>0, <2>1
    <3> QED BY <2>1, <3>1, <3>2, <3>3
  <2> QED BY <1>0, <2>1, <2>3, <2>4
<1>5. CASE Writer BY <1>0, <1>5, WriterSteady DEF Steady
<1>6. CASE UNCHANGED vars BY <1>0, <1>6 DEF vars, Busy
<1> QED
  BY <1>1, <1>2, <1>3, <1>4, <1>5, <1>6 DEF Next, Worker, Returned, Local

\* Chunks enter the writer's side only through Send.
LEMMA SentShrinks ==
  ASSUME TypeOK, [Next]_vars, \A w \in Workers : ~Send(w)
  PROVE  Sent' \subseteq Sent
<1> USE DEF Sent, budgetVars, workerVars, writerVars
<1>1. ASSUME NEW w \in Workers, Worker(w) PROVE Sent' \subseteq Sent
  BY <1>1 DEF Worker, TakeJob, Exit, DecodePage, FinishJob, Acquire, Block
<1>2. CASE Receive
  <2>1. resultsCh \in Seq(Chunk) /\ resultsCh # <<>>
    BY <1>2 DEF TypeOK, Receive
  <2>2. ToSet(resultsCh') \subseteq ToSet(resultsCh)
          /\ Head(resultsCh) \in ToSet(resultsCh)
    BY <1>2, <2>1, ToSetTail DEF Receive
  <2> QED BY <1>2, <2>2 DEF Receive
<1>3. CASE Pick BY <1>3 DEF Pick
<1>4. CASE NothingDue BY <1>4 DEF NothingDue
<1>5. CASE ApplyPage BY <1>5 DEF ApplyPage
<1>6. CASE Release BY <1>6 DEF Release
<1>7. CASE Advance BY <1>7 DEF Advance
<1>8. CASE ResultsClosed BY <1>8 DEF ResultsClosed
<1>9. CASE UNCHANGED vars BY <1>9 DEF vars
<1> QED
  BY <1>1, <1>2, <1>3, <1>4, <1>5, <1>6, <1>7, <1>8, <1>9
  DEF Next, Writer, Returned

LEMMA SendAddsChunk ==
  ASSUME TypeOK, NEW w \in Workers, Send(w)
  PROVE  Sent' = Sent \cup {building[w]}
<1>1. resultsCh \in Seq(Chunk) /\ building[w] \in Chunk BY DEF TypeOK
<1>2. ToSet(resultsCh') = ToSet(resultsCh) \cup {building[w]}
  BY <1>1, ToSetAppend DEF Send
<1> QED BY <1>2 DEF Send, Sent, writerVars

LEMMA SentEmittedStep == IInv /\ [Next]_vars => SentEmitted'
<1> SUFFICES ASSUME IInv, [Next]_vars PROVE SentEmitted' OBVIOUS
<1>0. TypeOK /\ SentEmitted BY DEF IInv, InOrder
<1>1. ASSUME NEW w \in Workers, Send(w) PROVE SentEmitted'
  <2>1. emitted' = emitted \cup {Place(building[w])} BY <1>1 DEF Send
  <2>2. Sent' = Sent \cup {building[w]} BY <1>0, <1>1, SendAddsChunk
  <2> QED BY <1>0, <2>1, <2>2 DEF SentEmitted, Place
<1>2. ASSUME \A w \in Workers : ~Send(w) PROVE SentEmitted'
  <2>1. Sent' \subseteq Sent BY <1>0, <1>2, SentShrinks
  <2>2. emitted' = emitted
    <3>1. ASSUME NEW w \in Workers, Worker(w) PROVE emitted' = emitted
      BY <1>2, <3>1
      DEF Worker, TakeJob, Exit, DecodePage, FinishJob, Acquire, Block
    <3>2. CASE Writer BY <1>0, <3>2, WriterSteady DEF Steady
    <3>3. CASE UNCHANGED vars BY <3>3 DEF vars
    <3> QED BY <3>1, <3>2, <3>3 DEF Next, Returned
  <2> QED BY <1>0, <2>1, <2>2 DEF SentEmitted, Place
<1> QED BY <1>1, <1>2

\* What the writer knows of the chunk whose turn it is
LEMMA DueChunkStarts ==
  ASSUME IInv, wpc = "pick", ~book.err, NEW c \in reorder, Due(c)
  PROVE  c.lo = applied /\ c.lo <= c.hi
<1> DEFINE e == Place(c)
<1>1. e \in emitted /\ e.job = curJob /\ e.sub = curSub /\ e.lo = c.lo /\ e.hi = c.hi
  BY DEF IInv, InOrder, SentEmitted, Sent, Place, Due
<1> HIDE DEF e
<1>2. /\ e.lo <= e.hi
      /\ e.hi <= JobEnd(e.job)
      /\ e.sub = 0 => e.lo = JobStart(e.job)
  BY <1>1 DEF IInv, InOrder, ChunksTile
<1>3. /\ e.job \in Nat /\ e.lo \in Nat /\ e.hi \in Nat
      /\ JobEnd(e.job) \in Nat /\ JobEnd(e.job) <= NumPages
      /\ JobStart(e.job) \in Nat
  BY <1>1, BatchType DEF IInv, TypeOK
<1>4. CASE curSub = 0
  <2>1. applied = IF JobStart(curJob) > NumPages THEN NumPages ELSE JobStart(curJob)
    BY <1>4 DEF IInv, InOrder, WriterInPlace
  <2> QED BY <1>1, <1>2, <1>3, <1>4, <2>1, BookAssumption
<1>5. CASE curSub # 0
  <2>1. PICK d \in emitted : d.job = curJob /\ curSub = d.sub + 1 /\ d.hi = applied
    BY <1>5 DEF IInv, InOrder, WriterInPlace
  <2>2. e.lo = d.hi BY <1>1, <2>1 DEF IInv, InOrder, ChunksTile
  <2> QED BY <1>1, <1>2, <2>1, <2>2
<1> QED BY <1>4, <1>5

LEMMA WriterInPlaceStep == IInv /\ [Next]_vars => WriterInPlace'
<1> SUFFICES ASSUME IInv, [Next]_vars PROVE WriterInPlace' OBVIOUS
<1>0. TypeOK /\ WriterInPlace BY DEF IInv, InOrder
<1>1. ASSUME NEW w \in Workers, Worker(w) PROVE WriterInPlace'
  <2>1. UNCHANGED writerVars
    BY <1>1 DEF Worker, TakeJob, Exit, DecodePage, FinishJob, Acquire, Block, Send
  <2>2. emitted \subseteq emitted'
    BY <1>1 DEF Worker, TakeJob, Exit, DecodePage, FinishJob, Acquire, Block, Send
  <2> QED BY <1>0, <2>1, <2>2 DEF WriterInPlace, writerVars, Due
<1>2. CASE Receive
  BY <1>0, <1>2 DEF WriterInPlace, Receive
<1>3. CASE Pick
  <2>1. PICK c \in reorder : Due(c) /\ current' = c /\ cursor' = c.lo
    BY <1>3 DEF Pick
  <2>2. wpc = "pick" /\ wpc' = "apply"
          /\ UNCHANGED <<curJob, curSub, applied, book>>
    BY <1>3 DEF Pick
  <2>3. ~book.err => c.lo = applied /\ c.lo <= c.hi
    BY <2>1, <2>2, DueChunkStarts
  <2>4. applied \in Nat BY <1>0 DEF TypeOK
  <2> QED BY <2>1, <2>2, <2>3, <2>4 DEF WriterInPlace, Due
<1>4. CASE NothingDue
  BY <1>0, <1>4 DEF WriterInPlace, NothingDue
<1>5. CASE ApplyPage
  <2>1. /\ wpc = "apply" /\ wpc' = "apply" /\ applied' = applied + 1
        /\ cursor' = cursor + 1
        /\ cursor < current.hi /\ ~book.err
        /\ UNCHANGED <<current, curJob, curSub>>
    BY <1>5 DEF ApplyPage
  <2>2. applied \in Nat /\ cursor \in Nat /\ current.hi \in Nat /\ current.lo \in Nat
    BY <1>0 DEF TypeOK, Chunk
  <2>3. cursor = applied /\ current.lo <= cursor /\ Due(current)
    BY <1>0, <2>1 DEF WriterInPlace
  <2> QED BY <2>1, <2>2, <2>3 DEF WriterInPlace, Due
<1>6. CASE Release
  <2>1. /\ wpc = "apply"
        /\ book.err \/ cursor >= current.hi
        /\ UNCHANGED <<curJob, applied, book, emitted>>
    BY <1>6 DEF Release
  <2>2. Place(current) \in emitted /\ current.job = curJob /\ current.sub = curSub
    <3>1. current \in Sent BY <2>1 DEF Sent
    <3>2. Due(current) BY <1>0, <2>1 DEF WriterInPlace
    <3> QED BY <3>1, <3>2 DEF IInv, InOrder, SentEmitted, Due
  <2>3. cursor \in Nat /\ current.hi \in Nat /\ curSub \in Nat
    BY <1>0 DEF TypeOK, Chunk
  <2>4. ~book.err => applied = current.hi
    BY <1>0, <2>1, <2>3 DEF WriterInPlace
  <2>5. CASE current.last
    <3>1. current.hi = JobEnd(curJob)
      BY <2>2, <2>5 DEF IInv, InOrder, ChunksTile, Place
    <3>2. wpc' = "advance" BY <1>6, <2>5 DEF Release
    <3> QED BY <2>1, <2>4, <3>1, <3>2 DEF WriterInPlace, JobEnd
  <2>6. CASE ~current.last
    <3>1. wpc' = "pick" /\ curSub' = curSub + 1 BY <1>6, <2>6 DEF Release
    <3>2. \E e \in emitted : e.job = curJob /\ curSub' = e.sub + 1 /\ e.hi = current.hi
      <4>1. /\ Place(current).job = curJob
            /\ curSub' = Place(current).sub + 1
            /\ Place(current).hi = current.hi
        BY <2>2, <3>1 DEF Place
      <4> QED BY <2>2, <4>1
    <3>3. curSub' # 0 BY <2>3, <3>1
    <3> QED BY <2>1, <2>4, <3>1, <3>2, <3>3 DEF WriterInPlace
  <2> QED BY <2>5, <2>6
<1>7. CASE Advance
  <2>1. /\ wpc = "advance" /\ wpc' = "pick" /\ curJob' = curJob + 1 /\ curSub' = 0
        /\ UNCHANGED <<applied, book>>
    BY <1>7 DEF Advance
  <2>2. ~book.err => applied = JobEnd(curJob) BY <1>0, <2>1 DEF WriterInPlace
  <2> QED BY <2>1, <2>2 DEF WriterInPlace, JobEnd, JobStart
<1>8. CASE ResultsClosed
  BY <1>0, <1>8 DEF WriterInPlace, ResultsClosed
<1>9. CASE UNCHANGED vars
  BY <1>0, <1>9 DEF WriterInPlace, vars, Due
<1> QED
  BY <1>1, <1>2, <1>3, <1>4, <1>5, <1>6, <1>7, <1>8, <1>9
  DEF Next, Writer, Returned

\* The chunk a worker builds claims its keys, and stays with the worker.
LEMMA KeysInTimeStep == IInv /\ [Next]_vars => KeysInTime'
<1> SUFFICES ASSUME IInv, [Next]_vars, ~book'.overflow
             PROVE  /\ \A c \in Sent' : \A p \in Pages :
                         c.lo <= p /\ p < c.hi => p \in c.keyed
                    /\ \A w \in Workers : Busy(w)' =>
                         \A p \in Pages :
                           building'[w].lo <= p /\ p < building'[w].hi
                             => p \in building'[w].keyed
  BY DEF KeysInTime
<1> DEFINE Keyed(c) == \A p \in Pages : c.lo <= p /\ p < c.hi => p \in c.keyed
<1>0. TypeOK /\ KeysInTime BY DEF IInv, InOrder
<1>1. ~book.overflow
  <2>1. CASE book' = book BY <2>1
  <2>2. CASE ApplyPage
    <3>1. cursor \in Pages BY <2>2, CursorIsPage DEF ApplyPage
    <3>2. disk[cursor].kind \in PageKinds BY <1>0, <3>1 DEF TypeOK, PageResult
    <3>3. book \in Book BY <1>0 DEF TypeOK
    <3> QED BY <2>2, <3>2, <3>3, OverflowStays DEF ApplyPage
  <2>3. ASSUME NEW w \in Workers, Worker(w) PROVE book' = book
    BY <2>3 DEF Worker, TakeJob, Exit, DecodePage, FinishJob, Acquire, Block,
                Send, writerVars
  <2>4. ASSUME Writer, ~ApplyPage PROVE book' = book
    BY <2>4 DEF Writer, Receive, Pick, NothingDue, Release, Advance, ResultsClosed
  <2>5. ASSUME UNCHANGED vars PROVE book' = book BY <2>5 DEF vars
  <2> QED BY <2>1, <2>2, <2>3, <2>4, <2>5 DEF Next, Returned
<1>2. /\ \A c \in Sent : Keyed(c)
      /\ \A w \in Workers : Busy(w) => Keyed(building[w])
  BY <1>0, <1>1 DEF KeysInTime
<1>3. \A c \in Sent' : Keyed(c)
  <2>1. ASSUME NEW w \in Workers, Send(w) PROVE \A c \in Sent' : Keyed(c)
    <3>1. Busy(w) BY <2>1 DEF Send, Busy
    <3>2. Sent' = Sent \cup {building[w]} BY <1>0, <2>1, SendAddsChunk
    <3> QED BY <1>2, <3>1, <3>2
  <2>2. ASSUME \A w \in Workers : ~Send(w) PROVE \A c \in Sent' : Keyed(c)
    <3>1. Sent' \subseteq Sent BY <1>0, <2>2, SentShrinks
    <3> QED BY <1>2, <3>1
  <2> QED BY <2>1, <2>2
<1>4. ASSUME NEW v \in Workers, Busy(v)' PROVE Keyed(building'[v])
  <2>1. CASE Busy(v) /\ building'[v] = building[v] BY <1>2, <2>1
  <2>2. ASSUME NEW j \in Nat, NEW s \in Nat, NEW p \in Nat,
               building'[v] = NewChunk(j, s, p)
        PROVE  Keyed(building'[v])
    BY <2>2, BookAssumption DEF NewChunk, Pages
  <2>3. ASSUME NEW w \in Workers, TakeJob(w) PROVE Keyed(building'[v])
    <3>1. CASE v = w
      BY <1>0, <2>2, <2>3, <3>1, BatchType DEF TakeJob, TypeOK
    <3>2. CASE v # w
      BY <1>0, <1>4, <2>1, <2>3, <3>2 DEF TakeJob, TypeOK, Busy
    <3> QED BY <3>1, <3>2
  <2>4. ASSUME NEW w \in Workers, Exit(w) PROVE Keyed(building'[v])
    BY <1>0, <1>4, <2>1, <2>4 DEF Exit, TypeOK, Busy
  <2>5. ASSUME NEW w \in Workers, Local(w) PROVE Keyed(building'[v])
    <3>1. Busy(v) BY <1>0, <1>4, <2>5, LocalSteady DEF Steady
    <3>2. CASE v = w /\ DecodePage(w)
      <4> DEFINE c == building[w]
      <4>1. building'[v] = WithPage(c, TRUE)
        BY <1>0, <1>1, <2>5, <3>2 DEF DecodePage, TypeOK
      <4>2. c \in Chunk BY <1>0 DEF TypeOK
      <4>3. /\ building'[v].lo = c.lo
            /\ building'[v].hi = c.hi + 1
            /\ building'[v].keyed = c.keyed \cup {c.hi}
        BY <4>1, <4>2 DEF WithPage, Chunk
      <4>4. c.hi \in Nat /\ Keyed(c) BY <1>2, <3>1, <3>2, <4>2 DEF Chunk
      <4> QED BY <4>3, <4>4, BookAssumption DEF Pages
    <3>3. CASE v # w \/ Acquire(w) \/ Block(w)
      <4>1. building'[v] = building[v]
        BY <1>0, <2>5, <3>3, LocalChunk DEF Acquire, Block
      <4> QED BY <2>1, <3>1, <4>1
    <3>4. CASE v = w /\ FinishJob(w)
      <4>1. building'[v] = [building[v] EXCEPT !.last = TRUE] /\ building[v] \in Chunk
        BY <1>0, <3>4 DEF FinishJob, TypeOK
      <4>2. /\ building'[v].lo = building[v].lo
            /\ building'[v].hi = building[v].hi
            /\ building'[v].keyed = building[v].keyed
        BY <4>1 DEF Chunk
      <4> QED BY <1>2, <3>1, <4>2
    <3> QED BY <2>5, <3>2, <3>3, <3>4 DEF Local
  <2>6. ASSUME NEW w \in Workers, Send(w) PROVE Keyed(building'[v])
    <3>1. CASE v = w
      <4>1. building'[v] = Successor(building[w])
        BY <1>0, <1>4, <2>6, <3>1 DEF Send, TypeOK, Busy
      <4>2. building[w].job \in Nat /\ building[w].sub + 1 \in Nat
              /\ building[w].hi \in Nat
        BY <1>0 DEF TypeOK, Chunk
      <4> QED BY <2>2, <4>1, <4>2 DEF Successor
    <3>2. CASE v # w
      BY <1>0, <1>4, <2>1, <2>6, <3>2 DEF Send, TypeOK, Busy
    <3> QED BY <3>1, <3>2
  <2>7. CASE Writer BY <1>0, <1>4, <2>1, <2>7, WriterSteady DEF Steady
  <2>8. CASE UNCHANGED vars BY <1>4, <2>1, <2>8 DEF vars, Busy
  <2> QED
    BY <2>3, <2>4, <2>5, <2>6, <2>7, <2>8 DEF Next, Worker, Returned, Local
<1> QED BY <1>3, <1>4
-----------------------------------------------------------------------------
(* Theorems                                                                *)

\* The inductive invariant: types, tiling of the plan and the writer's place.
THEOREM Invariance == SafeSpec => []IInv
<1>1. IInv /\ [Next]_vars => IInv'
  <2> SUFFICES ASSUME IInv, [Next]_vars PROVE IInv' OBVIOUS
  <2>1. TypeOK' BY TypeStep
  <2>2. JobsOwned' /\ ChunksTile' /\ BuildingContinues'
    BY JobsOwnedStep, ChunksTileStep, BuildingContinuesStep
  <2>3. SentEmitted' /\ WriterInPlace' /\ KeysInTime'
    BY SentEmittedStep, WriterInPlaceStep, KeysInTimeStep
  <2> QED BY <2>1, <2>2, <2>3 DEF IInv, InOrder
<1> QED BY InitInv, <1>1, PTL DEF SafeSpec

\* Type correctness: in particular no worker decodes past the plan.
THEOREM TypeCorrect == SafeSpec => []TypeOK
<1>1. IInv => TypeOK BY DEF IInv
<1> QED BY <1>1, Invariance, PTL

\* The chunks of the running pipeline always tile the plan in order.
THEOREM OrderKept == SafeSpec => []InOrder
<1>1. IInv => InOrder BY DEF IInv
<1> QED BY <1>1, Invariance, PTL

\* Both specifications keep their books with the same operators.
LEMMA SameBooks ==
  ASSUME NEW b, NEW p, NEW r, NEW ks, NEW active
  PROVE  /\ PlanOrder!Recorded(b, p, r, ks) = Recorded(b, p, r, ks)
         /\ PlanOrder!RenderedKeys(r, active) = RenderedKeys(r, active)
<1>0. ASSUME NEW S PROVE PlanOrder!Cardinality(S) = Cardinality(S)
  BY DEF Cardinality, PlanOrder!Cardinality
<1>1. PlanOrder!Mark(b, ks) = Mark(b, ks)
  <2>1. CASE b.overflow \/ ks = {} BY <2>1 DEF Mark, PlanOrder!Mark
  <2>2. CASE ~(b.overflow \/ ks = {})
    <3>1. CASE Cardinality(b.keys \cup ks) >= MaxKeys
      BY <1>0, <2>2, <3>1 DEF Mark, PlanOrder!Mark
    <3>2. CASE ~(Cardinality(b.keys \cup ks) >= MaxKeys)
      BY <1>0, <2>2, <3>2 DEF Mark, PlanOrder!Mark
    <3> QED BY <3>1, <3>2
  <2> QED BY <2>1, <2>2
<1>2. PlanOrder!Exported(b, p, ks) = Exported(b, p, ks)
  BY <1>1 DEF Exported, PlanOrder!Exported
<1>3. ASSUME NEW x PROVE PlanOrder!Finished(x, p) = Finished(x, p)
  BY DEF Finished, PlanOrder!Finished
<1>4. ASSUME NEW x PROVE PlanOrder!Aborted(x) = Aborted(x)
  BY DEF Aborted, PlanOrder!Aborted
<1>5. PlanOrder!Failed(b, r) = Failed(b, r)
  BY DEF Failed, PlanOrder!Failed
<1>6. PlanOrder!PutAside(b, p) = PutAside(b, p)
  BY DEF PutAside, PlanOrder!PutAside
<1>7. PlanOrder!Recorded(b, p, r, ks) = Recorded(b, p, r, ks)
  <2>1. PlanOrder!Finished(PlanOrder!PutAside(b, p), p) = Finished(PutAside(b, p), p)
    BY <1>3, <1>6
  <2>2. PlanOrder!Finished(PlanOrder!Exported(b, p, ks), p)
          = Finished(Exported(b, p, ks), p)
    BY <1>2, <1>3
  <2>3. PlanOrder!Aborted(PlanOrder!Mark(b, ks)) = Aborted(Mark(b, ks))
    BY <1>1, <1>4
  <2> QED
    BY <1>3, <1>4, <1>5, <2>1, <2>2, <2>3 DEF Recorded, PlanOrder!Recorded
<1>8. PlanOrder!RenderedKeys(r, active) = RenderedKeys(r, active)
  BY DEF RenderedKeys, PlanOrder!RenderedKeys
<1> QED BY <1>7, <1>8

\* The parallel pipeline implements the sequential loop: every step applies
\* the next planned page exactly as the loop would, or leaves the books alone.
THEOREM PipelineImplementsPlanOrder == SafeSpec => ImplementsPlanOrder
<1>1. Init => PlanOrder!Init
  BY DEF Init, PlanOrder!Init, EmptyBook, PlanOrder!EmptyBook
<1>2. IInv /\ [Next]_vars => [PlanOrder!Next]_PlanOrder!vars
  <2> SUFFICES ASSUME IInv, [Next]_vars
               PROVE  PlanOrder!Next \/ UNCHANGED <<disk, applied, book>>
    BY DEF PlanOrder!vars
  <2>1. CASE ApplyPage
    <3>1. cursor \in Pages /\ cursor = applied 
      BY <2>1, CursorIsPage DEF ApplyPage, IInv, InOrder, WriterInPlace
    <3>2. applied < NumPages BY <3>1, BookAssumption DEF Pages
    <3> DEFINE ks == RenderedKeys(disk[applied], applied \in current.keyed)
               abstract == RenderedKeys(disk[applied], ~book.overflow)
    <3>3. Recorded(book, applied, disk[applied], ks)
            = Recorded(book, applied, disk[applied], abstract)
      <4>1. CASE book.overflow
        <5>1. Recorded(book, applied, disk[applied], ks)
                = Recorded(book, applied, disk[applied], {})
          BY <4>1, KeysIgnoredOnOverflow
        <5>2. Recorded(book, applied, disk[applied], abstract)
                = Recorded(book, applied, disk[applied], {})
          BY <4>1, KeysIgnoredOnOverflow
        <5> QED BY <5>1, <5>2
      <4>2. CASE ~book.overflow
        <5>1. current \in Sent BY <2>1 DEF ApplyPage, Sent
        <5>2. current.lo <= applied /\ applied < current.hi
          BY <2>1, <3>1 DEF ApplyPage, IInv, InOrder, WriterInPlace
        <5>3. applied \in current.keyed
          BY <3>1, <4>2, <5>1, <5>2 DEF IInv, InOrder, KeysInTime
        <5> QED BY <4>2, <5>3
      <4> QED BY <4>1, <4>2
    <3>4. book' \in PlanOrder!Recorded(book, applied, disk[applied],
                      PlanOrder!RenderedKeys(disk[applied], ~book.overflow))
      <4>1. book' \in Recorded(book, cursor, disk[cursor],
                      RenderedKeys(disk[cursor], cursor \in current.keyed))
        BY <2>1 DEF ApplyPage
      <4>2. book' \in Recorded(book, applied, disk[applied], ks)
        BY <3>1, <4>1
      <4> QED BY <3>3, <4>2, SameBooks
    <3> QED BY <2>1, <3>2, <3>4 DEF ApplyPage, PlanOrder!Next, PlanOrder!ApplyPage
  <2>2. ASSUME NEW w \in Workers, Worker(w) PROVE UNCHANGED <<disk, applied, book>>
    BY <2>2 DEF Worker, TakeJob, Exit, DecodePage, FinishJob, Acquire, Block,
                Send, writerVars
  <2>3. ASSUME Writer, ~ApplyPage PROVE UNCHANGED <<disk, applied, book>>
    BY <2>3 DEF Writer, Receive, Pick, NothingDue, Release, Advance, ResultsClosed
  <2>4. ASSUME UNCHANGED vars PROVE UNCHANGED <<disk, applied, book>>
    BY <2>4 DEF vars
  <2> QED BY <2>1, <2>2, <2>3, <2>4 DEF Next, Returned
<1> QED
  BY <1>1, <1>2, Invariance, PTL
  DEF SafeSpec, ImplementsPlanOrder, PlanOrder!Spec

\* No worker sleeps in acquire once its wait condition is gone: reservations
\* only strengthen the condition, and every release and every change of the
\* exempt job wakes all sleepers.
THEOREM WakeupsKept == SafeSpec => []NoLostWakeup
<1>1. Init => NoLostWakeup BY DEF Init, NoLostWakeup
<1>2. TypeOK /\ NoLostWakeup /\ [Next]_vars => NoLostWakeup'
  <2> SUFFICES ASSUME TypeOK, NoLostWakeup, [Next]_vars,
                      NEW v \in Workers, pc'[v] = "blocked"
               PROVE  MustWait(building[v].bytes, building[v].job)'
    BY DEF NoLostWakeup
  <2> USE DEF MustWait, writerVars, workerVars, budgetVars
  <2>1. ASSUME pc[v] = "blocked", building'[v] = building[v],
               inFlight' = inFlight, applyingJob' = applyingJob
        PROVE  MustWait(building[v].bytes, building[v].job)'
    BY <2>1 DEF NoLostWakeup
  <2>2. ASSUME NEW w \in Workers, Acquire(w)
        PROVE  MustWait(building[v].bytes, building[v].job)'
    <3>1. v # w /\ pc[v] = "blocked" BY <2>2 DEF Acquire, TypeOK
    <3>2. /\ inFlight \in Int
          /\ building[w].bytes \in Nat
          /\ building[v].bytes \in Nat
      BY DEF TypeOK, Chunk
    <3>3. MustWait(building[v].bytes, building[v].job)
      BY <3>1 DEF NoLostWakeup
    <3> QED BY <2>2, <3>2, <3>3, PipelineAssumption DEF Acquire
  <2>3. ASSUME NEW w \in Workers, Block(w)
        PROVE  MustWait(building[v].bytes, building[v].job)'
    <3>1. CASE v = w BY <2>3, <3>1 DEF Block
    <3>2. CASE v # w BY <2>1, <2>3, <3>2 DEF Block, TypeOK
    <3> QED BY <3>1, <3>2
  <2>4. ASSUME NEW w \in Workers,
               TakeJob(w) \/ Exit(w) \/ DecodePage(w) \/ FinishJob(w) \/ Send(w)
        PROVE  MustWait(building[v].bytes, building[v].job)'
    <3>1. v # w
      BY <2>4 DEF TakeJob, Exit, DecodePage, FinishJob, Send, TypeOK
    <3>2. /\ pc[v] = "blocked" /\ building'[v] = building[v]
          /\ inFlight' = inFlight /\ applyingJob' = applyingJob
      BY <2>4, <3>1 DEF TakeJob, Exit, DecodePage, FinishJob, Send, TypeOK
    <3> QED BY <2>1, <3>2
  <2>5. CASE Release \/ Advance
    BY <2>5 DEF Release, Advance, Awake, TypeOK
  <2>6. CASE Receive \/ Pick \/ NothingDue \/ ApplyPage \/ ResultsClosed
    BY <2>1, <2>6 DEF Receive, Pick, NothingDue, ApplyPage, ResultsClosed
  <2>7. CASE UNCHANGED vars
    BY <2>1, <2>7 DEF vars
  <2> QED
    BY <2>2, <2>3, <2>4, <2>5, <2>6, <2>7 DEF Next, Worker, Writer, Returned
<1> QED BY <1>1, <1>2, TypeCorrect, PTL DEF SafeSpec

-----------------------------------------------------------------------------
(* The bytes of a set of chunks.  BytesOf is a sum the community modules   *)
(* define by recursion on the set, so its equations have to be derived     *)
(* first: the recursive function exists for every finite set, and two of   *)
(* them agree.                                                             *)

Some(s) == CHOOSE x \in s : TRUE
Rest(s) == s \ {Some(s)}

\* The equation of the recursive function behind BytesOf, on a set D of sets
\* of chunks
Sums(g, D) ==
  g = [s \in D |-> IF s = {} THEN 0 ELSE Some(s).bytes + g[Rest(s)]]

\* BytesOf is that function, applied to the set.
LEMMA BytesUnfolded ==
  ASSUME NEW S
  PROVE  BytesOf(S) = (CHOOSE g : Sums(g, SUBSET S))[S]
BY DEF BytesOf, MapThenSumSet, MapThenFoldSet, Sums, Some, Rest

\* Taking one element out of a finite set
LEMMA SomeRest ==
  ASSUME NEW S, IsFiniteSet(S), S # {}
  PROVE  /\ Some(S) \in S
         /\ Rest(S) \subseteq S
         /\ Rest(S) # S
         /\ IsFiniteSet(Rest(S))
         /\ Cardinality(Rest(S)) = Cardinality(S) - 1
         /\ Cardinality(S) \in Nat
BY FS_RemoveElement, FS_CardinalityType DEF Some, Rest

\* Such a function exists for the subsets of a finite set: there is one for
\* the subsets of each size.
LEMMA SumsExist ==
  ASSUME NEW S, IsFiniteSet(S)
  PROVE  \E g : Sums(g, SUBSET S)
<1> DEFINE Upto(n) == {s \in SUBSET S : Cardinality(s) <= n}
           Missing == {n \in Nat : ~\E g : Sums(g, Upto(n))}
<1>1. ASSUME NEW s \in SUBSET S
      PROVE  /\ IsFiniteSet(s) /\ Cardinality(s) \in Nat
             /\ Cardinality(s) <= Cardinality(S)
             /\ Cardinality(s) = 0 <=> s = {}
  BY FS_Subset, FS_CardinalityType, FS_EmptySet
<1>2. Missing = {}
  <2> SUFFICES ASSUME Missing # {} PROVE FALSE OBVIOUS
  <2>0. Missing \in SUBSET Nat OBVIOUS
  <2>1. PICK n \in Missing : \A m \in Missing : n <= m BY <2>0, LeastNat
  <2>2. CASE n = 0
    <3> DEFINE g == [s \in Upto(0) |-> 0]
    <3>1. \A s \in Upto(0) : s = {} BY <1>1
    <3>2. Sums(g, Upto(0)) BY <3>1 DEF Sums
    <3> QED BY <2>1, <2>2, <3>2
  <2>3. CASE n # 0
    <3>1. n \in Nat /\ n - 1 \in Nat BY <2>0, <2>3
    <3>8. n - 1 \notin Missing
      <4> HIDE DEF Missing
      <4> QED BY <2>1, <3>1
    <3>2. PICK g : Sums(g, Upto(n - 1)) BY <3>1, <3>8
    <3> DEFINE h == [s \in Upto(n) |-> IF s = {} THEN 0 ELSE Some(s).bytes + g[Rest(s)]]
    <3>3. ASSUME NEW s \in Upto(n - 1) PROVE s \in Upto(n) /\ h[s] = g[s]
      <4>1. s \in Upto(n) BY <1>1, <3>1
      <4> QED BY <3>2, <4>1 DEF Sums
    <3>4. ASSUME NEW s \in Upto(n), s # {} PROVE Rest(s) \in Upto(n - 1)
      BY <1>1, <3>1, <3>4, SomeRest
    <3>5. ASSUME NEW s \in Upto(n)
          PROVE  h[s] = IF s = {} THEN 0 ELSE Some(s).bytes + h[Rest(s)]
      <4>1. CASE s = {} BY <4>1
      <4>2. CASE s # {}
        <5>1. h[Rest(s)] = g[Rest(s)] BY <3>3, <3>4, <4>2
        <5>2. h[s] = Some(s).bytes + g[Rest(s)] BY <4>2
        <5> HIDE DEF h
        <5> QED BY <4>2, <5>1, <5>2
      <4> QED BY <4>1, <4>2
    <3>6. h = [s \in Upto(n) |-> h[s]] OBVIOUS
    <3> HIDE DEF h
    <3>7. Sums(h, Upto(n)) BY <3>5, <3>6 DEF Sums
    <3> QED BY <2>1, <3>7
  <2> QED BY <2>2, <2>3
<1>3. Upto(Cardinality(S)) = SUBSET S BY <1>1
<1>4. Cardinality(S) \in Nat BY FS_CardinalityType
<1> QED BY <1>2, <1>3, <1>4

\* Two of them agree.
LEMMA SumsAgree ==
  ASSUME NEW S, IsFiniteSet(S), NEW T, S \subseteq T,
         NEW g, Sums(g, SUBSET S), NEW h, Sums(h, SUBSET T)
  PROVE  g[S] = h[S]
<1> DEFINE Apart == {s \in SUBSET S : g[s] # h[s]}
<1>1. ASSUME NEW s \in SUBSET S
      PROVE  /\ IsFiniteSet(s) /\ s \in SUBSET T
             /\ g[s] = IF s = {} THEN 0 ELSE Some(s).bytes + g[Rest(s)]
             /\ h[s] = IF s = {} THEN 0 ELSE Some(s).bytes + h[Rest(s)]
  BY FS_Subset DEF Sums
<1>2. Apart = {}
  <2> SUFFICES ASSUME Apart # {} PROVE FALSE OBVIOUS
  <2>1. Apart \in SUBSET SUBSET S /\ Apart # {} OBVIOUS
  <2>2. PICK s \in Apart : \A t \in Apart : t \subseteq s => t = s
    <3> HIDE DEF Apart
    <3> QED BY <2>1, MinimalSubset
  <2>3. s # {} BY <1>1, <2>2
  <2>4. Rest(s) \subseteq s /\ Rest(s) # s /\ s \in SUBSET S
    BY <1>1, <2>2, <2>3, SomeRest
  <2>5. Rest(s) \notin Apart
    <3> HIDE DEF Apart
    <3> QED BY <2>2, <2>4
  <2>6. g[Rest(s)] = h[Rest(s)] BY <2>4, <2>5
  <2> QED BY <1>1, <2>2, <2>3, <2>6
<1> QED BY <1>2

\* The sum over nothing, and over one chunk and the rest
LEMMA BytesStep ==
  ASSUME NEW S, IsFiniteSet(S)
  PROVE  BytesOf(S) = IF S = {} THEN 0 ELSE Some(S).bytes + BytesOf(Rest(S))
<1> DEFINE g == CHOOSE f : Sums(f, SUBSET S)
           R == Rest(S)
           h == CHOOSE f : Sums(f, SUBSET R)
<1>1. Sums(g, SUBSET S) BY SumsExist
<1>2. BytesOf(S) = g[S] BY BytesUnfolded
<1> HIDE DEF g
<1>3. CASE S = {}
  BY <1>1, <1>2, <1>3 DEF Sums
<1>4. CASE S # {}
  <2>1. R \subseteq S /\ IsFiniteSet(R) BY <1>4, SomeRest
  <2>2. Sums(h, SUBSET R) BY <2>1, SumsExist
  <2>3. BytesOf(R) = h[R] BY BytesUnfolded
  <2> HIDE DEF h
  <2>4. h[R] = g[R] BY <1>1, <2>1, <2>2, SumsAgree
  <2>5. S \in SUBSET S OBVIOUS
  <2>6. g[S] = Some(S).bytes + g[R] BY <1>1, <1>4, <2>5 DEF Sums
  <2> QED BY <1>2, <1>4, <2>3, <2>4, <2>6
<1> QED BY <1>3, <1>4

Weighed(S) == IsFiniteSet(S) /\ \A c \in S : c.bytes \in Nat

\* No chunks hold no bytes.
LEMMA BytesOfNothing == BytesOf({}) = 0
BY FS_EmptySet, BytesStep

\* The sum is a number, and any chunk can be taken out of it first.
LEMMA BytesRemove ==
  ASSUME NEW S, Weighed(S)
  PROVE  /\ BytesOf(S) \in Nat
         /\ \A c \in S : BytesOf(S) = c.bytes + BytesOf(S \ {c})
<1> DEFINE Good(s) == /\ BytesOf(s) \in Nat
                      /\ \A c \in s : BytesOf(s) = c.bytes + BytesOf(s \ {c})
           Bad == {s \in SUBSET S : ~Good(s)}
<1>1. ASSUME NEW s \in SUBSET S PROVE Weighed(s)
  BY FS_Subset DEF Weighed
<1>2. Bad = {}
  <2> SUFFICES ASSUME Bad # {} PROVE FALSE OBVIOUS
  <2> HIDE DEF Good
  <2>1. Bad \in SUBSET SUBSET S /\ Bad # {} /\ IsFiniteSet(S) BY DEF Weighed
  <2>2. PICK s \in Bad : \A t \in Bad : t \subseteq s => t = s
    <3> HIDE DEF Bad
    <3> QED BY <2>1, MinimalSubset
  <2>3. s \in SUBSET S /\ ~Good(s) BY <2>2
  <2>4. ASSUME NEW t, t \subseteq s, t # s PROVE Good(t)
    <3>1. t \notin Bad
      <4> HIDE DEF Bad
      <4> QED BY <2>2, <2>4
    <3> QED BY <2>3, <2>4, <3>1
  <2>5. s # {}
    <3>1. Good({}) BY BytesOfNothing DEF Good
    <3> QED BY <2>3, <3>1
  <2> DEFINE x == Some(s)
             r == Rest(s)
  <2>6. IsFiniteSet(s) /\ \A c \in s : c.bytes \in Nat
    BY <1>1, <2>3 DEF Weighed
  <2>7. x \in s /\ r \subseteq s /\ r # s /\ r = s \ {x}
    BY <2>5, <2>6, SomeRest DEF Rest
  <2>8. BytesOf(s) = x.bytes + BytesOf(r) BY <2>5, <2>6, BytesStep
  <2> HIDE DEF x, r
  <2>9. Good(r) BY <2>4, <2>7
  <2>10. ASSUME NEW c \in s PROVE BytesOf(s) = c.bytes + BytesOf(s \ {c})
    <3>1. CASE c = x BY <2>7, <2>8, <3>1
    <3>2. CASE c # x
      <4> DEFINE t == s \ {c}
      <4>1. x \in t /\ c \in r /\ t \subseteq s /\ t # s /\ t \ {x} = r \ {c}
        BY <2>7, <3>2
      <4>2. Good(t) BY <2>4, <4>1
      <4>3. Good(r \ {c}) BY <2>4, <2>7, <4>1
      <4> HIDE DEF t
      <4>4. BytesOf(r) = c.bytes + BytesOf(r \ {c}) BY <2>9, <4>1 DEF Good
      <4>5. BytesOf(t) = x.bytes + BytesOf(r \ {c}) BY <4>1, <4>2 DEF Good
      <4>6. /\ BytesOf(t) \in Nat /\ BytesOf(r) \in Nat /\ BytesOf(r \ {c}) \in Nat
        BY <2>9, <4>2, <4>3 DEF Good
      <4>7. x.bytes \in Nat /\ c.bytes \in Nat BY <2>6, <2>7
      <4> QED BY <2>8, <4>4, <4>5, <4>6, <4>7 DEF t
    <3> QED BY <3>1, <3>2
  <2>11. BytesOf(s) \in Nat BY <2>6, <2>7, <2>8, <2>9 DEF Good
  <2> QED BY <2>3, <2>10, <2>11 DEF Good
<1>3. S \in SUBSET S OBVIOUS
<1> QED BY <1>2, <1>3

\* One more chunk adds its bytes.
LEMMA BytesAdd ==
  ASSUME NEW S, Weighed(S), NEW c, c \notin S, c.bytes \in Nat
  PROVE  /\ Weighed(S \cup {c})
         /\ BytesOf(S \cup {c}) = BytesOf(S) + c.bytes
<1>1. Weighed(S \cup {c}) BY FS_AddElement DEF Weighed
<1>2. (S \cup {c}) \ {c} = S OBVIOUS
<1>3. BytesOf(S \cup {c}) = c.bytes + BytesOf(S) BY <1>1, <1>2, BytesRemove
<1>4. BytesOf(S) \in Nat BY BytesRemove
<1> QED BY <1>1, <1>3, <1>4

\* Fewer chunks hold no more bytes.
LEMMA BytesMonotone ==
  ASSUME NEW S, Weighed(S), NEW T, T \subseteq S
  PROVE  BytesOf(T) <= BytesOf(S)
<1> DEFINE Bad == {s \in SUBSET S : T \subseteq s /\ ~(BytesOf(T) <= BytesOf(s))}
<1>1. ASSUME NEW s \in SUBSET S
      PROVE  Weighed(s) /\ BytesOf(s) \in Nat
  BY FS_Subset, BytesRemove DEF Weighed
<1>2. Bad = {}
  <2> SUFFICES ASSUME Bad # {} PROVE FALSE OBVIOUS
  <2>1. Bad \in SUBSET SUBSET S /\ Bad # {} /\ IsFiniteSet(S) BY DEF Weighed
  <2>2. PICK s \in Bad : \A t \in Bad : t \subseteq s => t = s
    <3> HIDE DEF Bad
    <3> QED BY <2>1, MinimalSubset
  <2>3. s \in SUBSET S /\ T \subseteq s /\ ~(BytesOf(T) <= BytesOf(s)) BY <2>2
  <2>4. T # s BY <1>1, <2>3
  <2>5. PICK x \in s : x \notin T BY <2>3, <2>4
  <2> DEFINE r == s \ {x}
  <2>6. r \subseteq s /\ r # s /\ T \subseteq r BY <2>3, <2>5
  <2>7. r \notin Bad
    <3> HIDE DEF Bad
    <3> QED BY <2>2, <2>6
  <2>8. BytesOf(T) <= BytesOf(r) BY <2>3, <2>6, <2>7
  <2>9. BytesOf(s) = x.bytes + BytesOf(r) BY <1>1, <2>3, BytesRemove
  <2>10. /\ BytesOf(T) \in Nat /\ BytesOf(r) \in Nat /\ BytesOf(s) \in Nat
         /\ x.bytes \in Nat
    BY <1>1, <2>3, <2>6 DEF Weighed
  <2> HIDE DEF r
  <2> QED BY <2>3, <2>8, <2>9, <2>10
<1>3. S \in SUBSET S OBVIOUS
<1> QED BY <1>2, <1>3

-----------------------------------------------------------------------------
(* Each part of Flow is preserved.                                         *)

\* A chunk being built has not been sent, and no other worker builds it.
LEMMA BuildingNew ==
  ASSUME IInv, NEW w \in Workers, Busy(w)
  PROVE  /\ building[w] \notin Sent
         /\ \A c \in Sent : c.job = building[w].job => c.sub < building[w].sub
         /\ \A v \in Workers \ {w} : Busy(v) => building[v] # building[w]
<1>1. ASSUME NEW c \in Sent, c.job = building[w].job PROVE c.sub < building[w].sub
  <2>1. Place(c) \in emitted /\ Place(c).job = c.job /\ Place(c).sub = c.sub
    BY DEF IInv, InOrder, SentEmitted, Place
  <2> QED BY <1>1, <2>1 DEF IInv, InOrder, BuildingContinues
<1>2. building[w].sub \in Nat BY DEF IInv, TypeOK, Chunk
<1>3. building[w] \notin Sent BY <1>1, <1>2
<1>4. \A v \in Workers \ {w} : Busy(v) => building[v] # building[w]
  BY DEF IInv, InOrder, JobsOwned
<1> QED BY <1>1, <1>3, <1>4

\* How the chunks that wait for the writer change.
LEMMA SendWaiting ==
  ASSUME IInv, NEW w \in Workers, Send(w)
  PROVE  /\ Waiting' = Waiting \cup {building[w]}
         /\ UNCHANGED <<writerVars, budgetVars>>
         /\ Busy(w)
<1>1. resultsCh \in Seq(Chunk) /\ building[w] \in Chunk BY DEF IInv, TypeOK
<1>2. ToSet(resultsCh') = ToSet(resultsCh) \cup {building[w]}
  BY <1>1, ToSetAppend DEF Send
<1> QED BY <1>2 DEF Send, Waiting, writerVars, Busy

\* Receiving moves a chunk from the channel to the reorder buffer.
LEMMA ReceiveWaiting ==
  ASSUME IInv, Receive
  PROVE  Waiting' = Waiting
<1>1. resultsCh \in Seq(Chunk) /\ resultsCh # <<>> BY DEF IInv, TypeOK, Receive
<1>2. ToSet(resultsCh) = {Head(resultsCh)} \cup ToSet(resultsCh')
  BY <1>1, ToSetHeadTail DEF Receive
<1> QED BY <1>2 DEF Receive, Waiting

\* Picking takes the due chunk out of what waits.
LEMMA PickWaiting ==
  ASSUME OnceInFlight, Pick
  PROVE  /\ current' \in Waiting
         /\ Due(current')
         /\ Waiting' = Waiting \ {current'}
BY DEF Pick, OnceInFlight, Waiting, Due

\* A chunk sent is new, and receiving and picking only move it.
LEMMA OnceInFlightStep ==
  IInv /\ OnceInFlight /\ [Next]_vars => OnceInFlight'
<1> SUFFICES ASSUME IInv, OnceInFlight, [Next]_vars PROVE OnceInFlight' OBVIOUS
<1>0. /\ TypeOK /\ resultsCh \in Seq(Chunk)
      /\ \A i, k \in 1 .. Len(resultsCh) : resultsCh[i] = resultsCh[k] => i = k
      /\ ToSet(resultsCh) \cap reorder = {}
      /\ wpc = "apply" => current \notin Waiting
      /\ \A c, d \in Sent : c.job = d.job /\ c.sub = d.sub => c = d
  BY DEF IInv, TypeOK, OnceInFlight
<1>1. ASSUME NEW w \in Workers, Send(w) PROVE OnceInFlight'
  <2> DEFINE b == building[w]
  <2>1. Waiting' = Waiting \cup {b} /\ UNCHANGED writerVars /\ Busy(w)
    BY <1>1, SendWaiting
  <2>2. b \notin Sent /\ \A c \in Sent : c.job = b.job => c.sub < b.sub
    BY <2>1, BuildingNew
  <2>3. b \in Chunk /\ resultsCh' = Append(resultsCh, b)
          /\ ToSet(resultsCh') = ToSet(resultsCh) \cup {b}
    BY <1>0, <1>1, ToSetAppend DEF Send, TypeOK
  <2>4. \A i, k \in 1 .. Len(resultsCh') : resultsCh'[i] = resultsCh'[k] => i = k
    BY <1>0, <2>2, <2>3, DistinctAppend DEF Sent
  <2>5. Sent' = Sent \cup {b} BY <1>0, <1>1, SendAddsChunk
  <2>6. \A c \in Sent : c.sub \in Nat
    <3>1. Sent \subseteq Chunk BY <1>0, ToSetType DEF Sent, TypeOK
    <3> QED BY <3>1 DEF Chunk
  <2>7. b.sub \in Nat BY <2>3 DEF Chunk
  <2>8. \A c, d \in Sent' : c.job = d.job /\ c.sub = d.sub => c = d
    BY <1>0, <2>2, <2>5, <2>6, <2>7
  <2>9. wpc' = "apply" => current' \notin Waiting'
    BY <1>0, <2>1, <2>2 DEF writerVars, Sent
  <2>10. ToSet(resultsCh') \cap reorder' = {}
    BY <1>0, <2>1, <2>2, <2>3 DEF writerVars, Sent
  <2> QED BY <2>4, <2>8, <2>9, <2>10 DEF OnceInFlight
<1>2. CASE Receive
  <2>1. resultsCh' = Tail(resultsCh) /\ reorder' = reorder \cup {Head(resultsCh)}
          /\ resultsCh # <<>> /\ wpc' = "pick"
    BY <1>2 DEF Receive
  <2>2. /\ \A i, k \in 1 .. Len(resultsCh') : resultsCh'[i] = resultsCh'[k] => i = k
        /\ Head(resultsCh) \notin ToSet(resultsCh')
    BY <1>0, <2>1, DistinctTail
  <2>3. ToSet(resultsCh') \subseteq ToSet(resultsCh) BY <1>0, <2>1, ToSetTail
  <2>4. Waiting' = Waiting BY <1>2, ReceiveWaiting
  <2>5. Sent' \subseteq Sent BY <2>1, <2>4 DEF Sent, Waiting
  <2> QED BY <1>0, <2>1, <2>2, <2>3, <2>5 DEF OnceInFlight
<1>3. CASE Pick
  <2>1. /\ current' \in Waiting
        /\ Waiting' = Waiting \ {current'}
    BY <1>3, PickWaiting
  <2>2. UNCHANGED resultsCh /\ reorder' \subseteq reorder BY <1>3 DEF Pick
  <2>3. Sent' \subseteq Sent BY <2>1 DEF Sent, Waiting
  <2> QED BY <1>0, <2>1, <2>2, <2>3 DEF OnceInFlight
<1>4. ASSUME UNCHANGED <<resultsCh, reorder>>,
             wpc' = "apply" => wpc = "apply" /\ current' = current
      PROVE  OnceInFlight'
  <2>1. Waiting' = Waiting BY <1>4 DEF Waiting
  <2>2. Sent' \subseteq Sent BY <1>4 DEF Sent
  <2> QED BY <1>0, <1>4, <2>1, <2>2 DEF OnceInFlight
<1>5. ASSUME NEW w \in Workers, Worker(w), ~Send(w)
      PROVE  UNCHANGED <<resultsCh, reorder, wpc, current>>
  BY <1>5 DEF Worker, TakeJob, Exit, DecodePage, FinishJob, Acquire, Block, writerVars
<1>6. ASSUME NothingDue \/ ApplyPage \/ Release \/ Advance \/ ResultsClosed
      PROVE  /\ UNCHANGED <<resultsCh, reorder>>
             /\ wpc' = "apply" => wpc = "apply" /\ current' = current
  BY <1>6 DEF NothingDue, ApplyPage, Release, Advance, ResultsClosed
<1>7. ASSUME UNCHANGED vars PROVE UNCHANGED <<resultsCh, reorder, wpc, current>>
  BY <1>7 DEF vars
<1> QED BY <1>1, <1>2, <1>3, <1>4, <1>5, <1>6, <1>7 DEF Next, Writer, Returned

\* A job's last chunk is sent by its owner, once, after all the others.
LEMMA JobsEndOnceStep ==
  IInv /\ JobsEndOnce /\ [Next]_vars => JobsEndOnce'
<1> SUFFICES ASSUME IInv, JobsEndOnce, [Next]_vars PROVE JobsEndOnce' OBVIOUS
<1>0. /\ TypeOK /\ JobsOwned
      /\ \A d \in emitted : d.last =>
           /\ \A e \in emitted : e.job = d.job => e.sub <= d.sub
           /\ \A w \in Workers : Busy(w) => building[w].job # d.job
      /\ \A e \in emitted : \A s \in 0 .. e.sub - 1 :
           \E d \in emitted : d.job = e.job /\ d.sub = s
  BY DEF IInv, InOrder, JobsEndOnce
<1>1. ASSUME NEW w \in Workers, TakeJob(w) PROVE JobsEndOnce'
  <2>1. /\ emitted' = emitted
        /\ building'[w].job = nextJob
        /\ \A v \in Workers \ {w} :
             building'[v] = building[v] /\ (Busy(v)' <=> Busy(v))
    BY <1>0, <1>1 DEF TakeJob, NewChunk, TypeOK, Busy
  <2>2. \A e \in emitted : e.job # nextJob BY <1>0 DEF JobsOwned, TypeOK
  <2>3. ASSUME NEW d \in emitted, d.last, NEW v \in Workers, Busy(v)'
        PROVE  building'[v].job # d.job
    BY <1>0, <2>1, <2>2, <2>3
  <2> QED BY <1>0, <2>1, <2>3 DEF JobsEndOnce
<1>2. ASSUME NEW w \in Workers, Send(w) PROVE JobsEndOnce'
  <2> DEFINE b == building[w]
             n == Place(b)
  <2>1. /\ emitted' = emitted \cup {n}
        /\ Busy(w)
        /\ n.job = b.job /\ n.sub = b.sub /\ n.last = b.last
        /\ Busy(w)' => ~b.last /\ building'[w].job = b.job
        /\ \A v \in Workers \ {w} :
             building'[v] = building[v] /\ (Busy(v)' <=> Busy(v))
    BY <1>0, <1>2 DEF Send, Successor, NewChunk, TypeOK, Busy, Place
  <2>2. /\ \A e \in emitted : e.job = b.job => e.sub < b.sub
        /\ b.sub > 0 => \E e \in emitted : e.job = b.job /\ b.sub = e.sub + 1
    BY <2>1 DEF IInv, InOrder, BuildingContinues
  <2>3. \A v \in Workers \ {w} : Busy(v) => building[v].job # b.job
    BY <1>0, <2>1 DEF JobsOwned
  <2>4. \A e \in emitted : e.last => e.job # b.job BY <1>0, <2>1
  <2>5. b.sub \in Nat /\ \A e \in emitted : e.sub \in Nat
    BY <1>0 DEF TypeOK, Chunk
  <2> HIDE DEF n, b
  <2>6. ASSUME NEW d \in emitted', d.last
        PROVE  /\ \A e \in emitted' : e.job = d.job => e.sub <= d.sub
               /\ \A v \in Workers : Busy(v)' => building'[v].job # d.job
    <3>1. CASE d \in emitted
      <4>1. d.job # b.job BY <2>4, <2>6, <3>1
      <4>2. \A e \in emitted' : e.job = d.job => e.sub <= d.sub
        BY <1>0, <2>1, <2>6, <3>1, <4>1
      <4>3. \A v \in Workers : Busy(v)' => building'[v].job # d.job
        BY <1>0, <2>1, <2>6, <3>1, <4>1
      <4> QED BY <4>2, <4>3
    <3>2. CASE d = n
      <4>1. \A e \in emitted' : e.job = d.job => e.sub <= d.sub
        BY <2>1, <2>2, <2>5, <3>2
      <4>2. \A v \in Workers : Busy(v)' => building'[v].job # d.job
        BY <2>1, <2>3, <2>6, <3>2
      <4> QED BY <4>1, <4>2
    <3> QED BY <2>1, <3>1, <3>2
  <2>7. ASSUME NEW e \in emitted', NEW s \in 0 .. e.sub - 1
        PROVE  \E d \in emitted' : d.job = e.job /\ d.sub = s
    <3>1. CASE e \in emitted BY <1>0, <2>1, <3>1
    <3>2. CASE e = n
      <4>1. PICK p \in emitted : p.job = b.job /\ b.sub = p.sub + 1
        BY <2>1, <2>2, <2>5, <3>2
      <4>2. CASE s = p.sub BY <2>1, <3>2, <4>1, <4>2
      <4>3. CASE s # p.sub
        <5>1. s \in 0 .. p.sub - 1 BY <2>1, <2>5, <3>2, <4>1, <4>3
        <5> QED BY <1>0, <2>1, <3>2, <4>1, <5>1
      <4> QED BY <4>2, <4>3
    <3> QED BY <2>1, <3>1, <3>2
  <2> QED BY <2>6, <2>7 DEF JobsEndOnce
<1>3. ASSUME Steady, \A v \in Workers : building'[v].job = building[v].job
      PROVE  JobsEndOnce'
  <2>1. emitted' = emitted /\ \A v \in Workers : Busy(v)' <=> Busy(v)
    BY <1>3 DEF Steady
  <2> QED BY <1>0, <1>3, <2>1 DEF JobsEndOnce
<1>4. ASSUME NEW w \in Workers, Exit(w) PROVE JobsEndOnce'
  <2>1. Steady /\ building' = building
    BY <1>0, <1>4 DEF Exit, TypeOK, Busy, Steady
  <2> QED BY <1>3, <2>1
<1>5. ASSUME NEW w \in Workers, Local(w) PROVE JobsEndOnce'
  BY <1>0, <1>3, <1>5, LocalSteady, LocalChunk
<1>6. CASE Writer BY <1>0, <1>3, <1>6, WriterSteady
<1>7. CASE UNCHANGED vars BY <1>3, <1>7 DEF vars, Steady, Busy
<1> QED
  BY <1>1, <1>2, <1>4, <1>5, <1>6, <1>7 DEF Next, Worker, Returned, Local

\* The batches are enough for the pages.
LEMMA NumBatchesType ==
  /\ NumBatches \in Nat
  /\ NumPages <= NumBatches * BatchPages
<1> DEFINE q == NumBatches
<1>1. NumPages \in Nat /\ BatchPages \in Nat /\ BatchPages > 0
  BY PipelineAssumption, BookAssumption
<1>2. q \in Int /\ q >= 0 /\ NumPages + BatchPages - 1 < q * BatchPages + BatchPages
  BY <1>1 DEF NumBatches
<1> HIDE DEF q
<1>3. q * BatchPages \in Int BY <1>1, <1>2
<1>4. NumPages <= q * BatchPages BY <1>1, <1>2, <1>3
<1> QED BY <1>2, <1>4 DEF q

\* A job handed out stays with its owner until its last chunk is sent.
LEMMA JobsAccountedStep ==
  IInv /\ JobsAccounted /\ [Next]_vars => JobsAccounted'
<1> SUFFICES ASSUME IInv, JobsAccounted, [Next]_vars PROVE JobsAccounted' OBVIOUS
<1>0. /\ TypeOK /\ nextJob \in Nat /\ NumBatches \in Nat
      /\ nextJob <= NumBatches
      /\ \A w \in Workers : pc[w] = "exit" => nextJob = NumBatches
      /\ \A j \in 0 .. nextJob - 1 :
           Ended(j) \/ \E w \in Workers : Busy(w) /\ building[w].job = j
  BY NumBatchesType DEF IInv, TypeOK, JobsAccounted
<1>1. ASSUME NEW w \in Workers, TakeJob(w) PROVE JobsAccounted'
  <2>1. /\ emitted' = emitted /\ nextJob' = nextJob + 1 /\ nextJob \in Jobs
        /\ Busy(w)' /\ building'[w].job = nextJob /\ ~Busy(w) /\ pc'[w] # "exit"
        /\ \A v \in Workers \ {w} : pc'[v] = pc[v]
        /\ \A v \in Workers \ {w} :
             building'[v] = building[v] /\ (Busy(v)' <=> Busy(v))
    BY <1>0, <1>1 DEF TakeJob, NewChunk, TypeOK, Busy
  <2>2. nextJob < NumBatches BY <1>0, <2>1 DEF Jobs
  <2>3. \A j : Ended(j)' <=> Ended(j) BY <2>1 DEF Ended
  <2>4. ASSUME NEW j \in 0 .. nextJob' - 1
        PROVE  Ended(j)' \/ \E v \in Workers : Busy(v)' /\ building'[v].job = j
    <3>1. CASE j = nextJob BY <2>1, <3>1
    <3>2. CASE j # nextJob
      <4>1. j \in 0 .. nextJob - 1 BY <1>0, <2>1, <3>2
      <4>2. CASE Ended(j) BY <2>3, <4>2
      <4>3. CASE \E v \in Workers : Busy(v) /\ building[v].job = j
        BY <2>1, <4>3
      <4> QED BY <1>0, <4>1, <4>2, <4>3
    <3> QED BY <3>1, <3>2
  <2>5. nextJob' <= NumBatches BY <1>0, <2>1, <2>2
  <2>6. \A v \in Workers : pc'[v] # "exit" BY <1>0, <2>1, <2>2
  <2> QED BY <2>4, <2>5, <2>6 DEF JobsAccounted, NumBatches
<1>2. ASSUME NEW w \in Workers, Exit(w) PROVE JobsAccounted'
  <2>1. Steady /\ building' = building /\ nextJob \notin Jobs
          /\ \A v \in Workers \ {w} : pc'[v] = pc[v]
    BY <1>0, <1>2 DEF Exit, TypeOK, Busy, Steady
  <2>2. nextJob = NumBatches BY <1>0, <2>1 DEF Jobs
  <2> QED BY <1>0, <2>1, <2>2 DEF JobsAccounted, Steady, Ended, NumBatches
<1>3. ASSUME NEW w \in Workers, Send(w) PROVE JobsAccounted'
  <2> DEFINE b == building[w]
  <2>1. /\ emitted' = emitted \cup {Place(b)} /\ nextJob' = nextJob
        /\ Place(b).job = b.job /\ Place(b).last = b.last
        /\ ~b.last => Busy(w)' /\ building'[w].job = b.job
        /\ pc'[w] # "exit" /\ \A v \in Workers \ {w} : pc'[v] = pc[v]
        /\ \A v \in Workers \ {w} :
             building'[v] = building[v] /\ (Busy(v)' <=> Busy(v))
    BY <1>0, <1>3 DEF Send, Successor, NewChunk, TypeOK, Busy, Place
  <2>2. ASSUME NEW j \in 0 .. nextJob' - 1
        PROVE  Ended(j)' \/ \E v \in Workers : Busy(v)' /\ building'[v].job = j
    <3>1. CASE Ended(j) BY <2>1, <3>1 DEF Ended
    <3>2. CASE \E v \in Workers \ {w} : Busy(v) /\ building[v].job = j
      BY <2>1, <3>2
    <3>3. CASE b.job = j /\ b.last BY <2>1, <3>3 DEF Ended
    <3>4. CASE b.job = j /\ ~b.last BY <2>1, <3>4
    <3> QED BY <1>0, <2>1, <3>1, <3>2, <3>3, <3>4
  <2> QED BY <1>0, <2>1, <2>2 DEF JobsAccounted, NumBatches
<1>4. ASSUME Steady, \A v \in Workers : building'[v].job = building[v].job,
             \A v \in Workers : pc'[v] = "exit" => pc[v] = "exit"
      PROVE  JobsAccounted'
  <2>1. emitted' = emitted /\ nextJob' = nextJob /\ \A v \in Workers : Busy(v)' <=> Busy(v)
    BY <1>4 DEF Steady
  <2> QED BY <1>0, <1>4, <2>1 DEF JobsAccounted, Ended, NumBatches
<1>5. ASSUME NEW w \in Workers, Local(w) PROVE JobsAccounted'
  <2>1. \A v \in Workers : pc'[v] = "exit" => pc[v] = "exit"
    BY <1>0, <1>5 DEF Local, DecodePage, FinishJob, Acquire, Block, TypeOK
  <2> QED BY <1>0, <1>4, <1>5, <2>1, LocalSteady, LocalChunk
<1>6. CASE Writer
  <2>1. \A v \in Workers : pc'[v] = "exit" => pc[v] = "exit"
    BY <1>0, <1>6 DEF Writer, Receive, Pick, NothingDue, ApplyPage, Release,
                      Advance, ResultsClosed, Awake, TypeOK, workerVars
  <2> QED BY <1>0, <1>4, <1>6, <2>1, WriterSteady
<1>7. CASE UNCHANGED vars BY <1>4, <1>7 DEF vars, Steady, Busy
<1> QED
  BY <1>1, <1>2, <1>3, <1>5, <1>6, <1>7 DEF Next, Worker, Returned, Local

\* Where the writer stands, chunk by chunk of its job.
LEMMA AheadMoves ==
  ASSUME NEW c, UNCHANGED <<curJob, curSub>>,
         (wpc' = "advance") <=> (wpc = "advance"),
         (wpc' = "apply") <=> (wpc = "apply")
  PROVE  Ahead(c)' <=> Ahead(c)
BY DEF Ahead

\* A job that has ended has ended for good.
LEMMA EndedStays ==
  ASSUME [Next]_vars, TypeOK
  PROVE  /\ emitted \subseteq emitted'
         /\ \A j : Ended(j) => Ended(j)'
<1>1. ASSUME NEW w \in Workers, Worker(w) PROVE emitted \subseteq emitted'
  BY <1>1 DEF Worker, TakeJob, Exit, DecodePage, FinishJob, Acquire, Block, Send
<1>2. ASSUME Writer PROVE emitted \subseteq emitted'
  BY <1>2, WriterSteady DEF Steady
<1>3. ASSUME UNCHANGED vars PROVE emitted \subseteq emitted' BY <1>3 DEF vars
<1>4. emitted \subseteq emitted' BY <1>1, <1>2, <1>3 DEF Next, Returned
<1> QED BY <1>4 DEF Ended

\* The chunk the writer applies is the one its position names.
LEMMA CurrentSent ==
  ASSUME IInv, wpc = "apply"
  PROVE  /\ Place(current) \in emitted
         /\ Place(current).job = curJob /\ Place(current).sub = curSub
         /\ Place(current).last = current.last
<1>1. Place(current) \in emitted BY DEF IInv, InOrder, SentEmitted, Sent
<1>2. Due(current) BY DEF IInv, InOrder, WriterInPlace
<1> QED BY <1>1, <1>2 DEF Due, Place

\* The writer's place moves exactly past the chunk it took.
LEMMA NothingSkippedStep ==
  IInv /\ Flow /\ [Next]_vars => NothingSkipped'
<1> SUFFICES ASSUME IInv, Flow, [Next]_vars PROVE NothingSkipped' OBVIOUS
<1>0. /\ TypeOK /\ curJob \in Nat /\ curSub \in Nat
      /\ applyingJob = curJob
      /\ \A j \in 0 .. curJob - 1 : Ended(j)
      /\ \A c \in Waiting : Ahead(c)
      /\ \A e \in emitted : Ahead(e) => \E c \in Waiting : Place(c) = e
      /\ wpc = "advance" => Ended(curJob)
      /\ wpc # "advance" /\ curSub > 0 =>
           \E e \in emitted : e.job = curJob /\ e.sub = curSub - 1 /\ ~e.last
      /\ wpc \in {"recv", "done"} => \A c \in reorder : ~Due(c)
  BY DEF IInv, TypeOK, Flow, NothingSkipped
<1>1. /\ \A d \in emitted : d.last =>
           /\ \A e \in emitted : e.job = d.job => e.sub <= d.sub
           /\ \A w \in Workers : Busy(w) => building[w].job # d.job
      /\ \A c, d \in Sent : c.job = d.job /\ c.sub = d.sub => c = d
      /\ \A c \in Sent : Place(c) \in emitted
      /\ \A e \in emitted : e.job \in Nat /\ e.sub \in Nat
  BY DEF IInv, TypeOK, InOrder, SentEmitted, Flow, JobsEndOnce, OnceInFlight
<1>2. /\ emitted \subseteq emitted'
      /\ \A j : Ended(j) => Ended(j)'
  BY <1>0, EndedStays
<1>3. \A c : Ahead(Place(c)) <=> Ahead(c) BY DEF Ahead, Place
<1>4. ASSUME UNCHANGED <<Waiting, emitted, wpc, curJob, curSub, applyingJob, reorder>>
      PROVE  NothingSkipped'
  BY <1>0, <1>4 DEF NothingSkipped, Ahead, Due, Ended
<1>5. ASSUME NEW w \in Workers, Send(w) PROVE NothingSkipped'
  <2> DEFINE b == building[w]
  <2>1. /\ Waiting' = Waiting \cup {b} /\ UNCHANGED <<writerVars, applyingJob>> /\ Busy(w)
        /\ emitted' = emitted \cup {Place(b)}
        /\ UNCHANGED <<wpc, curJob, curSub, reorder>>
    BY <1>5, SendWaiting DEF Send, writerVars, budgetVars
  <2>2. /\ \A e \in emitted : e.job = b.job => e.sub < b.sub
        /\ b.job \in Nat /\ b.sub \in Nat
    BY <1>0, <2>1 DEF IInv, InOrder, BuildingContinues, TypeOK, Chunk
  <2>3. ~Ended(b.job) BY <1>1, <2>1 DEF Ended
  <2>4. b.job >= curJob BY <1>0, <2>2, <2>3
  <2>5. Ahead(b)
    <3>1. CASE b.job # curJob BY <1>0, <2>2, <2>4, <3>1 DEF Ahead
    <3>2. CASE b.job = curJob
      <4>1. wpc # "advance" BY <1>0, <2>3, <3>2
      <4>2. CASE wpc = "apply"
        <5>1. curSub < b.sub BY <2>2, <3>2, <4>2, CurrentSent
        <5> QED BY <3>2, <4>2, <5>1 DEF Ahead
      <4>3. CASE wpc # "apply"
        <5>1. curSub > 0 => curSub - 1 < b.sub
          BY <1>0, <2>2, <3>2, <4>1
        <5>2. b.sub >= curSub BY <1>0, <2>2, <5>1
        <5> QED BY <3>2, <4>1, <4>3, <5>2 DEF Ahead
      <4> QED BY <4>2, <4>3
    <3> QED BY <3>1, <3>2
  <2>6. \A c : Ahead(c)' <=> Ahead(c) BY <2>1, AheadMoves
  <2>7. \A c \in Waiting' : Ahead(c)' BY <1>0, <2>1, <2>5, <2>6
  <2>8. \A e \in emitted' : Ahead(e)' => \E c \in Waiting' : Place(c)' = e
    <3>1. \A c : Place(c)' = Place(c) BY DEF Place
    <3> QED BY <1>0, <2>1, <2>6, <3>1
  <2> QED BY <1>0, <1>2, <2>1, <2>7, <2>8 DEF NothingSkipped, Due
<1>6. ASSUME NEW w \in Workers, Worker(w), ~Send(w) PROVE NothingSkipped'
  <2>1. UNCHANGED <<resultsCh, reorder, emitted, wpc, curJob, curSub, applyingJob>>
    BY <1>6 DEF Worker, TakeJob, Exit, DecodePage, FinishJob, Acquire, Block,
                writerVars, budgetVars
  <2> QED BY <1>4, <2>1 DEF Waiting
<1>7. CASE Receive
  <2>1. /\ Waiting' = Waiting /\ wpc = "recv" /\ wpc' = "pick"
        /\ UNCHANGED <<emitted, curJob, curSub, applyingJob>>
    BY <1>7, ReceiveWaiting DEF Receive, budgetVars
  <2>2. \A c : Ahead(c)' <=> Ahead(c) BY <2>1, AheadMoves
  <2> QED BY <1>0, <1>2, <2>1, <2>2 DEF NothingSkipped, Place
<1>8. CASE Pick
  <2> DEFINE c == current'
  <2>1. c \in Waiting /\ Due(c) /\ Waiting' = Waiting \ {c}
    BY <1>8, PickWaiting DEF Flow
  <2>2. /\ wpc = "pick" /\ wpc' = "apply"
        /\ UNCHANGED <<emitted, curJob, curSub, applyingJob>>
    BY <1>8 DEF Pick, budgetVars
  <2>3. ASSUME NEW d, d.job \in Nat, d.sub \in Nat
        PROVE  Ahead(d)' <=> Ahead(d) /\ ~(d.job = c.job /\ d.sub = c.sub)
    <3>1. c.job = curJob /\ c.sub = curSub BY <2>1 DEF Due
    <3> HIDE DEF c
    <3> QED BY <1>0, <2>2, <2>3, <3>1 DEF Ahead
  <2>4. ASSUME NEW d \in Waiting'
        PROVE  d \in Sent /\ d # c /\ d.job \in Nat /\ d.sub \in Nat
    <3>1. d \in Waiting /\ d # c BY <2>1
    <3>2. d \in Sent BY <3>1 DEF Waiting, Sent
    <3>3. Place(d) \in emitted /\ Place(d).job = d.job /\ Place(d).sub = d.sub
      BY <1>1, <3>2 DEF Place
    <3> QED BY <1>1, <3>1, <3>2, <3>3
  <2>5. c \in Sent BY <2>1 DEF Waiting, Sent
  <2>6. \A d \in Waiting' : Ahead(d)'
    BY <1>0, <1>1, <2>1, <2>3, <2>4, <2>5
  <2>7. ASSUME NEW e \in emitted', Ahead(e)'
        PROVE  \E d \in Waiting' : Place(d)' = e
    <3>1. e \in emitted /\ Ahead(e) /\ ~(e.job = c.job /\ e.sub = c.sub)
      BY <1>1, <2>2, <2>3, <2>7
    <3>2. PICK d \in Waiting : Place(d) = e BY <1>0, <3>1
    <3>3. d # c BY <3>1, <3>2 DEF Place
    <3> QED BY <2>1, <3>2, <3>3 DEF Place
  <2> HIDE DEF c
  <2> QED BY <1>0, <1>2, <2>2, <2>6, <2>7 DEF NothingSkipped
<1>9. CASE NothingDue
  <2>1. /\ wpc = "pick" /\ wpc' = "recv" /\ \A c \in reorder : ~Due(c)
        /\ UNCHANGED <<emitted, curJob, curSub, applyingJob, reorder, resultsCh>>
    BY <1>9 DEF NothingDue, budgetVars
  <2>2. \A c : Ahead(c)' <=> Ahead(c) BY <2>1, AheadMoves
  <2>3. Waiting' = Waiting BY <2>1 DEF Waiting
  <2> QED BY <1>0, <1>2, <2>1, <2>2, <2>3 DEF NothingSkipped, Place, Due
<1>10. CASE ApplyPage
  <2>1. UNCHANGED <<resultsCh, reorder, emitted, wpc, curJob, curSub, applyingJob>>
    BY <1>10 DEF ApplyPage, budgetVars
  <2> QED BY <1>4, <2>1 DEF Waiting
<1>11. CASE Release
  <2>1. /\ wpc = "apply" /\ UNCHANGED <<emitted, curJob, applyingJob, reorder, resultsCh>>
        /\ IF current.last THEN wpc' = "advance" /\ UNCHANGED curSub
                           ELSE wpc' = "pick" /\ curSub' = curSub + 1
    BY <1>11 DEF Release
  <2>2. Waiting' = Waiting BY <2>1 DEF Waiting
  <2>3. /\ Place(current) \in emitted
        /\ Place(current).job = curJob /\ Place(current).sub = curSub
        /\ Place(current).last = current.last
    BY <2>1, CurrentSent
  <2>4. ASSUME NEW d, d.job \in Nat, d.sub \in Nat
        PROVE  Ahead(d)' <=> Ahead(d) /\ (current.last => d.job # curJob)
    BY <1>0, <2>1, <2>4 DEF Ahead
  <2>5. ASSUME NEW d \in Waiting
        PROVE  /\ d.job \in Nat /\ d.sub \in Nat
               /\ Place(d) \in emitted /\ Place(d).job = d.job /\ Place(d).sub = d.sub
    <3>1. d \in Sent BY DEF Waiting, Sent
    <3> QED BY <1>1, <3>1 DEF Place
  <2>6. ASSUME NEW d \in Waiting, current.last PROVE d.job # curJob
    <3> DEFINE l == Place(current)
               e == Place(d)
    <3>2. l \in emitted /\ l.last /\ l.job = curJob /\ l.sub = curSub BY <2>3, <2>6
    <3>3. e \in emitted /\ e.job = d.job /\ e.sub = d.sub BY <2>5
    <3> HIDE DEF l, e
    <3>4. e.job = l.job => e.sub <= l.sub BY <1>1, <3>2, <3>3
    <3>1. d.job = curJob => d.sub <= curSub BY <3>2, <3>3, <3>4
    <3> QED BY <1>0, <2>1, <2>5, <3>1 DEF Ahead
  <2>7. \A d \in Waiting' : Ahead(d)' BY <1>0, <2>2, <2>4, <2>5, <2>6
  <2>8. \A e \in emitted' : Ahead(e)' => \E d \in Waiting' : Place(d)' = e
    <3>1. \A d : Place(d)' = Place(d) BY DEF Place
    <3> QED BY <1>0, <1>1, <2>1, <2>2, <2>4, <3>1
  <2>9. wpc' = "advance" => Ended(curJob)' BY <1>2, <2>1, <2>3 DEF Ended
  <2>10. wpc' # "advance" /\ curSub' > 0 =>
           \E e \in emitted' : e.job = curJob' /\ e.sub = curSub' - 1 /\ ~e.last
    BY <1>0, <2>1, <2>3
  <2>11. wpc' \notin {"recv", "done"} BY <2>1
  <2> QED BY <1>0, <1>2, <2>1, <2>7, <2>8, <2>9, <2>10, <2>11 DEF NothingSkipped
<1>12. CASE Advance
  <2>1. /\ wpc = "advance" /\ wpc' = "pick" /\ curJob' = curJob + 1 /\ curSub' = 0
        /\ applyingJob' = curJob + 1 /\ UNCHANGED <<emitted, reorder, resultsCh>>
    BY <1>12 DEF Advance
  <2>2. Waiting' = Waiting BY <2>1 DEF Waiting
  <2>3. ASSUME NEW d, d.job \in Nat, d.sub \in Nat PROVE Ahead(d)' <=> Ahead(d)
    BY <1>0, <2>1, <2>3 DEF Ahead
  <2>4. ASSUME NEW d \in Waiting PROVE d.job \in Nat /\ d.sub \in Nat
    <3>1. d \in Sent BY DEF Waiting, Sent
    <3> QED BY <1>1, <3>1 DEF Place
  <2>5. \A d \in Waiting' : Ahead(d)' BY <1>0, <2>2, <2>3, <2>4
  <2>6. \A e \in emitted' : Ahead(e)' => \E d \in Waiting' : Place(d)' = e
    <3>1. \A d : Place(d)' = Place(d) BY DEF Place
    <3> QED BY <1>0, <1>1, <2>1, <2>2, <2>3, <3>1
  <2>7. \A j \in 0 .. curJob' - 1 : Ended(j)' BY <1>0, <1>2, <2>1
  <2> QED BY <1>0, <2>1, <2>5, <2>6, <2>7 DEF NothingSkipped
<1>13. CASE ResultsClosed
  <2>1. /\ wpc = "recv" /\ wpc' = "done"
        /\ UNCHANGED <<emitted, curJob, curSub, applyingJob, reorder, resultsCh>>
    BY <1>13 DEF ResultsClosed, budgetVars
  <2>2. \A c : Ahead(c)' <=> Ahead(c) BY <2>1, AheadMoves
  <2>3. Waiting' = Waiting BY <2>1 DEF Waiting
  <2> QED BY <1>0, <1>2, <2>1, <2>2, <2>3 DEF NothingSkipped, Place, Due
<1>14. CASE UNCHANGED vars
  <2>1. UNCHANGED <<resultsCh, reorder, emitted, wpc, curJob, curSub, applyingJob>>
    BY <1>14 DEF vars
  <2> QED BY <1>4, <2>1 DEF Waiting
<1> QED
  BY <1>5, <1>6, <1>7, <1>8, <1>9, <1>10, <1>11, <1>12, <1>13, <1>14
  DEF Next, Writer, Returned

\* The largest page is a size, and no page is larger.
LEMMA LargestPageBounds ==
  ASSUME NEW d \in [Pages -> PageResult], disk = d
  PROVE  LargestPage \in Nat /\ \A p \in Pages : disk[p].bytes <= LargestPage
<1> DEFINE f == [p \in 0 .. NumPages - 1 |-> d[p].bytes]
           T == {disk[p].bytes : p \in Pages} \cup {0}
<1>1. f \in [0 .. NumPages - 1 -> Nat] BY DEF Pages, PageResult
<1>2. NumPages \in Nat BY BookAssumption
<1> HIDE DEF f
<1>3. PICK b \in Nat : \A p \in 0 .. NumPages - 1 : f[p] <= b
  BY <1>1, <1>2, SegmentBounded
<1>4. \A p \in Pages : disk[p].bytes \in Nat /\ disk[p].bytes <= b
  BY <1>1, <1>3 DEF Pages, f
<1>5. T \in SUBSET Nat /\ T # {} /\ \A m \in T : m <= b BY <1>4
<1> HIDE DEF T
<1>6. PICK n \in T : \A m \in T : m <= n BY <1>3, <1>5, GreatestNat
<1>7. n \in T /\ \A m \in T : n >= m BY <1>5, <1>6
<1>8. Max(T) \in T /\ \A m \in T : Max(T) >= m BY <1>7 DEF Max
<1>9. LargestPage = Max(T) BY DEF LargestPage, T
<1>10. \A p \in Pages : disk[p].bytes \in T BY DEF T
<1> QED BY <1>4, <1>5, <1>8, <1>9, <1>10

\* Max of two
LEMMA MaxOfTwo ==
  ASSUME NEW a \in Nat, NEW b \in Nat
  PROVE  Max({a, b}) \in Nat /\ a <= Max({a, b}) /\ b <= Max({a, b})
<1> DEFINE T == {a, b}
<1>1. \E n \in T : \A m \in T : n >= m
  <2>1. CASE a >= b BY <2>1
  <2>2. CASE b >= a BY <2>2
  <2> QED BY <2>1, <2>2
<1> HIDE DEF T
<1>2. Max(T) \in T /\ \A m \in T : Max(T) >= m BY <1>1 DEF Max
<1>3. Max(T) \in Nat /\ a \in T /\ b \in T BY <1>2 DEF T
<1> QED BY <1>2, <1>3 DEF T

\* Only the page that reaches the cap can carry a chunk past it.
LEMMA ChunkSizesStep ==
  TypeOK /\ ChunkSizes /\ [Next]_vars => ChunkSizes'
<1> SUFFICES ASSUME TypeOK, ChunkSizes, [Next]_vars, NEW v \in Workers
             PROVE  /\ pc'[v] = "decode" => building'[v].bytes < ChunkCap
                    /\ pc'[v] \in {"acquire", "blocked"} =>
                         building'[v].bytes <= LargestChunk'
  BY DEF ChunkSizes
<1>1. LargestPage \in Nat /\ \A p \in Pages : disk[p].bytes <= LargestPage
  BY LargestPageBounds DEF TypeOK
<1>2. LargestChunk' = LargestChunk
  <2>1. disk' = disk
    BY DEF Next, Worker, Writer, Returned, vars, TakeJob, Exit, DecodePage,
           FinishJob, Acquire, Block, Send, Receive, Pick, NothingDue, ApplyPage,
           Release, Advance, ResultsClosed
  <2> QED BY <2>1 DEF LargestChunk, LargestPage
<1>3. /\ ChunkCap \in Nat /\ ChunkCap >= 1
      /\ building[v].bytes \in Nat
      /\ LargestChunk \in Nat /\ ChunkCap - 1 <= LargestChunk
      /\ pc[v] = "decode" => building[v].bytes < ChunkCap
      /\ pc[v] \in {"acquire", "blocked"} => building[v].bytes <= LargestChunk
  BY <1>1, PipelineAssumption DEF ChunkSizes, LargestChunk, TypeOK, Chunk
<1>4. ASSUME building'[v].bytes = building[v].bytes,
             \/ pc'[v] = pc[v]
             \/ pc[v] = "blocked" /\ pc'[v] = "acquire"
             \/ pc[v] = "acquire" /\ pc'[v] \in {"blocked", "send"}
             \/ pc[v] = "decode" /\ pc'[v] = "acquire"
             \/ pc[v] = "idle" /\ pc'[v] = "exit"
      PROVE  /\ pc'[v] = "decode" => building'[v].bytes < ChunkCap
             /\ pc'[v] \in {"acquire", "blocked"} => building'[v].bytes <= LargestChunk
  BY <1>3, <1>4
<1>5. ASSUME NEW w \in Workers, TakeJob(w) \/ Send(w) 
      PROVE  /\ pc'[v] = "decode" => building'[v].bytes < ChunkCap
             /\ pc'[v] \in {"acquire", "blocked"} => building'[v].bytes <= LargestChunk
  <2>1. CASE v # w BY <1>4, <1>5, <2>1 DEF TakeJob, Send, TypeOK
  <2>2. CASE v = w /\ TakeJob(w)
    <3>1. pc'[v] = "decode" /\ building'[v].bytes = 0
      BY <2>2 DEF TakeJob, TypeOK, NewChunk
    <3> QED BY <1>3, <3>1
  <2>3. CASE v = w /\ Send(w)
    <3>1. pc'[v] \in {"idle", "decode"} /\ building'[v].bytes = 0
      BY <2>3 DEF Send, TypeOK, NewChunk, NoChunk, Successor
    <3> QED BY <1>3, <3>1
  <2> QED BY <1>5, <2>1, <2>2, <2>3
<1>6. ASSUME NEW w \in Workers, Exit(w) \/ FinishJob(w) \/ Acquire(w) \/ Block(w)
      PROVE  /\ pc'[v] = "decode" => building'[v].bytes < ChunkCap
             /\ pc'[v] \in {"acquire", "blocked"} => building'[v].bytes <= LargestChunk
  <2>1. building'[v].bytes = building[v].bytes
    <3>1. CASE FinishJob(w) BY <3>1 DEF FinishJob, TypeOK, Chunk
    <3> QED BY <1>6, <3>1 DEF Exit, Acquire, Block
  <2> QED BY <1>4, <1>6, <2>1 DEF Exit, FinishJob, Acquire, Block, TypeOK
<1>7. ASSUME NEW w \in Workers, DecodePage(w)
      PROVE  /\ pc'[v] = "decode" => building'[v].bytes < ChunkCap
             /\ pc'[v] \in {"acquire", "blocked"} => building'[v].bytes <= LargestChunk
  <2>1. CASE v # w BY <1>4, <1>7, <2>1 DEF DecodePage, TypeOK
  <2>2. CASE v = w
    <3> DEFINE c == WithPage(building[w], ~book.overflow)
               p == building[w].hi
    <3>1. p \in Pages
      <4>1. p \in Nat /\ building[w].job \in Nat BY DEF TypeOK, Chunk
      <4>2. /\ JobEnd(building[w].job) \in Nat
            /\ JobEnd(building[w].job) <= NumPages
        BY <4>1, BatchType
      <4> QED BY <1>7, <4>1, <4>2, BookAssumption DEF DecodePage, Pages
    <3>2. c.bytes = building[w].bytes + disk[p].bytes
      BY DEF WithPage, TypeOK, Chunk
    <3>3. disk[p].bytes \in Nat /\ disk[p].bytes <= LargestPage
      BY <1>1, <3>1 DEF TypeOK, PageResult
    <3>4. pc[w] = "decode" /\ building'[v] = c
            /\ pc'[v] = IF c.bytes >= ChunkCap THEN "acquire" ELSE "decode"
      BY <1>7, <2>2 DEF DecodePage, TypeOK
    <3> HIDE DEF c, p
    <3>5. c.bytes \in Nat /\ c.bytes <= LargestChunk
      BY <1>1, <1>3, <2>2, <3>2, <3>3, <3>4 DEF LargestChunk
    <3> QED BY <1>3, <3>4, <3>5
  <2> QED BY <2>1, <2>2
<1>8. CASE Writer
  <2>1. building' = building BY <1>8, WriterSteady
  <2>2. pc'[v] = pc[v] \/ (pc[v] = "blocked" /\ pc'[v] = "acquire")
    BY <1>8 DEF Writer, Receive, Pick, NothingDue, ApplyPage, Release,
                Advance, ResultsClosed, Awake, TypeOK, workerVars
  <2> QED BY <1>2, <1>4, <2>1, <2>2
<1>9. CASE UNCHANGED vars BY <1>2, <1>4, <1>9 DEF vars
<1> QED
  BY <1>2, <1>5, <1>6, <1>7, <1>8, <1>9 DEF Next, Worker, Returned

\* Only the end of the workers lets the writer finish.
LEMMA DoneStep ==
  IInv /\ DoneMeansDrained /\ [Next]_vars => DoneMeansDrained'
<1> SUFFICES ASSUME IInv, DoneMeansDrained, [Next]_vars, wpc' = "done"
             PROVE  DoneMeansDrained'
  BY DEF DoneMeansDrained
<1>0. TypeOK BY DEF IInv
<1>1. CASE ResultsClosed
  <2>1. /\ wpc = "recv" /\ resultsCh = <<>> /\ \A w \in Workers : pc[w] = "exit"
        /\ UNCHANGED <<resultsCh, pc, book, curSub, curJob, applied, emitted>>
    BY <1>1 DEF ResultsClosed, workerVars
  <2>2. ~book.err =>
          IF curSub = 0
          THEN applied = IF JobStart(curJob) > NumPages
                         THEN NumPages ELSE JobStart(curJob)
          ELSE \E e \in emitted : e.job = curJob
    BY <2>1 DEF IInv, InOrder, WriterInPlace
  <2> QED BY <2>1, <2>2 DEF DoneMeansDrained, JobStart
<1>2. ASSUME Writer, ~ResultsClosed PROVE FALSE
  BY <1>0, <1>2 DEF Writer, Receive, Pick, NothingDue, ApplyPage, Release, Advance
<1>3. ASSUME NEW w \in Workers, Worker(w) PROVE FALSE
  <2>1. UNCHANGED writerVars
    BY <1>3 DEF Worker, TakeJob, Exit, DecodePage, FinishJob, Acquire, Block, Send
  <2>2. pc[w] = "exit" BY <2>1 DEF DoneMeansDrained, writerVars
  <2> QED
    BY <1>3, <2>2 DEF Worker, TakeJob, Exit, DecodePage, FinishJob, Acquire, Block, Send
<1>4. CASE UNCHANGED vars BY <1>4 DEF vars, DoneMeansDrained, JobStart
<1> QED BY <1>1, <1>2, <1>3, <1>4 DEF Next, Returned

\* Nothing has flowed yet.
LEMMA InitFlow == Init => Flow
<1> SUFFICES ASSUME Init PROVE Flow OBVIOUS
<1> USE DEF Init
<1>1. ToSet(<<>>) = {} BY DEF ToSet
<1>2. Waiting = {} /\ Sent = {} BY <1>1 DEF Waiting, Sent
<1>3. OnceInFlight BY <1>1, <1>2 DEF OnceInFlight
<1>4. JobsEndOnce BY DEF JobsEndOnce
<1>5. JobsAccounted BY NumBatchesType DEF JobsAccounted
<1>6. NothingSkipped BY <1>2 DEF NothingSkipped
<1>7. ChunkSizes /\ DoneMeansDrained BY DEF ChunkSizes, DoneMeansDrained
<1> QED BY <1>3, <1>4, <1>5, <1>6, <1>7 DEF Flow

\* Chunks flow from the workers to the writer without loss: each is in one
\* place at a time, each job ends with one last chunk, and what waits for the
\* writer is exactly what was sent for the places it has not come to.
THEOREM FlowKept == SafeSpec => []Flow
<1>1. Init => IInv /\ Flow BY InitInv, InitFlow
<1>2. IInv /\ Flow /\ [Next]_vars => Flow'
  <2> SUFFICES ASSUME IInv, Flow, [Next]_vars PROVE Flow' OBVIOUS
  <2>1. OnceInFlight' /\ JobsEndOnce' BY OnceInFlightStep, JobsEndOnceStep DEF Flow
  <2>2. JobsAccounted' /\ NothingSkipped'
    BY JobsAccountedStep, NothingSkippedStep DEF Flow
  <2>3. ChunkSizes' /\ DoneMeansDrained' BY ChunkSizesStep, DoneStep DEF Flow, IInv
  <2> QED BY <2>1, <2>2, <2>3 DEF Flow
<1> QED BY <1>1, <1>2, Invariance, PTL DEF SafeSpec

-----------------------------------------------------------------------------
(* The budget                                                              *)

\* The chunks whose senders have reserved their bytes
Sending == {building[w] : w \in {v \in Workers : pc[v] = "send"}}

\* What is outstanding is being sent or was sent.
LEMMA OutstandingParts == Outstanding = Sending \cup Sent
BY DEF Outstanding, Sending, Sent

\* Only acquire reserves bytes, and only release gives them back.
LEMMA OutstandingMoves ==
  ASSUME IInv, Flow, [Next]_vars
  PROVE  \/ \E w \in Workers : /\ Acquire(w)
                               /\ building[w] \notin Outstanding
                               /\ Outstanding' = Outstanding \cup {building[w]}
         \/ /\ Release
            /\ current \in Outstanding
            /\ Outstanding' = Outstanding \ {current}
         \/ /\ inFlight' = inFlight
            /\ Outstanding' = Outstanding
<1>0. TypeOK /\ IInv BY DEF IInv
<1>1. ASSUME NEW w \in Workers, Acquire(w)
      PROVE  /\ building[w] \notin Outstanding
             /\ Outstanding' = Outstanding \cup {building[w]}
  <2>1. Busy(w) /\ pc[w] # "send" BY <1>1 DEF Acquire, Busy
  <2>2. building[w] \notin Sending
    BY <2>1, BuildingNew DEF Sending, Busy
  <2>3. building[w] \notin Sent BY <2>1, BuildingNew
  <2>4. Sending' = Sending \cup {building[w]}
    BY <1>0, <1>1, <2>1 DEF Acquire, Sending, TypeOK
  <2>5. Sent' = Sent BY <1>1 DEF Acquire, Sent, writerVars
  <2> QED BY <2>2, <2>3, <2>4, <2>5, OutstandingParts DEF Outstanding, Sending, Sent
<1>2. ASSUME NEW w \in Workers, Send(w) PROVE Outstanding' = Outstanding
  <2>1. Sent' = Sent \cup {building[w]} BY <1>0, <1>2, SendAddsChunk
  <2>2. Sending' \subseteq Sending
    BY <1>0, <1>2 DEF Send, Sending, TypeOK
  <2>3. Sending \subseteq Sending' \cup {building[w]}
    BY <1>0, <1>2 DEF Send, Sending, TypeOK
  <2>4. building[w] \in Sending BY <1>2 DEF Send, Sending
  <2> QED BY <2>1, <2>2, <2>3, <2>4 DEF Outstanding, Sending, Sent
<1>3. ASSUME NEW w \in Workers,
             TakeJob(w) \/ Exit(w) \/ DecodePage(w) \/ FinishJob(w) \/ Block(w)
      PROVE  Outstanding' = Outstanding
  <2>1. Sent' = Sent
    BY <1>3 DEF TakeJob, Exit, DecodePage, FinishJob, Block, Sent, writerVars
  <2>2. /\ pc[w] # "send" /\ pc'[w] # "send"
        /\ \A v \in Workers \ {w} : pc'[v] = pc[v] /\ building'[v] = building[v]
    BY <1>0, <1>3 DEF TakeJob, Exit, DecodePage, FinishJob, Block, TypeOK
  <2>3. Sending' = Sending BY <2>2 DEF Sending
  <2> QED BY <2>1, <2>3 DEF Outstanding, Sending, Sent
<1>4. ASSUME Writer PROVE Sending' = Sending
  <2>1. building' = building BY <1>0, <1>4, WriterSteady
  <2>2. \A v \in Workers : pc'[v] = "send" <=> pc[v] = "send"
    BY <1>0, <1>4 DEF Writer, Receive, Pick, NothingDue, ApplyPage, Release,
                Advance, ResultsClosed, Awake, TypeOK, workerVars
  <2> QED BY <2>1, <2>2 DEF Sending
<1>5. CASE Receive
  <2>1. Waiting' = Waiting BY <1>5, ReceiveWaiting
  <2>2. Sent' = Sent BY <1>5, <2>1 DEF Receive, Sent, Waiting
  <2>3. inFlight' = inFlight BY <1>5 DEF Receive, budgetVars
  <2> QED BY <1>4, <1>5, <2>2, <2>3 DEF Outstanding, Sending, Sent, Writer
<1>6. CASE Pick
  <2>1. Sent' = Sent BY <1>6 DEF Pick, Sent
  <2>2. inFlight' = inFlight BY <1>6 DEF Pick, budgetVars
  <2> QED BY <1>4, <1>6, <2>1, <2>2 DEF Outstanding, Sending, Sent, Writer
<1>7. CASE Release
  <2>1. /\ wpc = "apply" /\ wpc' # "apply" /\ UNCHANGED <<resultsCh, reorder>>
    BY <1>7 DEF Release
  <2>2. current \notin Waiting BY <2>1 DEF Flow, OnceInFlight
  <2>3. current \in Sent /\ Sent' = Sent \ {current}
    BY <2>1, <2>2 DEF Sent, Waiting
  <2>4. current \notin Sending
    BY <2>3, BuildingNew DEF Sending, Busy
  <2>5. Sending' = Sending BY <1>4, <1>7 DEF Writer
  <2> QED BY <1>7, <2>3, <2>4, <2>5 DEF Outstanding, Sending, Sent
<1>8. ASSUME NothingDue \/ ApplyPage \/ Advance \/ ResultsClosed
      PROVE  Outstanding' = Outstanding /\ inFlight' = inFlight
  <2>1. Sent' = Sent /\ inFlight' = inFlight
    BY <1>8 DEF NothingDue, ApplyPage, Advance, ResultsClosed, Sent, budgetVars
  <2> QED BY <1>4, <1>8, <2>1 DEF Outstanding, Sending, Sent, Writer
<1>9. ASSUME UNCHANGED vars PROVE Outstanding' = Outstanding /\ inFlight' = inFlight
  BY <1>9 DEF vars, Outstanding
<1>10. ASSUME NEW w \in Workers, Worker(w), ~Acquire(w)
       PROVE  Outstanding' = Outstanding /\ inFlight' = inFlight
  <2>1. inFlight' = inFlight
    BY <1>10 DEF Worker, TakeJob, Exit, DecodePage, FinishJob, Block, Send, budgetVars
  <2> QED BY <1>2, <1>3, <1>10, <2>1 DEF Worker
<1> QED
  BY <1>1, <1>5, <1>6, <1>7, <1>8, <1>9, <1>10 DEF Next, Writer, Returned

\* The sum the budget stands for, and the sum look-ahead is bounded by
Balanced == Weighed(Outstanding) /\ BudgetBalanced

\* Nothing is reserved yet.
LEMMA InitBalanced == Init => Balanced /\ LookaheadBounded
<1> SUFFICES ASSUME Init PROVE Balanced /\ LookaheadBounded OBVIOUS
<1>1. ToSet(<<>>) = {} BY DEF ToSet
<1>2. Outstanding = {} BY <1>1 DEF Outstanding, Init
<1>3. Weighed({}) BY FS_EmptySet DEF Weighed
<1>4. {c \in Outstanding : c.job # applyingJob} = {} BY <1>2
<1>5. disk \in [Pages -> PageResult] BY PipelineAssumption DEF Init
<1>6. LargestChunk \in Nat
  BY <1>5, LargestPageBounds, PipelineAssumption DEF LargestChunk
<1>7. 0 <= Max({MemLimit, LargestChunk})
  BY <1>6, MaxOfTwo, PipelineAssumption
<1>8. inFlight = 0 BY DEF Init
<1> QED
  BY <1>2, <1>3, <1>4, <1>7, <1>8, BytesOfNothing
  DEF Balanced, BudgetBalanced, LookaheadBounded

\* Reserved bytes are counted once and given back once.
LEMMA BalancedStep ==
  IInv /\ Flow /\ Balanced /\ [Next]_vars => Balanced'
<1> SUFFICES ASSUME IInv, Flow, Balanced, [Next]_vars PROVE Balanced' OBVIOUS
<1>0. /\ TypeOK /\ Weighed(Outstanding) /\ inFlight = BytesOf(Outstanding)
      /\ BytesOf(Outstanding) \in Nat
  BY BytesRemove DEF IInv, Balanced, BudgetBalanced
<1>1. ASSUME NEW w \in Workers, Acquire(w), building[w] \notin Outstanding,
             Outstanding' = Outstanding \cup {building[w]}
      PROVE  Balanced'
  <2>1. building[w].bytes \in Nat BY <1>0 DEF TypeOK, Chunk
  <2>2. inFlight' = inFlight + building[w].bytes BY <1>1 DEF Acquire
  <2>3. Weighed(Outstanding') /\ BytesOf(Outstanding') = BytesOf(Outstanding) + building[w].bytes
    BY <1>0, <1>1, <2>1, BytesAdd
  <2> QED BY <1>0, <2>2, <2>3 DEF Balanced, BudgetBalanced
<1>2. ASSUME Release, current \in Outstanding, Outstanding' = Outstanding \ {current}
      PROVE  Balanced'
  <2>1. current.bytes \in Nat BY <1>0 DEF TypeOK, Chunk
  <2>2. inFlight' = inFlight - current.bytes BY <1>2 DEF Release
  <2>3. Weighed(Outstanding') BY <1>0, <1>2, FS_RemoveElement DEF Weighed
  <2>4. BytesOf(Outstanding') \in Nat BY <2>3, BytesRemove
  <2>5. BytesOf(Outstanding) = current.bytes + BytesOf(Outstanding')
    BY <1>0, <1>2, BytesRemove
  <2>6. inFlight' = BytesOf(Outstanding') BY <1>0, <2>1, <2>2, <2>4, <2>5
  <2> QED BY <2>3, <2>6 DEF Balanced, BudgetBalanced
<1>3. ASSUME inFlight' = inFlight, Outstanding' = Outstanding PROVE Balanced'
  BY <1>0, <1>3 DEF Balanced, BudgetBalanced
<1> QED BY <1>1, <1>2, <1>3, OutstandingMoves

\* The chunks of jobs other than the one exempt from waiting
LookAhead == {c \in Outstanding : c.job # applyingJob}

\* When the writer leaves a job, nothing of it is outstanding.
LEMMA JobFinished ==
  ASSUME IInv, Flow, wpc = "advance", NEW c \in Outstanding
  PROVE  c.job # curJob
<1>1. PICK e \in emitted : e.job = curJob /\ e.last
  BY DEF Flow, NothingSkipped, Ended
<1>2. CASE c \in Sending
  <2>1. PICK w \in Workers : pc[w] = "send" /\ c = building[w]
    BY <1>2 DEF Sending
  <2>2. Busy(w) BY <2>1 DEF Busy
  <2> QED BY <1>1, <2>1, <2>2 DEF Flow, JobsEndOnce
<1>3. CASE c \in Sent
  <2>1. c \in Waiting BY <1>3 DEF Sent, Waiting
  <2>2. Ahead(c) BY <2>1 DEF Flow, NothingSkipped
  <2>3. c.job > curJob BY <2>2 DEF Ahead
  <2>4. Place(c) \in emitted /\ Place(c).job = c.job
    BY <1>3 DEF IInv, InOrder, SentEmitted, Place
  <2>5. c.job \in Nat /\ curJob \in Nat BY <2>4 DEF IInv, TypeOK
  <2> QED BY <2>3, <2>5
<1> QED BY <1>2, <1>3, OutstandingParts

\* Acquire is the only step that can add to the look-ahead, and it has
\* looked at the limit.
LEMMA LookaheadStep ==
  IInv /\ Flow /\ Balanced /\ LookaheadBounded /\ [Next]_vars => LookaheadBounded'
<1> SUFFICES ASSUME IInv, Flow, Balanced, LookaheadBounded, [Next]_vars
             PROVE  LookaheadBounded'
  OBVIOUS
<1> DEFINE B == Max({MemLimit, LargestChunk})
<1>0. /\ TypeOK /\ Weighed(Outstanding) /\ inFlight = BytesOf(Outstanding)
      /\ inFlight \in Nat
      /\ BytesOf(LookAhead) <= B
  BY BytesRemove
  DEF IInv, Balanced, BudgetBalanced, LookaheadBounded, LookAhead
<1>1. MemLimit \in Nat /\ LargestChunk \in Nat
  BY <1>0, LargestPageBounds, PipelineAssumption DEF TypeOK, LargestChunk
<1>2. B \in Nat /\ MemLimit <= B /\ LargestChunk <= B BY <1>1, MaxOfTwo
<1>3. LargestChunk' = LargestChunk
  <2>1. disk' = disk
    BY DEF Next, Worker, Writer, Returned, vars, TakeJob, Exit, DecodePage,
           FinishJob, Acquire, Block, Send, Receive, Pick, NothingDue, ApplyPage,
           Release, Advance, ResultsClosed
  <2> QED BY <2>1 DEF LargestChunk, LargestPage
<1> HIDE DEF B
<1>4. LookaheadBounded' <=> BytesOf(LookAhead') <= B
  BY <1>3 DEF LookaheadBounded, LookAhead, B
<1>5. Weighed(LookAhead) /\ BytesOf(LookAhead) \in Nat
  <2>1. LookAhead \in SUBSET Outstanding BY DEF LookAhead
  <2>2. Weighed(LookAhead) BY <1>0, <2>1, FS_Subset DEF Weighed
  <2> QED BY <2>2, BytesRemove
<1>6. ASSUME LookAhead' \subseteq LookAhead PROVE LookaheadBounded'
  <2>1. BytesOf(LookAhead') <= BytesOf(LookAhead) BY <1>5, <1>6, BytesMonotone
  <2>2. BytesOf(LookAhead') \in Nat
    <3>1. LookAhead' \in SUBSET LookAhead BY <1>6
    <3>2. Weighed(LookAhead') BY <1>5, <3>1, FS_Subset DEF Weighed
    <3> QED BY <3>2, BytesRemove
  <2> QED BY <1>0, <1>2, <1>4, <1>5, <2>1, <2>2
<1>7. ASSUME NEW w \in Workers, Acquire(w), building[w] \notin Outstanding,
             Outstanding' = Outstanding \cup {building[w]}
      PROVE  LookaheadBounded'
  <2> DEFINE b == building[w]
  <2>1. /\ applyingJob' = applyingJob /\ pc[w] = "acquire"
        /\ ~MustWait(b.bytes, b.job)
    BY <1>7 DEF Acquire
  <2>2. b.bytes \in Nat /\ b.bytes <= LargestChunk
    BY <1>0, <2>1 DEF TypeOK, Chunk, Flow, ChunkSizes
  <2>3. CASE b.job = applyingJob
    <3>1. LookAhead' \subseteq LookAhead BY <1>7, <2>1, <2>3 DEF LookAhead
    <3> QED BY <1>6, <3>1
  <2>4. CASE b.job # applyingJob
    <3>1. inFlight = 0 \/ inFlight + b.bytes <= MemLimit
      BY <1>0, <1>1, <2>1, <2>2, <2>4 DEF MustWait
    <3>2. /\ Weighed(Outstanding')
          /\ BytesOf(Outstanding') = inFlight + b.bytes
      BY <1>0, <1>7, <2>2, BytesAdd
    <3>3. LookAhead' \in SUBSET Outstanding' BY DEF LookAhead
    <3>4. BytesOf(LookAhead') <= BytesOf(Outstanding') BY <3>2, <3>3, BytesMonotone
    <3>5. BytesOf(LookAhead') \in Nat
      <4>1. Weighed(LookAhead') BY <3>2, <3>3, FS_Subset DEF Weighed
      <4> QED BY <4>1, BytesRemove
    <3> HIDE DEF b
    <3>6. BytesOf(LookAhead') <= B
      BY <1>0, <1>1, <1>2, <2>2, <3>1, <3>2, <3>4, <3>5
    <3> QED BY <1>4, <3>6
  <2> QED BY <2>3, <2>4
<1>8. ASSUME Outstanding' \subseteq Outstanding, applyingJob' = applyingJob
      PROVE  LookaheadBounded'
  <2>1. LookAhead' \subseteq LookAhead BY <1>8 DEF LookAhead
  <2> QED BY <1>6, <2>1
<1>9. CASE Advance
  <2>1. wpc = "advance" BY <1>9 DEF Advance
  <2>2. Outstanding' = Outstanding
    <3>1. \A w \in Workers : ~Acquire(w) BY <1>9 DEF Advance, Acquire, writerVars
    <3>2. ~Release BY <2>1 DEF Release
    <3> QED BY <3>1, <3>2, OutstandingMoves
  <2>3. applyingJob = curJob BY DEF Flow, NothingSkipped
  <2>4. LookAhead = Outstanding BY <2>1, <2>3, JobFinished DEF LookAhead
  <2>5. LookAhead' \subseteq LookAhead BY <2>2, <2>4 DEF LookAhead
  <2> QED BY <1>6, <2>5
<1>10. ASSUME ~Advance PROVE applyingJob' = applyingJob
  BY <1>10 DEF Next, Worker, Writer, Returned, vars, TakeJob, Exit, DecodePage,
           FinishJob, Acquire, Block, Send, Receive, Pick, NothingDue, ApplyPage,
           Release, ResultsClosed, budgetVars
<1> QED
  <2>1. CASE Advance BY <1>9, <2>1
  <2>2. CASE ~Advance
    <3>1. CASE Outstanding' \subseteq Outstanding BY <1>8, <1>10, <2>2, <3>1
    <3>2. CASE ~(Outstanding' \subseteq Outstanding)
      BY <1>7, <3>2, OutstandingMoves
    <3> QED BY <3>1, <3>2
  <2> QED BY <2>1, <2>2

\* The inductive form of the budget's balance: the chunks outstanding are
\* finitely many and their bytes are what is in flight.
THEOREM BudgetKept == SafeSpec => []Balanced
<1>1. IInv /\ Flow /\ Balanced /\ [Next]_vars => Balanced' BY BalancedStep
<1>2. Init => Balanced BY InitBalanced
<1> QED BY <1>1, <1>2, Invariance, FlowKept, PTL DEF SafeSpec

\* The budget counts exactly the bytes of the chunks between acquire and
\* release: whatever the schedule, emit reserves a chunk once and the writer
\* gives it back once.
THEOREM BudgetAlwaysBalanced == SafeSpec => []BudgetBalanced
<1>1. Balanced => BudgetBalanced BY DEF Balanced
<1> QED BY <1>1, BudgetKept, PTL

\* Look-ahead is bounded by the memory limit or one oversized chunk, for any
\* number of workers and any page sizes.
THEOREM LookaheadAlwaysBounded == SafeSpec => []LookaheadBounded
<1>1. Init => LookaheadBounded BY InitBalanced
<1>2. IInv /\ Flow /\ Balanced /\ LookaheadBounded /\ [Next]_vars => LookaheadBounded'
  BY LookaheadStep
<1> QED BY <1>1, <1>2, Invariance, FlowKept, BudgetKept, PTL DEF SafeSpec

\* Once the writer's job has ended, the chunk it comes to next was sent.
LEMMA DueWasSent ==
  ASSUME IInv, Flow, wpc # "advance", Ended(curJob)
  PROVE  \E e \in emitted : e.job = curJob /\ e.sub = curSub
<1>0. curSub \in Nat /\ \A e \in emitted : e.sub \in Nat BY DEF IInv, TypeOK
<1>1. PICK l \in emitted : l.job = curJob /\ l.last BY DEF Ended
<1>2. \A e \in emitted : e.job = curJob => e.sub <= l.sub
  BY <1>1 DEF Flow, JobsEndOnce
<1>3. CASE curSub = l.sub BY <1>1, <1>3
<1>4. CASE curSub < l.sub
  <2>1. curSub \in 0 .. l.sub - 1 BY <1>0, <1>4
  <2> QED BY <1>1, <2>1 DEF Flow, JobsEndOnce
<1>5. CASE curSub > l.sub
  <2>1. curSub > 0 BY <1>0, <1>5
  <2>2. PICK e \in emitted : e.job = curJob /\ e.sub = curSub - 1 /\ ~e.last
    BY <2>1 DEF Flow, NothingSkipped
  <2>3. e.sub = l.sub BY <1>0, <1>2, <1>5, <2>2
  <2>4. e = l BY <1>1, <2>2, <2>3 DEF IInv, InOrder, ChunksTile
  <2> QED BY <1>1, <2>2, <2>4
<1> QED BY <1>0, <1>3, <1>4, <1>5

\* At the end the writer is past the last job.
LEMMA WriterAtEnd ==
  ASSUME IInv, Flow, wpc = "done"
  PROVE  /\ \A e \in emitted : e.job < curJob
         /\ curSub = 0
         /\ NumBatches <= curJob
<1>0. /\ TypeOK /\ curJob \in Nat /\ curSub \in Nat
      /\ \A e \in emitted : e.job \in Nat /\ e.sub \in Nat
      /\ NumBatches \in Nat
  BY NumBatchesType DEF IInv, TypeOK
<1>1. resultsCh = <<>> /\ \A w \in Workers : pc[w] = "exit" /\ ~Busy(w)
  BY DEF Flow, DoneMeansDrained, Busy
<1>2. nextJob = NumBatches
  BY <1>1, PipelineAssumption DEF Flow, JobsAccounted
<1>3. \A j \in 0 .. NumBatches - 1 : Ended(j)
  BY <1>1, <1>2 DEF Flow, JobsAccounted
<1>4. \A e \in emitted : e.job < NumBatches
  BY <1>2 DEF IInv, InOrder, JobsOwned
<1>5. NumBatches <= curJob
  <2> SUFFICES ASSUME curJob < NumBatches PROVE FALSE BY <1>0
  <2>1. PICK l \in emitted : l.job = curJob /\ l.last
    BY <1>0, <1>3 DEF Ended
  <2>3. PICK e \in emitted : e.job = curJob /\ e.sub = curSub
    BY <2>1, DueWasSent DEF Ended
  <2>4. Ahead(e) BY <1>0, <2>3 DEF Ahead
  <2>5. PICK c \in Waiting : Place(c) = e BY <2>4 DEF Flow, NothingSkipped
  <2>6. c \in reorder BY <1>1, <2>5 DEF Waiting, ToSet
  <2>7. Due(c) BY <2>3, <2>5 DEF Due, Place
  <2> QED BY <2>6, <2>7 DEF Flow, NothingSkipped
<1>6. \A e \in emitted : e.job < curJob BY <1>0, <1>4, <1>5
<1>7. curSub = 0
  <2>1. ASSUME curSub > 0 PROVE FALSE
    <3>1. PICK e \in emitted : e.job = curJob BY <2>1 DEF Flow, NothingSkipped
    <3> QED BY <1>0, <1>6, <3>1
  <2> QED BY <1>0, <2>1
<1> QED BY <1>5, <1>6, <1>7

\* When runParallelDirect returns, the reorder buffer is empty, the budget is
\* whole again, and every planned page was applied unless a write failed.
THEOREM NothingIsLeftBehind == SafeSpec => []NothingLeftBehind
<1>1. IInv /\ Flow /\ Balanced => NothingLeftBehind
  <2> SUFFICES ASSUME IInv, Flow, Balanced, wpc = "done"
               PROVE  reorder = {} /\ inFlight = 0 /\ (book.err \/ applied = NumPages)
    BY DEF NothingLeftBehind
  <2>1. resultsCh = <<>> /\ \A w \in Workers : pc[w] = "exit"
    BY DEF Flow, DoneMeansDrained
  <2>2. reorder = {}
    <3> SUFFICES ASSUME NEW c \in reorder PROVE FALSE OBVIOUS
    <3>1. c \in Waiting /\ c \in Sent BY DEF Waiting, Sent
    <3>2. c.job >= curJob
      <4>1. Ahead(c) BY <3>1 DEF Flow, NothingSkipped
      <4>2. c.job \in Nat /\ curJob \in Nat BY DEF IInv, TypeOK, Chunk
      <4> QED BY <4>1, <4>2 DEF Ahead
    <3>3. Place(c) \in emitted /\ Place(c).job = c.job
      BY <3>1 DEF IInv, InOrder, SentEmitted, Place
    <3>4. c.job < curJob BY <3>3, WriterAtEnd
    <3>5. c.job \in Nat /\ curJob \in Nat BY DEF IInv, TypeOK, Chunk
    <3> QED BY <3>2, <3>4, <3>5
  <2>3. Outstanding = {}
    BY <2>1, <2>2 DEF Outstanding, ToSet
  <2>4. inFlight = 0 BY <2>3, BytesOfNothing DEF Balanced, BudgetBalanced
  <2>5. ASSUME ~book.err PROVE applied = NumPages
    <3>1. applied = IF JobStart(curJob) > NumPages THEN NumPages ELSE JobStart(curJob)
      BY <2>5, WriterAtEnd DEF Flow, DoneMeansDrained
    <3>2. NumPages <= JobStart(curJob)
      <4> DEFINE q == NumBatches
      <4>1. q \in Nat /\ q <= curJob /\ curJob \in Nat /\ NumPages <= q * BatchPages
        BY NumBatchesType, WriterAtEnd DEF IInv, TypeOK
      <4>2. BatchPages \in Nat /\ NumPages \in Nat
        BY PipelineAssumption, BookAssumption
      <4> HIDE DEF q
      <4>3. q * BatchPages <= curJob * BatchPages BY <4>1, <4>2
      <4>4. q * BatchPages \in Nat /\ curJob * BatchPages \in Nat BY <4>1, <4>2
      <4> QED BY <4>1, <4>2, <4>3, <4>4 DEF JobStart
    <3>3. JobStart(curJob) \in Nat /\ NumPages \in Nat
      BY BatchType, BookAssumption DEF IInv, TypeOK
    <3> QED BY <3>1, <3>2, <3>3
  <2> QED BY <2>2, <2>4, <2>5
<1> QED BY <1>1, Invariance, FlowKept, BudgetKept, PTL

\* Somebody can always go on: the exempt job, the broadcasts and the order of
\* the writer together exclude a circle of waiting.
THEOREM PipelineNeverStuck == SafeSpec => []NeverStuck
<1>1. IInv /\ Flow /\ NoLostWakeup => NeverStuck
  <2> SUFFICES ASSUME IInv, Flow, NoLostWakeup, wpc # "done",
                      \A w \in Workers : pc[w] \notin {"idle", "decode", "acquire"},
                      \A w \in Workers : ~(pc[w] = "send" /\ Len(resultsCh) < QueueCap),
                      wpc \notin {"pick", "apply", "advance"},
                      ~(wpc = "recv" /\ (resultsCh # <<>> \/ \A w \in Workers : pc[w] = "exit"))
               PROVE  FALSE
    BY DEF NeverStuck
  <2>0. /\ curJob \in Nat /\ curSub \in Nat /\ nextJob \in Nat
        /\ \A e \in emitted : e.job \in Nat /\ e.sub \in Nat
        /\ \A w \in Workers : building[w].job \in Nat /\ pc[w] \in WorkerPC
        /\ wpc \in WriterPC
    BY DEF IInv, TypeOK, Chunk
  <2>1. wpc = "recv" /\ resultsCh = <<>> /\ \E w \in Workers : pc[w] # "exit"
    BY <2>0 DEF WriterPC
  <2>2. \A w \in Workers : pc[w] \in {"blocked", "exit"}
    BY <2>0, <2>1, PipelineAssumption DEF WorkerPC
  <2>3. PICK w \in Workers : pc[w] = "blocked" BY <2>1, <2>2
  <2>4. Busy(w) BY <2>3 DEF Busy
  <2>5. building[w].job < nextJob BY <2>4 DEF IInv, InOrder, JobsOwned
  <2>6. ~Ended(building[w].job) BY <2>4 DEF Flow, JobsEndOnce, Ended
  <2>7. curJob <= building[w].job
    <3>1. \A j \in 0 .. curJob - 1 : Ended(j) BY DEF Flow, NothingSkipped
    <3> QED BY <2>0, <2>6, <3>1
  <2>8. ~Ended(curJob)
    <3> SUFFICES ASSUME Ended(curJob) PROVE FALSE OBVIOUS
    <3>1. PICK l \in emitted : l.job = curJob /\ l.last BY DEF Ended
    <3>2. PICK e \in emitted : e.job = curJob /\ e.sub = curSub
      BY <2>1, <3>1, DueWasSent
    <3>3. Ahead(e) BY <2>0, <2>1, <3>2 DEF Ahead
    <3>4. PICK c \in Waiting : Place(c) = e BY <3>3 DEF Flow, NothingSkipped
    <3>5. c \in reorder BY <2>1, <3>4 DEF Waiting, ToSet
    <3>6. Due(c) BY <3>2, <3>4 DEF Due, Place
    <3> QED BY <2>1, <3>5, <3>6 DEF Flow, NothingSkipped
  <2>9. PICK v \in Workers : Busy(v) /\ building[v].job = curJob
    <3>1. curJob \in 0 .. nextJob - 1 BY <2>0, <2>5, <2>7
    <3> QED BY <2>8, <3>1 DEF Flow, JobsAccounted
  <2>10. pc[v] = "blocked" BY <2>2, <2>9 DEF Busy
  <2>11. applyingJob # building[v].job BY <2>10 DEF NoLostWakeup, MustWait
  <2> QED BY <2>9, <2>11 DEF Flow, NothingSkipped
<1> QED BY <1>1, Invariance, FlowKept, WakeupsKept, PTL
=============================================================================
