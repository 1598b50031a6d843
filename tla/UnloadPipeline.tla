--------------------------- MODULE UnloadPipeline ---------------------------
(***************************************************************************)
(* The parallel direct unload (runParallelDirect in ExportData, with the   *)
(* byteBudget and the chunks of data_unload_parallel.go).                  *)
(*                                                                         *)
(* A feeder hands batches of planned pages ("jobs") to workers over an     *)
(* unbuffered channel.  A worker decodes its pages, cuts the results into  *)
(* chunks of at least ChunkCap bytes, reserves the bytes of a chunk in     *)
(* the shared budget and sends it to the writer over a bounded channel.    *)
(* The writer puts chunks back in (job, sub) order and applies them.       *)
(*                                                                         *)
(* A chunk is a run of consecutive planned pages, lo .. hi - 1: the pages  *)
(* stand for the results decoded from them.                                *)
(***************************************************************************)
EXTENDS DirectBook, SequencesExt

CONSTANTS
  Disks,        \* the page contents the planned pages may have
  Workers,
  BatchPages,   \* directDecodeBatchPages
  ChunkCap,     \* directDecodeChunkBytes
  MemLimit,     \* directUnloadMemoryLimit
  QueueCap      \* capacity of resultsCh: workers * 2 in the code

ASSUME PipelineAssumption ==
  /\ Disks \subseteq [Pages -> PageResult]
  /\ BatchPages \in Nat \ {0}
  /\ ChunkCap \in Nat \ {0}
  /\ MemLimit \in Nat \ {0}
  /\ QueueCap \in Nat \ {0}
  /\ Workers # {}

VARIABLES
  disk,         \* what decoding each planned page yields
  nextJob,      \* the feeder's next job; the channel closes after the last
  pc,           \* where each worker is
  building,     \* the chunk each worker is building or handing over
  resultsCh,    \* chunks on their way to the writer
  reorder,      \* chunks received ahead of their turn
  inFlight,     \* byteBudget.inFlight
  applyingJob,  \* byteBudget.applyingJob
  wpc,          \* where the writer is
  curJob,       \* position the writer applies next
  curSub,
  current,      \* the chunk the writer is applying
  cursor,       \* the next page of that chunk
  book,         \* the books kept of the pages applied
  applied,      \* history: how many pages were applied
  emitted       \* history: the chunks sent so far, without their contents

workerVars == <<nextJob, pc, building>>
writerVars == <<reorder, wpc, curJob, curSub, current, cursor, applied,
                book>>
budgetVars == <<inFlight, applyingJob>>
vars == <<disk, nextJob, pc, building, resultsCh, reorder, inFlight,
          applyingJob, wpc, curJob, curSub, current, cursor, applied, book, emitted>>

NumBatches == (NumPages + BatchPages - 1) \div BatchPages
Jobs == 0 .. NumBatches - 1

\* directJob.lo and directJob.hi
JobStart(j) == j * BatchPages
JobEnd(j) == IF (j + 1) * BatchPages > NumPages
             THEN NumPages ELSE (j + 1) * BatchPages

Chunk == [job : Nat, sub : Nat, lo : Nat, hi : Nat, last : BOOLEAN,
          bytes : Nat, keyed : SUBSET Pages]

\* directChunk{jobIdx: j, subIdx: s}, starting at page p
NewChunk(j, s, p) == [job |-> j, sub |-> s, lo |-> p, hi |-> p,
                      last |-> FALSE, bytes |-> 0, keyed |-> {}]
NoChunk == NewChunk(0, 0, 0)

\* The place of a chunk in the plan
Place(c) == [job |-> c.job, sub |-> c.sub, lo |-> c.lo, hi |-> c.hi,
             last |-> c.last]

WorkerPC == {"idle", "decode", "acquire", "blocked", "send", "exit"}
WriterPC == {"recv", "pick", "apply", "advance", "done"}

Init ==
  /\ disk \in Disks
  /\ nextJob = 0
  /\ pc = [w \in Workers |-> "idle"]
  /\ building = [w \in Workers |-> NoChunk]
  /\ resultsCh = <<>>
  /\ reorder = {}
  /\ inFlight = 0
  /\ applyingJob = 0
  /\ wpc = "recv"
  /\ curJob = 0
  /\ curSub = 0
  /\ current = NoChunk
  /\ cursor = 0
  /\ applied = 0
  /\ book = EmptyBook
  /\ emitted = {}

-----------------------------------------------------------------------------
(* Workers                                                                 *)

\* The unbuffered jobs channel: the feeder gives its next job to a worker
\* that is ready for one.
TakeJob(w) ==
  /\ pc[w] = "idle"
  /\ nextJob \in Jobs
  /\ nextJob' = nextJob + 1
  /\ pc' = [pc EXCEPT ![w] = "decode"]
  /\ building' = [building EXCEPT ![w] = NewChunk(nextJob, 0, JobStart(nextJob))]
  /\ UNCHANGED <<disk, resultsCh, emitted, budgetVars, writerVars>>

\* The jobs channel is closed and drained: the worker returns.
Exit(w) ==
  /\ pc[w] = "idle"
  /\ nextJob \notin Jobs
  /\ pc' = [pc EXCEPT ![w] = "exit"]
  /\ UNCHANGED <<disk, nextJob, building, resultsCh, emitted, budgetVars,
                 writerVars>>

\* Fault: the keys are filed under the page after the one rendered.
WithPageMisfiled(c, active) ==
  [c EXCEPT !.hi = c.hi + 1,
            !.bytes = c.bytes + disk[c.hi].bytes,
            !.keyed = IF active THEN c.keyed \cup {c.hi + 1} ELSE c.keyed]

\* The chunk c with the result of its next page added.  Its coverage keys
\* exist only if tracking was active when the page was rendered.
WithPage(c, active) ==
  [c EXCEPT !.hi = c.hi + 1,
            !.bytes = c.bytes + disk[c.hi].bytes,
            !.keyed = IF active THEN c.keyed \cup {c.hi} ELSE c.keyed]

\* Decode one page; a chunk that reaches the byte cap is handed over.
DecodePage(w) ==
  LET c == WithPage(building[w], ~book.overflow) IN
  /\ pc[w] = "decode"
  /\ building[w].hi < JobEnd(building[w].job)
  /\ building' = [building EXCEPT ![w] = c]
  /\ pc' = [pc EXCEPT ![w] = IF c.bytes >= ChunkCap THEN "acquire" ELSE "decode"]
  /\ UNCHANGED <<disk, nextJob, resultsCh, emitted, budgetVars, writerVars>>

\* Fault: no final chunk when no page is left for it.
FinishJobSilently(w) ==
  /\ pc[w] = "decode"
  /\ building[w].hi >= JobEnd(building[w].job)
  /\ IF building[w].hi > building[w].lo
     THEN /\ building' = [building EXCEPT ![w].last = TRUE]
          /\ pc' = [pc EXCEPT ![w] = "acquire"]
     ELSE /\ building' = [building EXCEPT ![w] = NoChunk]
          /\ pc' = [pc EXCEPT ![w] = "idle"]
  /\ UNCHANGED <<disk, nextJob, resultsCh, emitted, budgetVars, writerVars>>

\* The job's pages are decoded: the final chunk, possibly empty, is last.
FinishJob(w) ==
  /\ pc[w] = "decode"
  /\ building[w].hi >= JobEnd(building[w].job)
  /\ building' = [building EXCEPT ![w].last = TRUE]
  /\ pc' = [pc EXCEPT ![w] = "acquire"]
  /\ UNCHANGED <<disk, nextJob, resultsCh, emitted, budgetVars, writerVars>>

\* Fault: the limit is compared with the bytes already reserved.
MustWaitLate(n, j) == inFlight > 0 /\ inFlight > MemLimit /\ applyingJob # j

\* The wait condition of byteBudget.acquire
MustWait(n, j) == inFlight > 0 /\ inFlight + n > MemLimit /\ applyingJob # j

\* Fault: the exempt job passes without reserving its bytes.
AcquireUncounted(w) ==
  /\ pc[w] = "acquire"
  /\ ~MustWait(building[w].bytes, building[w].job)
  /\ inFlight' = IF applyingJob = building[w].job
                 THEN inFlight ELSE inFlight + building[w].bytes
  /\ pc' = [pc EXCEPT ![w] = "send"]
  /\ UNCHANGED <<disk, nextJob, building, resultsCh, applyingJob, emitted,
                 writerVars>>

\* Go on once the wait condition is false, and reserve the bytes.
Acquire(w) ==
  /\ pc[w] = "acquire"
  /\ ~MustWait(building[w].bytes, building[w].job)
  /\ inFlight' = inFlight + building[w].bytes
  /\ pc' = [pc EXCEPT ![w] = "send"]
  /\ UNCHANGED <<disk, nextJob, building, resultsCh, applyingJob, emitted,
                 writerVars>>

\* cond.Wait: the worker sleeps until a broadcast.
Block(w) ==
  /\ pc[w] = "acquire"
  /\ MustWait(building[w].bytes, building[w].job)
  /\ pc' = [pc EXCEPT ![w] = "blocked"]
  /\ UNCHANGED <<disk, nextJob, building, resultsCh, emitted, budgetVars,
                 writerVars>>

\* Fault: sub is not advanced between the chunks of a job.
SuccessorSameSub(c) == NewChunk(c.job, c.sub, c.hi)

\* The chunk a worker starts once it has handed c over
Successor(c) == NewChunk(c.job, c.sub + 1, c.hi)

Send(w) ==
  LET c == building[w] IN
  /\ pc[w] = "send"
  /\ Len(resultsCh) < QueueCap
  /\ resultsCh' = Append(resultsCh, c)
  /\ emitted' = emitted \cup {Place(c)}
  /\ pc' = [pc EXCEPT ![w] = IF c.last THEN "idle" ELSE "decode"]
  /\ building' = [building EXCEPT ![w] = IF c.last THEN NoChunk ELSE Successor(c)]
  /\ UNCHANGED <<disk, nextJob, budgetVars, writerVars>>

Worker(w) ==
  \/ TakeJob(w)
  \/ Exit(w)
  \/ DecodePage(w)
  \/ FinishJob(w)
  \/ Acquire(w)
  \/ Block(w)
  \/ Send(w)

-----------------------------------------------------------------------------
(* The writer                                                              *)

Receive ==
  /\ wpc = "recv"
  /\ resultsCh # <<>>
  /\ resultsCh' = Tail(resultsCh)
  /\ reorder' = reorder \cup {Head(resultsCh)}
  /\ wpc' = "pick"
  /\ UNCHANGED <<disk, workerVars, budgetVars, curJob, curSub, current,
                 cursor, applied, book, emitted>>

\* Fault: the chunks of a job are taken as they arrive.
DueByJob(c) == c.job = curJob

\* The chunk whose turn it is
Due(c) == c.job = curJob /\ c.sub = curSub

Pick ==
  /\ wpc = "pick"
  /\ \E c \in reorder :
       /\ Due(c)
       /\ current' = c
       /\ cursor' = c.lo
       /\ reorder' = reorder \ {c}
  /\ wpc' = "apply"
  /\ UNCHANGED <<disk, workerVars, resultsCh, budgetVars, curJob, curSub,
                 applied, book, emitted>>

NothingDue ==
  /\ wpc = "pick"
  /\ \A c \in reorder : ~Due(c)
  /\ wpc' = "recv"
  /\ UNCHANGED <<disk, workerVars, resultsCh, budgetVars, reorder, curJob,
                 curSub, current, cursor, applied, book, emitted>>

\* applyDirectResult for the next page of the chunk; after a write error
\* nothing more is applied.
ApplyPage ==
  /\ wpc = "apply"
  /\ ~book.err
  /\ cursor < current.hi
  /\ book' \in Recorded(book, cursor, disk[cursor],
                        RenderedKeys(disk[cursor], cursor \in current.keyed))
  /\ cursor' = cursor + 1
  /\ applied' = applied + 1
  /\ UNCHANGED <<disk, workerVars, resultsCh, budgetVars, reorder, wpc, curJob,
                 curSub, current, emitted>>

\* cond.Broadcast
Awake == [w \in Workers |-> IF pc[w] = "blocked" THEN "acquire" ELSE pc[w]]

\* Fault: the chunks of an aborted export are not given back.
ReleaseUnlessAborted ==
  /\ wpc = "apply"
  /\ book.err \/ cursor >= current.hi
  /\ inFlight' = IF book.err THEN inFlight ELSE inFlight - current.bytes
  /\ pc' = Awake
  /\ IF current.last
     THEN wpc' = "advance" /\ UNCHANGED curSub
     ELSE wpc' = "pick" /\ curSub' = curSub + 1
  /\ current' = NoChunk
  /\ cursor' = 0
  /\ UNCHANGED <<disk, nextJob, building, resultsCh, applyingJob, reorder,
                 curJob, applied, book, emitted>>

\* budget.release, then on to the next chunk of the job.
Release ==
  /\ wpc = "apply"
  /\ book.err \/ cursor >= current.hi
  /\ inFlight' = inFlight - current.bytes
  /\ pc' = Awake
  /\ IF current.last
     THEN wpc' = "advance" /\ UNCHANGED curSub
     ELSE wpc' = "pick" /\ curSub' = curSub + 1
  /\ current' = NoChunk
  /\ cursor' = 0
  /\ UNCHANGED <<disk, nextJob, building, resultsCh, applyingJob, reorder,
                 curJob, applied, book, emitted>>

\* Fault: the exempt job changes without a broadcast.
AdvanceQuietly ==
  /\ wpc = "advance"
  /\ curJob' = curJob + 1
  /\ curSub' = 0
  /\ applyingJob' = curJob + 1
  /\ wpc' = "pick"
  /\ UNCHANGED <<disk, nextJob, pc, building, resultsCh, inFlight, reorder,
                 current, cursor, applied, book, emitted>>

\* curJob++ and budget.setApplyingJob
Advance ==
  /\ wpc = "advance"
  /\ curJob' = curJob + 1
  /\ curSub' = 0
  /\ applyingJob' = curJob + 1
  /\ pc' = Awake
  /\ wpc' = "pick"
  /\ UNCHANGED <<disk, nextJob, building, resultsCh, inFlight, reorder,
                 current, cursor, applied, book, emitted>>

\* Every worker has returned, resultsCh is closed and drained.
ResultsClosed ==
  /\ wpc = "recv"
  /\ resultsCh = <<>>
  /\ \A w \in Workers : pc[w] = "exit"
  /\ wpc' = "done"
  /\ UNCHANGED <<disk, workerVars, resultsCh, budgetVars, reorder, curJob,
                 curSub, current, cursor, applied, book, emitted>>

Writer ==
  \/ Receive
  \/ Pick
  \/ NothingDue
  \/ ApplyPage
  \/ Release
  \/ Advance
  \/ ResultsClosed

Returned == wpc = "done" /\ UNCHANGED vars

Next == (\E w \in Workers : Worker(w)) \/ Writer \/ Returned

SafeSpec == Init /\ [][Next]_vars

\* Every goroutine that can take a step eventually takes one.
Fairness == (\A w \in Workers : WF_vars(Worker(w))) /\ WF_vars(Writer)

Spec == SafeSpec /\ Fairness

-----------------------------------------------------------------------------
(* Properties                                                              *)

\* Every variable stays in the set of values the code gives it; in particular
\* a worker never decodes past the plan and a chunk never claims a page
\* outside it.
TypeOK ==
  /\ disk \in [Pages -> PageResult]
  /\ nextJob \in Nat
  /\ pc \in [Workers -> WorkerPC]
  /\ building \in [Workers -> Chunk]
  /\ resultsCh \in Seq(Chunk)
  /\ reorder \subseteq Chunk
  /\ inFlight \in Int
  /\ applyingJob \in Nat
  /\ wpc \in WriterPC
  /\ curJob \in Nat
  /\ curSub \in Nat
  /\ current \in Chunk
  /\ cursor \in Nat
  /\ applied \in Nat
  /\ book \in Book
  /\ emitted \subseteq [job : Nat, sub : Nat, lo : Nat, hi : Nat, last : BOOLEAN]

\* The chunks whose bytes are reserved in the budget
Outstanding ==
  {building[w] : w \in {v \in Workers : pc[v] = "send"}}
    \cup ToSet(resultsCh) \cup reorder
    \cup (IF wpc = "apply" THEN {current} ELSE {})

BytesOf(chunks) == MapThenSumSet(LAMBDA c : c.bytes, chunks)

\* The budget counts exactly the bytes of the chunks between acquire and
\* release: emit reserves a chunk once, the writer gives it back once.
BudgetBalanced == inFlight = BytesOf(Outstanding)

LargestPage == Max({disk[p].bytes : p \in Pages} \cup {0})
LargestChunk == ChunkCap - 1 + LargestPage

\* Look-ahead is bounded: the chunks of jobs the writer is not applying never
\* hold more than the memory limit, or than one oversized chunk.
LookaheadBounded ==
  BytesOf({c \in Outstanding : c.job # applyingJob})
    <= Max({MemLimit, LargestChunk})

\* A worker sleeps in acquire only while its wait condition holds: every
\* change that ends the condition is followed by a broadcast in the same
\* critical section.
NoLostWakeup ==
  \A w \in Workers :
    pc[w] = "blocked" => MustWait(building[w].bytes, building[w].job)

\* When runParallelDirect returns, no chunk is left behind: every planned
\* page was applied, or a write error ended the export, and the budget is
\* whole again.
NothingLeftBehind ==
  wpc = "done" => /\ reorder = {}
                  /\ inFlight = 0
                  /\ book.err \/ applied = NumPages

\* Somebody can always go on: the workers never all sleep in acquire or wait
\* for room in resultsCh while the writer waits for a chunk none of them has
\* sent.  (A worker in acquire either reserves or goes to sleep.)
NeverStuck ==
  wpc # "done" =>
    \/ \E w \in Workers : pc[w] \in {"idle", "decode", "acquire"}
    \/ \E w \in Workers : pc[w] = "send" /\ Len(resultsCh) < QueueCap
    \/ wpc \in {"pick", "apply", "advance"}
    \/ wpc = "recv" /\ (resultsCh # <<>> \/ \A w \in Workers : pc[w] = "exit")

\* The pipeline returns under every schedule: the budget, the two channels
\* and the in-order writer never wait for one another in a circle.
Terminates == <>(wpc = "done")

PlanOrder == INSTANCE PlanOrderUnload
               WITH disk <- disk, applied <- applied, book <- book

\* The parallel pipeline is indistinguishable, in its books, from the
\* sequential loop: same order, coverage marking, partial rows and abort.
ImplementsPlanOrder == PlanOrder!Spec

-----------------------------------------------------------------------------
(* Why the order holds: the inductive invariant                            *)

Busy(w) == pc[w] \notin {"idle", "exit"}

\* A job has one owner, and chunks exist only of jobs handed out.
JobsOwned ==
  /\ \A w \in Workers : Busy(w) => building[w].job < nextJob
  /\ \A w, v \in Workers :
       Busy(w) /\ Busy(v) /\ w # v => building[w].job # building[v].job
  /\ \A e \in emitted : e.job < nextJob

\* The chunks of a job follow one another without gap or overlap, from the
\* first page of the job to the end of its last chunk.
ChunksTile ==
  /\ \A c \in emitted :
       /\ c.lo <= c.hi
       /\ c.hi <= JobEnd(c.job)
       /\ c.sub = 0 => c.lo = JobStart(c.job)
       /\ c.last => c.hi = JobEnd(c.job)
  /\ \A c, d \in emitted :
       c.job = d.job => /\ c.sub = d.sub => c = d
                        /\ d.sub = c.sub + 1 => d.lo = c.hi

\* A chunk being built continues the chunks its job has emitted.
BuildingContinues ==
  \A w \in Workers : Busy(w) =>
    LET c == building[w] IN
    /\ c.lo <= c.hi
    /\ c.hi <= JobEnd(c.job)
    /\ c.last => c.hi = JobEnd(c.job)
    /\ c.sub = 0 => c.lo = JobStart(c.job)
    /\ c.sub > 0 => \E e \in emitted :
                      e.job = c.job /\ c.sub = e.sub + 1 /\ e.hi = c.lo
    /\ \A e \in emitted : e.job = c.job => e.sub < c.sub

\* The chunks the writer has or will receive
Sent == ToSet(resultsCh) \cup reorder
          \cup (IF wpc = "apply" THEN {current} ELSE {})

SentEmitted == \A c \in Sent : Place(c) \in emitted

\* The writer stands where the chunk it waits for begins.
WriterInPlace ==
  /\ wpc = "apply" => Due(current)
  /\ ~book.err =>
       /\ wpc = "apply" => /\ cursor = applied
                           /\ current.lo <= cursor
                           /\ cursor <= current.hi
       /\ wpc = "advance" => applied = JobEnd(curJob)
       /\ wpc \in {"recv", "pick"} =>
            IF curSub = 0
            THEN applied = IF JobStart(curJob) > NumPages
                           THEN NumPages ELSE JobStart(curJob)
            ELSE \E e \in emitted :
                   e.job = curJob /\ curSub = e.sub + 1 /\ e.hi = applied

\* While tracking is active, every decoded page carries its coverage keys:
\* a worker that read active() before the writer's overflow still agrees.
KeysInTime ==
  ~book.overflow =>
    /\ \A c \in Sent : \A p \in Pages : c.lo <= p /\ p < c.hi => p \in c.keyed
    /\ \A w \in Workers : Busy(w) =>
         \A p \in Pages : building[w].lo <= p /\ p < building[w].hi
                           => p \in building[w].keyed

\* Chunks tile the plan, each job has one owner, and the writer stands where
\* the next chunk begins: the reason the in-order apply is the plan order.
InOrder ==
  /\ JobsOwned
  /\ ChunksTile
  /\ BuildingContinues
  /\ SentEmitted
  /\ WriterInPlace
  /\ KeysInTime
-----------------------------------------------------------------------------
(* Why nothing is left behind: the second inductive invariant              *)

\* The chunks sent that the writer has not taken yet
Waiting == ToSet(resultsCh) \cup reorder

\* A chunk is in one place at a time, and no two of them have the same
\* place in the plan.
OnceInFlight ==
  /\ \A i, k \in 1 .. Len(resultsCh) : resultsCh[i] = resultsCh[k] => i = k
  /\ ToSet(resultsCh) \cap reorder = {}
  /\ wpc = "apply" => current \notin Waiting
  /\ \A c, d \in Sent : c.job = d.job /\ c.sub = d.sub => c = d

\* A job ends with one last chunk: after it nothing of the job is sent or
\* built, and before it nothing of the job is skipped.
JobsEndOnce ==
  /\ \A d \in emitted : d.last =>
       /\ \A e \in emitted : e.job = d.job => e.sub <= d.sub
       /\ \A w \in Workers : Busy(w) => building[w].job # d.job
  /\ \A e \in emitted : \A s \in 0 .. e.sub - 1 :
       \E d \in emitted : d.job = e.job /\ d.sub = s

Ended(j) == \E e \in emitted : e.job = j /\ e.last

\* Every job handed out is being worked on or has ended; workers return only
\* when there are no more jobs.
JobsAccounted ==
  /\ nextJob <= NumBatches
  /\ \A w \in Workers : pc[w] = "exit" => nextJob = NumBatches
  /\ \A j \in 0 .. nextJob - 1 :
       Ended(j) \/ \E w \in Workers : Busy(w) /\ building[w].job = j

\* The places the writer has not come to yet
Ahead(c) ==
  \/ c.job > curJob
  \/ /\ c.job = curJob
     /\ wpc # "advance"
     /\ IF wpc = "apply" THEN c.sub > curSub ELSE c.sub >= curSub

\* The writer misses no chunk and takes none twice: what waits for it is
\* exactly what was sent for the places ahead.
NothingSkipped ==
  /\ applyingJob = curJob
  /\ \A j \in 0 .. curJob - 1 : Ended(j)
  /\ \A c \in Waiting : Ahead(c)
  /\ \A e \in emitted : Ahead(e) => \E c \in Waiting : Place(c) = e
  /\ wpc = "advance" => Ended(curJob)
  /\ wpc # "advance" /\ curSub > 0 =>
       \E e \in emitted : e.job = curJob /\ e.sub = curSub - 1 /\ ~e.last
  /\ wpc \in {"recv", "done"} => \A c \in reorder : ~Due(c)

\* The chunk a worker builds stays below the cap until its last page.
ChunkSizes ==
  \A w \in Workers :
    /\ pc[w] = "decode" => building[w].bytes < ChunkCap
    /\ pc[w] \in {"acquire", "blocked"} => building[w].bytes <= LargestChunk

\* When the pipeline is done, so are its workers and its channel, and the
\* writer has come to the end of what was applied.
DoneMeansDrained ==
  wpc = "done" =>
    /\ resultsCh = <<>>
    /\ \A w \in Workers : pc[w] = "exit"
    /\ ~book.err =>
         IF curSub = 0
         THEN applied = IF JobStart(curJob) > NumPages
                        THEN NumPages ELSE JobStart(curJob)
         ELSE \E e \in emitted : e.job = curJob

\* Chunks flow from the workers to the writer without loss: each is in one
\* place at a time, jobs end once, and what waits for the writer is what it
\* has not come to yet.
Flow ==
  /\ OnceInFlight
  /\ JobsEndOnce
  /\ JobsAccounted
  /\ NothingSkipped
  /\ ChunkSizes
  /\ DoneMeansDrained
=============================================================================
