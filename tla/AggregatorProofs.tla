--------------------------- MODULE AggregatorProofs ---------------------------
(***************************************************************************)
(* What MetricsAggregator promises, proved for any set of workers, any     *)
(* runtime and so any size of the ring: the two threads that take          *)
(* snapshots never do so together, no snapshot shows more than one request *)
(* ahead of its outcome, the display never goes back, the rows partition   *)
(* the run and come out of the ring in order, and the last numbers are     *)
(* exact.                                                                  *)
(*                                                                         *)
(* All of it is in one inductive invariant, IInv: what a snapshot half     *)
(* taken already shows, what the diff basis is while it moves to it worker *)
(* by worker, and when the last tick was.                                  *)
(***************************************************************************)
EXTENDS MetricsAggregator, SequenceTheorems, TLAPS

Jobs == [delta : Int, ios : Nat, blocks : Nat, errors : Nat]
Rows == [at : Nat, since_prev : Int, record : BOOLEAN, todo : SUBSET Workers,
         jobs : [Workers -> Jobs]]

Reads == {"read_ios", "read_blocks", "read_errors", "read_done"}
Taking == Reads \cup {"publish", "record"}
SamplerPlaces == {"test", "wait", "ended"} \cup Taking
MainPlaces == {"run", "join_workers", "join_sampler", "final", "done", "built",
               "destroy", "gone"} \cup Taking

\* The sampling thread has been joined; the workers' threads have been.
SamplerJoined == {"final", "done", "built", "gone"} \cup Taking
WorkersJoined == {"join_sampler", "final", "done", "built"} \cup Taking

\* The types, of which the bounds of the runs are no part.
CounterTypes ==
  /\ now \in Nat /\ wake \in Nat /\ tick \in Nat
  /\ prev_sample_time \in Nat /\ end_time \in Nat
  /\ ios \in [Workers -> Nat] /\ blocks \in [Workers -> Nat]
  /\ errors \in [Workers -> Nat] /\ prev_ios \in [Workers -> Nat]
  /\ counted \in [Workers -> BOOLEAN]

SnapshotTypes ==
  /\ local \in [Threads -> Rows]
  /\ latest_snapshot \in Rows

RowTypes ==
  /\ rows \in Seq(Rows)
  /\ ring \in [0 .. ts_capacity - 1 -> Rows]
  /\ ts_write_index \in 0 .. ts_capacity - 1
  /\ ts_count = Len(rows)

\* Where the threads are: the main thread takes its snapshot, and is done,
\* only when the sampling thread has ended and no worker counts any more.
PlaceInv ==
  /\ pc \in [Threads -> SamplerPlaces \cup MainPlaces]
  /\ pc["sampler"] \in SamplerPlaces /\ pc["main"] \in MainPlaces
  /\ pc["main"] \in SamplerJoined => pc["sampler"] = "ended"
  /\ pc["main"] \in WorkersJoined => \A w \in Workers : ~counted[w]

\* Every request counted has its outcome, the last one of a worker excepted.
CountInv ==
  \A w \in Workers :
    ios[w] = blocks[w] + errors[w] + (IF counted[w] THEN 1 ELSE 0)

\* What the snapshot of a thread shows of a worker already.
HasIos(t, w) ==
  \/ w \notin local[t].todo
  \/ w = NextWorker(t) /\ pc[t] \in {"read_blocks", "read_errors", "read_done"}
HasBlocks(t, w) ==
  \/ w \notin local[t].todo
  \/ w = NextWorker(t) /\ pc[t] \in {"read_errors", "read_done"}
HasErrors(t, w) ==
  \/ w \notin local[t].todo
  \/ w = NextWorker(t) /\ pc[t] = "read_done"

\* A snapshot half taken: it visits a worker still to do, it records where it
\* is recorded, and it is later than the one on display.
SnapshotInv ==
  \A t \in Threads : pc[t] \in Taking =>
    /\ pc[t] \in Reads <=> local[t].todo # {}
    /\ pc[t] = "record" => local[t].record
    /\ latest_snapshot.at <= local[t].at
    /\ local[t].at <= now

\* What it shows is no less than the display does, no more than was counted,
\* and at most one request ahead of the bytes and the errors.
ReadInv ==
  \A t \in Threads, w \in Workers : pc[t] \in Taking =>
    LET job == local[t].jobs[w]
        shown == latest_snapshot.jobs[w]
    IN  /\ HasIos(t, w) => shown.ios <= job.ios /\ job.ios <= ios[w]
        /\ HasBlocks(t, w) =>
             /\ shown.blocks <= job.blocks /\ job.blocks <= blocks[w]
             /\ job.ios <= job.blocks + errors[w] + 1
        /\ HasErrors(t, w) =>
             /\ shown.errors <= job.errors /\ job.errors <= errors[w]
             /\ job.ios <= job.blocks + job.errors + 1

\* The main thread reads counters nobody changes any more.
FinalReadInv ==
  \A w \in Workers : pc["main"] \in Taking =>
    LET job == local["main"].jobs[w]
    IN  /\ HasIos("main", w) => job.ios = ios[w]
        /\ HasBlocks("main", w) => job.blocks = blocks[w]
        /\ HasErrors("main", w) => job.errors = errors[w]

\* What is on display.
DisplayInv ==
  /\ latest_snapshot.at <= now
  /\ \A w \in Workers :
       LET shown == latest_snapshot.jobs[w]
       IN  /\ shown.ios <= ios[w] /\ shown.blocks <= blocks[w]
           /\ shown.errors <= errors[w]
           /\ shown.ios <= shown.blocks + shown.errors + 1
  /\ pc["main"] \in {"done", "built"} =>
       \A w \in Workers :
         LET shown == latest_snapshot.jobs[w]
         IN  /\ shown.ios = ios[w] /\ shown.blocks = blocks[w]
             /\ shown.errors = errors[w]

\* A snapshot that records is not among the rows yet.
Pending(t) == /\ pc[t] \in Taking /\ local[t].record
              /\ ~(t = "main" /\ pc[t] = "publish")

\* The diff basis is the last row, and moves to the snapshot that is to be the
\* next one: worker by worker, and at the last worker in time.
BasisInv ==
  /\ \A t \in Threads : Pending(t) =>
       /\ local[t].since_prev = local[t].at - LastRow.at
       /\ local[t].since_prev >= MinFinalRecord
       /\ prev_sample_time = IF local[t].todo = {} THEN local[t].at
                                                  ELSE LastRow.at
       /\ \A w \in Workers :
            /\ prev_ios[w] = IF w \in local[t].todo THEN LastRow.jobs[w].ios
                                                    ELSE local[t].jobs[w].ios
            /\ HasIos(t, w) => local[t].jobs[w].delta
                               = local[t].jobs[w].ios - LastRow.jobs[w].ios
  /\ (\A t \in Threads : ~Pending(t)) =>
       /\ prev_sample_time = LastRow.at
       /\ \A w \in Workers : prev_ios[w] = LastRow.jobs[w].ios

\* When things happen: the sampling thread waits a tick beyond the last row,
\* and after an odd tick, which records nothing, a row is due at the stop.
Odd == tick % TicksPerRecord # 0
TimeInv ==
  /\ prev_sample_time <= now /\ end_time <= now
  /\ pc["sampler"] = "wait" => wake >= prev_sample_time + 1
  /\ pc["sampler"] \in Taking => (local["sampler"].record <=> ~Odd)
  /\ Odd /\ pc["main"] \notin Taking \cup {"done", "built"} =>
       now >= prev_sample_time + MinFinalRecord
  /\ pc["main"] \in Taking =>
       /\ Odd => local["main"].record
       /\ ~local["main"].record => end_time < prev_sample_time + MinFinalRecord

\* The row of the last snapshot is the last one; without it, next to no time
\* is left out.
FinalRowInv ==
  /\ pc["main"] = "publish" /\ local["main"].record =>
       rows # <<>> /\ LastRow = local["main"]
  /\ pc["main"] \in {"done", "built"} =>
       /\ Odd => rows # <<>> /\ LastRow = latest_snapshot
       /\ \/ \A w \in Workers : LastRow.jobs[w].ios = ios[w]
          \/ end_time < prev_sample_time + MinFinalRecord

\* Each row begins where the one before it ended.
ChainInv ==
  \A i \in DOMAIN rows :
    /\ rows[i].since_prev = rows[i].at - Before(i).at
    /\ rows[i].since_prev >= MinFinalRecord
    /\ \A w \in Workers : rows[i].jobs[w].delta
                          = rows[i].jobs[w].ios - Before(i).jobs[w].ios

\* The slot of the j-th row from the last, where the next one goes into n.
Slot(n, j) == IF j <= n THEN n - j ELSE n - j + ts_capacity

\* The ring holds the last rows, before the place the next one goes to, and
\* fills from its first slot.
RingInv ==
  /\ Len(rows) < ts_capacity => ts_write_index = Len(rows)
  /\ Len(rows) = ts_capacity => ts_write_index = 0
  /\ \A j \in 1 .. ts_capacity :
       j <= Len(rows) =>
         ring[Slot(ts_write_index, j)] = rows[Len(rows) + 1 - j]

ResultsInv ==
  pc["main"] = "built" =>
    built = [jobs |-> [w \in Workers |->
                          [delta |-> 0, ios |-> ios[w],
                           blocks |-> blocks[w], errors |-> errors[w]]],
               time_series |-> TimeSeries]

IInv == /\ CounterTypes /\ SnapshotTypes /\ RowTypes /\ PlaceInv
        /\ CountInv /\ SnapshotInv /\ ReadInv /\ FinalReadInv /\ DisplayInv
        /\ BasisInv /\ TimeInv /\ FinalRowInv /\ ChainInv /\ RingInv
        /\ ResultsInv

-----------------------------------------------------------------------------
\* The operators.

\* The ring has at least one slot.
LEMMA CapacityIsPositive == ts_capacity \in Nat \ {0}
<1>1. 1 \in {1, Runtime} /\ Runtime \in {1, Runtime}
  OBVIOUS
<1>2. Runtime \in Nat
  BY AggregatorAssumption
<1>3. Max({1, Runtime}) = IF Runtime > 1 THEN Runtime ELSE 1
  BY <1>2 DEF Max
<1>. QED  BY <1>2, <1>3 DEF ts_capacity

\* An empty snapshot is one.
LEMMA EmptyIsARow == Empty \in Rows /\ Empty.jobs = NoJobs
                     /\ NoJobs \in [Workers -> Jobs] /\ Empty.at = 0
BY DEF Empty, NoJobs, Rows, Jobs

\* The worker visited next is one still to do.
LEMMA NextWorkerIsToDo ==
  ASSUME NEW t, local[t].todo # {}
  PROVE  NextWorker(t) \in local[t].todo
BY DEF NextWorker

\* It stays the same while the set of those does.
LEMMA NextWorkerStays ==
  ASSUME NEW t, local'[t].todo = local[t].todo
  PROVE  NextWorker(t)' = NextWorker(t)
<1>. DEFINE Choice(S) == CHOOSE w \in S : TRUE
<1>1. NextWorker(t) = Choice(local[t].todo)
  BY DEF NextWorker
<1>2. NextWorker(t)' = Choice(local'[t].todo)
  BY DEF NextWorker
<1>. HIDE DEF Choice
<1>. QED  BY <1>1, <1>2

\* The last row is a snapshot, the empty one before the first.
LEMMA LastRowIsARow ==
  ASSUME RowTypes
  PROVE  LastRow \in Rows
<1>1. Len(rows) \in Nat
  BY DEF RowTypes
<1>2. CASE Len(rows) = 0
  BY <1>2, EmptyIsARow DEF LastRow, Before
<1>3. CASE Len(rows) # 0
  BY <1>1, <1>3 DEF LastRow, Before, RowTypes
<1>. QED  BY <1>2, <1>3

\* It depends on the rows only.
LEMMA LastRowStays ==
  ASSUME rows' = rows
  PROVE  LastRow' = LastRow
BY DEF LastRow, Before

\* A row appended is the last one.
LEMMA LastRowAppended ==
  ASSUME RowTypes, NEW row \in Rows, rows' = Append(rows, row)
  PROVE  LastRow' = row /\ rows' # <<>>
<1>1. Len(rows) \in Nat
  BY DEF RowTypes
<1>2. /\ Len(rows') = Len(rows) + 1
      /\ rows'[Len(rows) + 1] = row
  BY DEF RowTypes
<1>3. LastRow' = IF Len(rows') + 1 = 1 THEN Empty ELSE rows'[Len(rows') + 1 - 1]
  BY DEF LastRow, Before
<1>4. Len(rows') + 1 # 1 /\ Len(rows') + 1 - 1 = Len(rows) + 1
  BY <1>1, <1>2
<1>. QED  BY <1>1, <1>2, <1>3, <1>4

\* The two threads do not take a snapshot at the same time, and the main one
\* takes its own when the other has ended.
LEMMA OneTakes ==
  ASSUME PlaceInv, NEW t \in Threads, pc[t] \in Taking
  PROVE  /\ \A u \in Threads : u # t => pc[u] \notin Taking
         /\ t = "main" => pc["sampler"] = "ended"
         /\ t = "sampler" => pc["main"] \notin SamplerJoined
BY DEF PlaceInv, Threads, Taking, SamplerJoined, Reads

\* What is about the rows alone stays while they do.
LEMMA RowsStay ==
  ASSUME IInv, UNCHANGED seriesVars
  PROVE  /\ RowTypes' /\ ChainInv' /\ RingInv'
         /\ LastRow' = LastRow /\ TimeSeries' = TimeSeries
<1>1. /\ rows' = rows /\ ring' = ring /\ ts_write_index' = ts_write_index
      /\ ts_count' = ts_count
  BY DEF seriesVars
<1>2. RowTypes'
  BY <1>1 DEF IInv, RowTypes
<1>3. ChainInv'
  BY <1>1 DEF IInv, ChainInv, Before
<1>4. RingInv'
  BY <1>1 DEF IInv, RingInv, Slot
<1>5. LastRow' = LastRow
  BY <1>1, LastRowStays
<1>6. TimeSeries' = TimeSeries
  BY <1>1 DEF TimeSeries
<1>. QED  BY <1>2, <1>3, <1>4, <1>5, <1>6

-----------------------------------------------------------------------------
\* Reading the counters of a worker.

Reading(t) == ReadIos(t) \/ ReadBlocks(t) \/ ReadErrors(t)

\* One job of a snapshot, as each of the reads changes it.
LEMMA JobsRead ==
  ASSUME NEW job \in Jobs, NEW n \in Nat, NEW d \in Int
  PROVE  /\ [job EXCEPT !.ios = n, !.delta = d] \in Jobs
         /\ [job EXCEPT !.ios = n, !.delta = d].ios = n
         /\ [job EXCEPT !.ios = n, !.delta = d].delta = d
         /\ [job EXCEPT !.blocks = n] \in Jobs
         /\ [job EXCEPT !.blocks = n].blocks = n
         /\ [job EXCEPT !.blocks = n].ios = job.ios
         /\ [job EXCEPT !.blocks = n].delta = job.delta
         /\ [job EXCEPT !.errors = n] \in Jobs
         /\ [job EXCEPT !.errors = n].errors = n
         /\ [job EXCEPT !.errors = n].blocks = job.blocks
         /\ [job EXCEPT !.errors = n].ios = job.ios
         /\ [job EXCEPT !.errors = n].delta = job.delta
BY DEF Jobs

\* A snapshot that shows something new of one worker shows the rest as before.
LEMMA ShowsMoves ==
  ASSUME local \in [Threads -> Rows], NEW t \in Threads,
         NextWorker(t) \in Workers, NEW job \in Jobs, Shows(t, job)
  PROVE  /\ local' \in [Threads -> Rows]
         /\ \A u \in Threads : u # t => local'[u] = local[u]
         /\ local'[t].at = local[t].at
         /\ local'[t].since_prev = local[t].since_prev
         /\ local'[t].record = local[t].record
         /\ local'[t].todo = local[t].todo
         /\ local'[t].jobs[NextWorker(t)] = job
         /\ \A v \in Workers :
              v # NextWorker(t) => local'[t].jobs[v] = local[t].jobs[v]
<1>1. PICK w \in Workers : w = NextWorker(t)
  OBVIOUS
<1>2. PICK old \in Rows : old = local[t]
  OBVIOUS
<1>3. PICK jobs \in [Workers -> Jobs] : jobs = [old.jobs EXCEPT ![w] = job]
  BY DEF Rows
<1>4. PICK new : new = [old EXCEPT !.jobs = jobs]
  OBVIOUS
<1>5. local' = [local EXCEPT ![t] = new]
  BY <1>1, <1>2, <1>3, <1>4 DEF Shows
<1>6. /\ new \in Rows /\ new.jobs = jobs
      /\ new.at = old.at /\ new.since_prev = old.since_prev
      /\ new.record = old.record /\ new.todo = old.todo
  BY <1>4 DEF Rows
<1>7. /\ local' \in [Threads -> Rows] /\ local'[t] = new
      /\ \A u \in Threads : u # t => local'[u] = local[u]
  BY <1>5, <1>6
<1>8. /\ jobs[w] = job
      /\ \A v \in Workers : v # w => jobs[v] = old.jobs[v]
  BY <1>3 DEF Rows
<1>. QED  BY <1>1, <1>2, <1>6, <1>7, <1>8

\* The step of a read: the places, and what the snapshot shows then.
LEMMA ReadingMoves ==
  ASSUME IInv, NEW t \in Threads, Reading(t)
  PROVE  /\ NextWorker(t) \in local[t].todo /\ NextWorker(t) \in Workers
         /\ local' \in [Threads -> Rows]
         /\ \A u \in Threads : u # t => local'[u] = local[u] /\ pc'[u] = pc[u]
         /\ pc' \in [Threads -> SamplerPlaces \cup MainPlaces]
         /\ local'[t].at = local[t].at
         /\ local'[t].since_prev = local[t].since_prev
         /\ local'[t].record = local[t].record
         /\ local'[t].todo = local[t].todo
         /\ \A v \in Workers :
              v # NextWorker(t) => local'[t].jobs[v] = local[t].jobs[v]
         /\ \/ /\ pc[t] = "read_ios" /\ pc'[t] = "read_blocks"
               /\ local'[t].jobs[NextWorker(t)].ios = ios[NextWorker(t)]
               /\ local'[t].jobs[NextWorker(t)].delta
                    = ios[NextWorker(t)] - prev_ios[NextWorker(t)]
            \/ /\ pc[t] = "read_blocks" /\ pc'[t] = "read_errors"
               /\ local'[t].jobs[NextWorker(t)].ios
                    = local[t].jobs[NextWorker(t)].ios
               /\ local'[t].jobs[NextWorker(t)].delta
                    = local[t].jobs[NextWorker(t)].delta
               /\ local'[t].jobs[NextWorker(t)].blocks = blocks[NextWorker(t)]
            \/ /\ pc[t] = "read_errors" /\ pc'[t] = "read_done"
               /\ local'[t].jobs[NextWorker(t)].ios
                    = local[t].jobs[NextWorker(t)].ios
               /\ local'[t].jobs[NextWorker(t)].delta
                    = local[t].jobs[NextWorker(t)].delta
               /\ local'[t].jobs[NextWorker(t)].blocks
                    = local[t].jobs[NextWorker(t)].blocks
               /\ local'[t].jobs[NextWorker(t)].errors = errors[NextWorker(t)]
<1>1. pc[t] \in Reads /\ pc[t] \in Taking
  BY DEF Reading, ReadIos, ReadBlocks, ReadErrors, Reads, Taking
<1>2. NextWorker(t) \in local[t].todo
  BY <1>1, NextWorkerIsToDo DEF IInv, SnapshotInv
<1>3. local[t] \in Rows /\ local \in [Threads -> Rows]
  BY DEF IInv, SnapshotTypes
<1>4. PICK w \in Workers : w = NextWorker(t)
  BY <1>2, <1>3 DEF Rows
<1>5. PICK job \in Jobs : job = local[t].jobs[w]
  BY <1>3 DEF Rows
<1>6. /\ ios[w] \in Nat /\ blocks[w] \in Nat /\ errors[w] \in Nat
      /\ prev_ios[w] \in Nat /\ ios[w] - prev_ios[w] \in Int
  BY DEF IInv, CounterTypes
<1>7. pc \in [Threads -> SamplerPlaces \cup MainPlaces]
  BY DEF IInv, PlaceInv
<1>8. CASE ReadIos(t)
  <2>0. PICK n \in Nat, d \in Int : n = ios[w] /\ d = ios[w] - prev_ios[w]
    BY <1>6
  <2>. DEFINE new == [job EXCEPT !.ios = n, !.delta = d]
  <2>1. /\ Shows(t, new) /\ pc[t] = "read_ios"
        /\ pc' = [pc EXCEPT ![t] = "read_blocks"]
    BY <1>4, <1>5, <1>8, <2>0 DEF ReadIos, Goto, ReadOrder
  <2>2. new \in Jobs /\ new.ios = n /\ new.delta = d
    BY DEF Jobs
  <2>3. /\ pc'[t] = "read_blocks" /\ \A u \in Threads : u # t => pc'[u] = pc[u]
        /\ pc' \in [Threads -> SamplerPlaces \cup MainPlaces]
    BY <1>7, <2>1 DEF SamplerPlaces, Taking, Reads
  <2>. HIDE DEF new
  <2>. QED  BY <1>2, <1>3, <1>4, <2>0, <2>1, <2>2, <2>3, ShowsMoves
<1>9. CASE ReadBlocks(t)
  <2>. DEFINE new == [job EXCEPT !.blocks = blocks[w]]
  <2>1. /\ Shows(t, new) /\ pc[t] = "read_blocks"
        /\ pc' = [pc EXCEPT ![t] = "read_errors"]
    BY <1>4, <1>5, <1>9 DEF ReadBlocks, Goto, ReadOrder
  <2>2. /\ new \in Jobs /\ new.ios = job.ios /\ new.delta = job.delta
        /\ new.blocks = blocks[w]
    BY <1>6, JobsRead
  <2>3. /\ pc'[t] = "read_errors" /\ \A u \in Threads : u # t => pc'[u] = pc[u]
        /\ pc' \in [Threads -> SamplerPlaces \cup MainPlaces]
    BY <1>7, <2>1 DEF SamplerPlaces, Taking, Reads
  <2>. HIDE DEF new
  <2>. QED  BY <1>2, <1>3, <1>4, <1>5, <2>1, <2>2, <2>3, ShowsMoves
<1>10. CASE ReadErrors(t)
  <2>. DEFINE new == [job EXCEPT !.errors = errors[w]]
  <2>1. /\ Shows(t, new) /\ pc[t] = "read_errors"
        /\ pc' = [pc EXCEPT ![t] = "read_done"]
    BY <1>4, <1>5, <1>10 DEF ReadErrors, Goto, ReadOrder
  <2>2. /\ new \in Jobs /\ new.ios = job.ios /\ new.delta = job.delta
        /\ new.blocks = job.blocks /\ new.errors = errors[w]
    BY <1>6, JobsRead
  <2>3. /\ pc'[t] = "read_done" /\ \A u \in Threads : u # t => pc'[u] = pc[u]
        /\ pc' \in [Threads -> SamplerPlaces \cup MainPlaces]
    BY <1>7, <2>1 DEF SamplerPlaces, Taking, Reads
  <2>. HIDE DEF new
  <2>. QED  BY <1>2, <1>3, <1>4, <1>5, <2>1, <2>2, <2>3, ShowsMoves
<1>. QED  BY <1>8, <1>9, <1>10 DEF Reading

\* A read keeps the invariant.
LEMMA ReadingKeeps ==
  ASSUME IInv, NEW t \in Threads, Reading(t)
  PROVE  IInv'
<1>. DEFINE w == NextWorker(t)
<1>1. /\ UNCHANGED <<now, g_running, workerVars, wake, tick, stop, basisVars,
                     end_time, latest_snapshot, seriesVars, built>>
      /\ pc[t] \in Reads /\ pc[t] \in Taking
  BY DEF Reading, ReadIos, ReadBlocks, ReadErrors, Reads, Taking
<1>2. /\ NextWorker(t)' = w /\ w \in local[t].todo /\ w \in Workers
      /\ LastRow' = LastRow /\ Odd' = Odd
  BY <1>1, ReadingMoves, NextWorkerStays, LastRowStays DEF seriesVars, Odd
<1>3. /\ pc'[t] \in Reads /\ pc'[t] \in Taking
      /\ pc[t] # "publish" /\ pc'[t] # "publish" /\ pc'[t] # "record"
      /\ \A u \in Threads : u # t => pc'[u] = pc[u] /\ pc[u] \notin Taking
  <2>1. \A u \in Threads : u # t => pc'[u] = pc[u]
    BY ReadingMoves
  <2>2. \A u \in Threads : u # t => pc[u] \notin Taking
    BY <1>1, OneTakes DEF IInv
  <2>3. pc'[t] \in {"read_blocks", "read_errors", "read_done"}
    BY ReadingMoves
  <2>. QED  BY <1>1, <2>1, <2>2, <2>3 DEF Reads, Taking
<1>4. /\ local' \in [Threads -> Rows]
      /\ \A u \in Threads : u # t => local'[u] = local[u]
      /\ local'[t].at = local[t].at
      /\ local'[t].since_prev = local[t].since_prev
      /\ local'[t].record = local[t].record
      /\ local'[t].todo = local[t].todo
      /\ \A v \in Workers : v # w => local'[t].jobs[v] = local[t].jobs[v]
  BY ReadingMoves
<1>5. \A v \in Workers : v # w =>
        /\ HasIos(t, v) => v \notin local[t].todo
        /\ HasBlocks(t, v) => v \notin local[t].todo
        /\ HasErrors(t, v) => v \notin local[t].todo
        /\ HasIos(t, v)' <=> HasIos(t, v)
        /\ HasBlocks(t, v)' <=> HasBlocks(t, v)
        /\ HasErrors(t, v)' <=> HasErrors(t, v)
  BY <1>2, <1>4 DEF HasIos, HasBlocks, HasErrors
<1>6. CounterTypes' /\ SnapshotTypes' /\ RowTypes'
  BY <1>1, <1>4 DEF IInv, CounterTypes, SnapshotTypes, RowTypes, workerVars,
     seriesVars, basisVars
<1>7. PlaceInv'
  BY <1>1, <1>3, ReadingMoves DEF IInv, PlaceInv, Threads, SamplerJoined,
     WorkersJoined, Taking, Reads, SamplerPlaces, MainPlaces, workerVars
<1>8. CountInv'
  BY <1>1 DEF IInv, CountInv, workerVars
<1>9. SnapshotInv'
  BY <1>1, <1>2, <1>3, <1>4 DEF IInv, SnapshotInv
<1>10. ASSUME NEW v \in Workers
       PROVE  /\ local[t].jobs[v] \in Jobs /\ local'[t].jobs[v] \in Jobs
              /\ ios[v] \in Nat /\ blocks[v] \in Nat /\ errors[v] \in Nat
              /\ latest_snapshot.jobs[v] \in Jobs
              /\ LastRow.jobs[v] \in Jobs /\ prev_ios[v] \in Nat
  <2>1. /\ local[t] \in Rows /\ local'[t] \in Rows /\ latest_snapshot \in Rows
        /\ LastRow \in Rows
    BY <1>4, LastRowIsARow DEF IInv, SnapshotTypes
  <2>2. \A row \in Rows : row.jobs[v] \in Jobs
    BY DEF Rows
  <2>3. /\ ios[v] \in Nat /\ blocks[v] \in Nat /\ errors[v] \in Nat
        /\ prev_ios[v] \in Nat
    BY DEF IInv, CounterTypes
  <2>. QED  BY <2>1, <2>2, <2>3
<1>11. /\ latest_snapshot' = latest_snapshot
       /\ ios' = ios /\ blocks' = blocks /\ errors' = errors
       /\ prev_ios' = prev_ios /\ prev_sample_time' = prev_sample_time
       /\ now' = now /\ end_time' = end_time /\ rows' = rows
  BY <1>1 DEF workerVars, basisVars, seriesVars
<1>12. ReadInv'
  <2>1. \A u \in Threads : u # t => pc'[u] \notin Taking
    BY <1>3
  <2>2. SUFFICES ASSUME NEW v \in Workers
                 PROVE  LET job == local'[t].jobs[v]
                            shown == latest_snapshot.jobs[v]
                        IN  /\ HasIos(t, v)' =>
                                 shown.ios <= job.ios /\ job.ios <= ios[v]
                            /\ HasBlocks(t, v)' =>
                                 /\ shown.blocks <= job.blocks
                                 /\ job.blocks <= blocks[v]
                                 /\ job.ios <= job.blocks + errors[v] + 1
                            /\ HasErrors(t, v)' =>
                                 /\ shown.errors <= job.errors
                                 /\ job.errors <= errors[v]
                                 /\ job.ios <= job.blocks + job.errors + 1
    BY <1>11, <2>1 DEF ReadInv
  <2>3. CASE v # w
    BY <1>1, <1>4, <1>5, <2>3 DEF IInv, ReadInv
  <2>4. CASE v = w
    <3>1. /\ latest_snapshot.jobs[v].ios <= ios[v]
          /\ latest_snapshot.jobs[v].blocks <= blocks[v]
          /\ latest_snapshot.jobs[v].errors <= errors[v]
      BY DEF IInv, DisplayInv
    <3>2. ios[v] <= blocks[v] + errors[v] + 1
      BY <1>10 DEF IInv, CountInv
    <3>3. CASE pc[t] = "read_ios"
      <4>1. ~HasBlocks(t, v)' /\ ~HasErrors(t, v)'
        BY <1>2, <1>4, <2>4, <3>3, ReadingMoves DEF HasBlocks, HasErrors
      <4>. QED  BY <1>10, <2>4, <3>1, <3>3, <4>1, ReadingMoves
    <3>4. CASE pc[t] = "read_blocks"
      <4>1. ~HasErrors(t, v)' /\ HasIos(t, v)
        BY <1>2, <1>4, <2>4, <3>4, ReadingMoves DEF HasIos, HasErrors
      <4>2. /\ latest_snapshot.jobs[v].ios <= local[t].jobs[v].ios
            /\ local[t].jobs[v].ios <= ios[v]
        BY <1>1, <4>1 DEF IInv, ReadInv
      <4>3. /\ local'[t].jobs[v].ios = local[t].jobs[v].ios
            /\ local'[t].jobs[v].blocks = blocks[v]
        BY <2>4, <3>4, ReadingMoves
      <4>. QED  BY <1>10, <3>1, <3>2, <4>1, <4>2, <4>3 DEF Jobs
    <3>5. CASE pc[t] = "read_errors"
      <4>1. HasIos(t, v) /\ HasBlocks(t, v)
        BY <2>4, <3>5 DEF HasIos, HasBlocks
      <4>2. /\ latest_snapshot.jobs[v].ios <= local[t].jobs[v].ios
            /\ local[t].jobs[v].ios <= ios[v]
            /\ latest_snapshot.jobs[v].blocks <= local[t].jobs[v].blocks
            /\ local[t].jobs[v].blocks <= blocks[v]
            /\ local[t].jobs[v].ios <= local[t].jobs[v].blocks + errors[v] + 1
        BY <1>1, <4>1 DEF IInv, ReadInv
      <4>3. /\ local'[t].jobs[v].ios = local[t].jobs[v].ios
            /\ local'[t].jobs[v].blocks = local[t].jobs[v].blocks
            /\ local'[t].jobs[v].errors = errors[v]
        BY <2>4, <3>5, ReadingMoves
      <4>. QED  BY <1>10, <3>1, <4>2, <4>3 DEF Jobs
    <3>. QED  BY <3>3, <3>4, <3>5, ReadingMoves
  <2>. QED  BY <2>3, <2>4
<1>13. FinalReadInv'
  <2>1. SUFFICES ASSUME NEW v \in Workers, t = "main"
                 PROVE  LET job == local'[t].jobs[v]
                        IN  /\ HasIos(t, v)' => job.ios = ios[v]
                            /\ HasBlocks(t, v)' => job.blocks = blocks[v]
                            /\ HasErrors(t, v)' => job.errors = errors[v]
    BY <1>3, <1>11 DEF FinalReadInv, Threads
  <2>2. CASE v # w
    BY <1>1, <1>4, <1>5, <2>1, <2>2 DEF IInv, FinalReadInv
  <2>3. CASE v = w
    <3>1. /\ HasIos(t, v) => local[t].jobs[v].ios = ios[v]
          /\ HasBlocks(t, v) => local[t].jobs[v].blocks = blocks[v]
      BY <1>1, <2>1 DEF IInv, FinalReadInv
    <3>2. CASE pc[t] = "read_ios"
      <4>1. ~HasBlocks(t, v)' /\ ~HasErrors(t, v)'
        BY <1>2, <1>4, <2>3, <3>2, ReadingMoves DEF HasBlocks, HasErrors
      <4>. QED  BY <2>3, <3>2, <4>1, ReadingMoves
    <3>3. CASE pc[t] = "read_blocks"
      <4>1. ~HasErrors(t, v)' /\ HasIos(t, v)
        BY <1>2, <1>4, <2>3, <3>3, ReadingMoves DEF HasIos, HasErrors
      <4>. QED  BY <2>3, <3>1, <3>3, <4>1, ReadingMoves
    <3>4. CASE pc[t] = "read_errors"
      <4>1. HasIos(t, v) /\ HasBlocks(t, v)
        BY <2>3, <3>4 DEF HasIos, HasBlocks
      <4>. QED  BY <2>3, <3>1, <3>4, <4>1, ReadingMoves
    <3>. QED  BY <3>2, <3>3, <3>4, ReadingMoves
  <2>. QED  BY <2>2, <2>3
<1>14. DisplayInv'
  <2>1. pc'["main"] \in {"done", "built"} => pc["main"] \in {"done", "built"}
    BY <1>3 DEF Threads, Taking, Reads
  <2>. QED  BY <1>11, <2>1 DEF IInv, DisplayInv
<1>15. /\ Pending(t)' <=> Pending(t)
       /\ \A u \in Threads : u # t => ~Pending(u) /\ ~Pending(u)'
  BY <1>1, <1>3, <1>4 DEF Pending
<1>16. BasisInv'
  <2>1. SUFFICES ASSUME Pending(t), NEW v \in Workers, HasIos(t, v)'
                 PROVE  local'[t].jobs[v].delta
                        = local'[t].jobs[v].ios - LastRow.jobs[v].ios
    <3>1. SUFFICES ASSUME Pending(t)
                   PROVE  /\ local[t].since_prev = local[t].at - LastRow.at
                          /\ local[t].since_prev >= MinFinalRecord
                          /\ prev_sample_time = IF local[t].todo = {}
                                                  THEN local[t].at
                                                  ELSE LastRow.at
                          /\ \A v \in Workers :
                               prev_ios[v] = IF v \in local[t].todo
                                               THEN LastRow.jobs[v].ios
                                               ELSE local'[t].jobs[v].ios
      BY <1>2, <1>4, <1>11, <1>15, <2>1 DEF IInv, BasisInv
    <3>2. \A v \in Workers : v \notin local[t].todo =>
            local'[t].jobs[v].ios = local[t].jobs[v].ios
      BY <1>2, <1>4
    <3>. QED  BY <3>1, <3>2 DEF IInv, BasisInv
  <2>2. /\ HasIos(t, v) => local[t].jobs[v].delta
                           = local[t].jobs[v].ios - LastRow.jobs[v].ios
        /\ v \in local[t].todo => prev_ios[v] = LastRow.jobs[v].ios
    BY <2>1 DEF IInv, BasisInv
  <2>3. CASE v # w
    BY <1>4, <1>5, <2>1, <2>2, <2>3
  <2>4. CASE v = w /\ pc[t] = "read_ios"
    BY <1>2, <2>2, <2>4, ReadingMoves
  <2>5. CASE v = w /\ pc[t] \in {"read_blocks", "read_errors"}
    <3>1. HasIos(t, v)
      BY <2>5 DEF HasIos
    <3>2. /\ local'[t].jobs[v].ios = local[t].jobs[v].ios
          /\ local'[t].jobs[v].delta = local[t].jobs[v].delta
      BY <2>5, ReadingMoves
    <3>. QED  BY <2>2, <3>1, <3>2
  <2>. QED  BY <2>3, <2>4, <2>5, ReadingMoves
<1>17. TimeInv'
  <2>1. /\ pc'["sampler"] = "wait" => pc["sampler"] = "wait"
        /\ pc'["sampler"] \in Taking =>
             pc["sampler"] \in Taking
             /\ local'["sampler"].record = local["sampler"].record
        /\ pc'["main"] \notin Taking \cup {"done", "built"} =>
             pc["main"] \notin Taking \cup {"done", "built"}
        /\ pc'["main"] \in Taking =>
             pc["main"] \in Taking
             /\ local'["main"].record = local["main"].record
    BY <1>1, <1>3, <1>4 DEF Threads, Taking, Reads
  <2>. QED  BY <1>1, <1>2, <1>11, <2>1 DEF IInv, TimeInv
<1>18. FinalRowInv'
  <2>1. /\ pc'["main"] # "publish"
        /\ pc'["main"] \in {"done", "built"} => pc["main"] \in {"done", "built"}
    BY <1>1, <1>3 DEF Threads, Taking, Reads, IInv, PlaceInv, SamplerJoined
  <2>. QED  BY <1>2, <1>11, <2>1 DEF IInv, FinalRowInv
<1>19. ResultsInv' /\ ChainInv' /\ RingInv'
  <2>1. pc'["main"] = "built" => pc["main"] = "built"
    BY <1>3 DEF Threads, Reads
  <2>2. ChainInv' /\ RingInv' /\ TimeSeries' = TimeSeries /\ built' = built
    BY <1>1, RowsStay
  <2>. QED  BY <1>11, <2>1, <2>2 DEF IInv, ResultsInv
<1>. QED  BY <1>6, <1>7, <1>8, <1>9, <1>12, <1>13, <1>14, <1>16, <1>17, <1>18,
          <1>19 DEF IInv

-----------------------------------------------------------------------------
\* A worker is done.

\* The step of ReadDone: the worker is no longer to do, and if the snapshot
\* records, the diff basis of the worker moves to it.
LEMMA ReadDoneMoves ==
  ASSUME IInv, NEW t \in Threads, ReadDone(t)
  PROVE  /\ pc[t] = "read_done"
         /\ NextWorker(t) \in local[t].todo /\ NextWorker(t) \in Workers
         /\ local' \in [Threads -> Rows]
         /\ \A u \in Threads : u # t => local'[u] = local[u] /\ pc'[u] = pc[u]
         /\ pc' \in [Threads -> SamplerPlaces \cup MainPlaces]
         /\ local'[t].at = local[t].at
         /\ local'[t].since_prev = local[t].since_prev
         /\ local'[t].record = local[t].record
         /\ local'[t].todo = local[t].todo \ {NextWorker(t)}
         /\ local'[t].jobs = local[t].jobs
         /\ local'[t].todo # {} => pc'[t] = "read_ios"
         /\ local'[t].todo = {} =>
              pc'[t] = IF t = "main" /\ local[t].record THEN "record"
                                                       ELSE "publish"
         /\ prev_ios' \in [Workers -> Nat]
         /\ \A v \in Workers :
              prev_ios'[v] = IF v = NextWorker(t) /\ local[t].record
                               THEN local[t].jobs[v].ios ELSE prev_ios[v]
         /\ prev_sample_time' = IF local'[t].todo = {} /\ local[t].record
                                  THEN local[t].at ELSE prev_sample_time
<1>1. pc[t] = "read_done" /\ pc[t] \in Reads /\ pc[t] \in Taking
  BY DEF ReadDone, Reads, Taking
<1>2. NextWorker(t) \in local[t].todo
  BY <1>1, NextWorkerIsToDo DEF IInv, SnapshotInv
<1>3. local \in [Threads -> Rows]
  BY DEF IInv, SnapshotTypes
<1>4. PICK old \in Rows : old = local[t]
  BY <1>3
<1>5. PICK w \in Workers : w = NextWorker(t) /\ w \in old.todo
  BY <1>2, <1>4 DEF Rows
<1>6. PICK todo \in SUBSET Workers : todo = old.todo \ {w}
  BY DEF Rows
<1>7. PICK new : new = [old EXCEPT !.todo = todo]
  OBVIOUS
<1>8. local' = [local EXCEPT ![t] = new]
  BY <1>4, <1>5, <1>6, <1>7 DEF ReadDone
<1>9. /\ new \in Rows /\ new.jobs = old.jobs /\ new.todo = todo
      /\ new.at = old.at /\ new.since_prev = old.since_prev
      /\ new.record = old.record
  BY <1>7 DEF Rows
<1>10. /\ local' \in [Threads -> Rows] /\ local'[t] = new
       /\ \A u \in Threads : u # t => local'[u] = local[u]
  BY <1>3, <1>8, <1>9
<1>11. old.todo = {w} <=> todo = {}
  BY <1>5, <1>6
<1>12. PICK place : pc' = [pc EXCEPT ![t] = place]
                    /\ place = IF old.todo # {w} THEN "read_ios"
                               ELSE IF t = "main" /\ old.record THEN "record"
                               ELSE "publish"
  BY <1>4, <1>5 DEF ReadDone, Goto, ReadOrder
<1>13. /\ pc'[t] = place /\ \A u \in Threads : u # t => pc'[u] = pc[u]
       /\ pc' \in [Threads -> SamplerPlaces \cup MainPlaces]
  BY <1>12 DEF IInv, PlaceInv, SamplerPlaces, Taking, Reads
<1>14. PICK n \in Nat : n = old.jobs[w].ios
  BY DEF Rows, Jobs
<1>15. prev_ios \in [Workers -> Nat]
  BY DEF IInv, CounterTypes
<1>16. prev_ios' = IF old.record THEN [prev_ios EXCEPT ![w] = n] ELSE prev_ios
  BY <1>4, <1>5, <1>14 DEF ReadDone, MovesBasis
<1>17. /\ prev_ios' \in [Workers -> Nat]
       /\ \A v \in Workers :
            prev_ios'[v] = IF v = w /\ old.record
                             THEN old.jobs[v].ios ELSE prev_ios[v]
  BY <1>14, <1>15, <1>16
<1>18. prev_sample_time' = IF old.todo = {w} /\ old.record
                             THEN old.at ELSE prev_sample_time
  BY <1>4, <1>5 DEF ReadDone
<1>. QED  BY <1>1, <1>2, <1>4, <1>5, <1>6, <1>9, <1>10, <1>11, <1>12, <1>13,
             <1>17, <1>18

\* It keeps the invariant.
LEMMA ReadDoneKeeps ==
  ASSUME IInv, NEW t \in Threads, ReadDone(t)
  PROVE  IInv'
<1>. DEFINE w == NextWorker(t)
<1>1. /\ UNCHANGED <<now, g_running, workerVars, wake, tick, stop, end_time,
                     latest_snapshot, seriesVars, built>>
      /\ pc[t] \in Taking /\ pc[t] \in Reads /\ pc[t] = "read_done"
      /\ w \in local[t].todo /\ w \in Workers
  BY ReadDoneMoves DEF ReadDone, Reads, Taking
<1>2. /\ latest_snapshot' = latest_snapshot /\ Odd' = Odd
      /\ ios' = ios /\ blocks' = blocks /\ errors' = errors
      /\ now' = now /\ end_time' = end_time /\ rows' = rows
      /\ RowTypes' /\ ChainInv' /\ RingInv' /\ LastRow' = LastRow
      /\ TimeSeries' = TimeSeries
  BY <1>1, RowsStay DEF workerVars, seriesVars, Odd
<1>3. /\ pc'[t] \in Taking /\ pc'[t] \in {"read_ios", "publish", "record"}
      /\ pc'[t] \in Reads <=> local'[t].todo # {}
      /\ pc'[t] = "record" => local[t].record
      /\ t = "main" /\ pc'[t] = "publish" => ~local[t].record
      /\ \A u \in Threads : u # t =>
           pc'[u] = pc[u] /\ pc[u] \notin Taking /\ local'[u] = local[u]
  BY <1>1, ReadDoneMoves, OneTakes DEF IInv, Taking, Reads
<1>4. /\ local' \in [Threads -> Rows] /\ local'[t].jobs = local[t].jobs
      /\ local'[t].at = local[t].at
      /\ local'[t].since_prev = local[t].since_prev
      /\ local'[t].record = local[t].record
      /\ local'[t].todo = local[t].todo \ {w}
      /\ local[t].at \in Nat
  BY ReadDoneMoves DEF IInv, SnapshotTypes, Rows
<1>5. \A v \in Workers :
        /\ HasIos(t, v)' <=> v \notin local[t].todo \ {w}
        /\ HasBlocks(t, v)' <=> v \notin local[t].todo \ {w}
        /\ HasErrors(t, v)' <=> v \notin local[t].todo \ {w}
        /\ v \notin local[t].todo \ {w} =>
             HasIos(t, v) /\ HasBlocks(t, v) /\ HasErrors(t, v)
  BY <1>1, <1>3, <1>4 DEF HasIos, HasBlocks, HasErrors
<1>6. CounterTypes' /\ SnapshotTypes'
  BY <1>1, <1>4, ReadDoneMoves DEF IInv, CounterTypes, SnapshotTypes, workerVars
<1>7. PlaceInv'
  BY <1>1, <1>3, ReadDoneMoves DEF IInv, PlaceInv, Threads, SamplerJoined,
     WorkersJoined, Taking, Reads, SamplerPlaces, MainPlaces, workerVars
<1>8. CountInv'
  BY <1>1 DEF IInv, CountInv, workerVars
<1>9. SnapshotInv'
  BY <1>1, <1>2, <1>3, <1>4 DEF IInv, SnapshotInv
<1>10. ReadInv'
  BY <1>1, <1>2, <1>3, <1>4, <1>5 DEF IInv, ReadInv
<1>11. FinalReadInv'
  BY <1>1, <1>2, <1>3, <1>4, <1>5 DEF IInv, FinalReadInv, Threads
<1>12. DisplayInv'
  <2>1. pc'["main"] \in {"done", "built"} => pc["main"] \in {"done", "built"}
    BY <1>3 DEF Threads
  <2>. QED  BY <1>2, <2>1 DEF IInv, DisplayInv
<1>13. /\ Pending(t)' <=> local[t].record
       /\ Pending(t) <=> local[t].record
       /\ \A u \in Threads : u # t => ~Pending(u) /\ ~Pending(u)'
  BY <1>1, <1>3, <1>4 DEF Pending
<1>14. BasisInv'
  <2>1. CASE local[t].record
    <3>1. /\ local[t].since_prev = local[t].at - LastRow.at
          /\ local[t].since_prev >= MinFinalRecord
          /\ prev_sample_time = LastRow.at
      BY <1>1, <1>13, <2>1 DEF IInv, BasisInv
    <3>2. ASSUME NEW v \in Workers
          PROVE  /\ prev_ios'[v] = IF v \in local'[t].todo
                                     THEN LastRow.jobs[v].ios
                                     ELSE local'[t].jobs[v].ios
                 /\ HasIos(t, v)' =>
                      local'[t].jobs[v].delta
                        = local'[t].jobs[v].ios - LastRow.jobs[v].ios
      BY <1>1, <1>4, <1>5, <1>13, <2>1, ReadDoneMoves DEF IInv, BasisInv
    <3>3. prev_sample_time' = IF local'[t].todo = {} THEN local[t].at
                                                   ELSE LastRow.at
      BY <2>1, <3>1, ReadDoneMoves
    <3>. QED  BY <1>2, <1>4, <1>13, <2>1, <3>1, <3>2, <3>3 DEF BasisInv
  <2>2. CASE ~local[t].record
    <3>1. /\ prev_sample_time' = prev_sample_time
          /\ \A v \in Workers : prev_ios'[v] = prev_ios[v]
      BY <2>2, ReadDoneMoves
    <3>2. \A u \in Threads : ~Pending(u) /\ ~Pending(u)'
      BY <1>13, <2>2
    <3>. QED  BY <1>2, <3>1, <3>2 DEF IInv, BasisInv
  <2>. QED  BY <2>1, <2>2
<1>15. TimeInv'
  <2>1. prev_sample_time' <= now /\ end_time <= now
    BY <1>1, ReadDoneMoves DEF IInv, TimeInv, SnapshotInv
  <2>2. CASE t = "sampler"
    <3>1. /\ Odd => prev_sample_time' = prev_sample_time
          /\ pc'["sampler"] # "wait"
          /\ pc'["main"] = pc["main"] /\ pc["main"] \notin Taking
          /\ local["sampler"].record <=> ~Odd
          /\ local'["sampler"].record = local["sampler"].record
      BY <1>1, <1>3, <1>4, <2>2, ReadDoneMoves DEF IInv, TimeInv, Threads
    <3>. QED  BY <1>2, <2>1, <3>1 DEF IInv, TimeInv
  <2>3. CASE t = "main"
    <3>1. /\ ~local["main"].record => prev_sample_time' = prev_sample_time
          /\ pc["main"] \in Taking /\ pc'["main"] \in Taking
          /\ pc'["sampler"] = pc["sampler"] /\ pc["sampler"] = "ended"
          /\ local'["main"].record = local["main"].record
      BY <1>1, <1>3, <1>4, <2>3, ReadDoneMoves, OneTakes DEF IInv, Threads
    <3>2. pc'["sampler"] \notin Taking /\ pc'["sampler"] # "wait"
      BY <3>1 DEF Taking, Reads
    <3>. QED  BY <1>2, <2>1, <3>1, <3>2 DEF IInv, TimeInv
  <2>. QED  BY <2>2, <2>3 DEF Threads
<1>16. FinalRowInv'
  <2>1. ~(pc'["main"] = "publish" /\ local'["main"].record)
    BY <1>3, <1>4 DEF Threads, Taking
  <2>2. pc'["main"] \notin {"done", "built"}
    BY <1>1, <1>3, OneTakes DEF Threads, IInv, SamplerJoined
  <2>. QED  BY <2>1, <2>2 DEF FinalRowInv
<1>17. ResultsInv'
  <2>1. pc'["main"] = "built" => pc["main"] = "built"
    BY <1>3 DEF Threads
  <2>2. built' = built
    BY <1>1
  <2>. QED  BY <1>2, <2>1, <2>2 DEF IInv, ResultsInv
<1>. QED  BY <1>2, <1>6, <1>7, <1>8, <1>9, <1>10, <1>11, <1>12, <1>14, <1>15,
          <1>16, <1>17 DEF IInv

-----------------------------------------------------------------------------
\* The snapshot is published.

\* The step of Publish: the snapshot is on display, and the local copy goes
\* unless it is still to be recorded.
LEMMA PublishMoves ==
  ASSUME IInv, NEW t \in Threads, Publish(t)
  PROVE  /\ pc[t] = "publish" /\ latest_snapshot' = local[t]
         /\ local' \in [Threads -> Rows]
         /\ \A u \in Threads : u # t => local'[u] = local[u] /\ pc'[u] = pc[u]
         /\ pc' \in [Threads -> SamplerPlaces \cup MainPlaces]
         /\ t = "sampler" /\ local[t].record =>
              pc'[t] = "record" /\ local' = local
         /\ t = "sampler" /\ ~local[t].record => pc'[t] = "test"
         /\ t = "main" => pc'[t] = "done"
<1>1. pc \in [Threads -> SamplerPlaces \cup MainPlaces]
      /\ local \in [Threads -> Rows]
  BY DEF IInv, PlaceInv, SnapshotTypes
<1>2. pc[t] = "publish" /\ latest_snapshot' = local[t]
  BY DEF Publish
<1>3. CASE t = "sampler" /\ local[t].record
  <2>1. pc' = [pc EXCEPT ![t] = "record"] /\ local' = local
    BY <1>3 DEF Publish, Goto
  <2>. QED  BY <1>1, <1>2, <1>3, <2>1 DEF Threads, SamplerPlaces, Taking
<1>4. CASE ~(t = "sampler" /\ local[t].record)
  <2>1. PICK place \in {"done", "test"} :
          pc' = [pc EXCEPT ![t] = place]
          /\ place = IF t = "main" THEN "done" ELSE "test"
    BY <1>4 DEF Publish, Goto
  <2>2. /\ pc'[t] = place /\ \A u \in Threads : u # t => pc'[u] = pc[u]
        /\ pc' \in [Threads -> SamplerPlaces \cup MainPlaces]
    BY <1>1, <2>1 DEF SamplerPlaces, MainPlaces
  <2>3. local' = [local EXCEPT ![t] = Empty]
    BY <1>4 DEF Publish
  <2>4. /\ local' \in [Threads -> Rows]
        /\ \A u \in Threads : u # t => local'[u] = local[u]
    BY <1>1, <2>3, EmptyIsARow
  <2>. QED  BY <1>2, <1>4, <2>1, <2>2, <2>4 DEF Threads
<1>. QED  BY <1>3, <1>4

\* It keeps the invariant.
LEMMA PublishKeeps ==
  ASSUME IInv, NEW t \in Threads, Publish(t)
  PROVE  IInv'
<1>1. /\ UNCHANGED <<now, g_running, workerVars, wake, tick, stop, basisVars,
                     end_time, seriesVars, built>>
      /\ pc[t] \in Taking /\ pc[t] \notin Reads /\ pc[t] = "publish"
      /\ local[t].todo = {} /\ latest_snapshot' = local[t]
  BY PublishMoves DEF Publish, Reads, Taking, IInv, SnapshotInv
<1>2. /\ Odd' = Odd
      /\ ios' = ios /\ blocks' = blocks /\ errors' = errors
      /\ now' = now /\ end_time' = end_time /\ rows' = rows
      /\ prev_ios' = prev_ios /\ prev_sample_time' = prev_sample_time
      /\ RowTypes' /\ ChainInv' /\ RingInv' /\ LastRow' = LastRow
  BY <1>1, RowsStay DEF workerVars, seriesVars, basisVars, Odd
<1>3. \A u \in Threads : u # t =>
        pc'[u] = pc[u] /\ pc[u] \notin Taking /\ local'[u] = local[u]
  BY <1>1, PublishMoves, OneTakes DEF IInv
<1>4. \/ /\ t = "sampler" /\ local[t].record
         /\ pc'[t] = "record" /\ pc'[t] \in Taking /\ local' = local
         /\ pc'[t] \notin Reads
      \/ /\ t = "sampler" /\ ~local[t].record
         /\ pc'[t] = "test" /\ pc'[t] \notin Taking
      \/ t = "main" /\ pc'[t] = "done" /\ pc'[t] \notin Taking
  BY PublishMoves DEF Threads, Taking, Reads
<1>5. t = "sampler" =>
        pc["main"] \notin SamplerJoined /\ pc'["main"] = pc["main"]
  BY <1>1, <1>3, OneTakes DEF IInv, Threads
<1>6. t = "main" => pc["sampler"] = "ended" /\ pc'["sampler"] = "ended"
  BY <1>1, <1>3, OneTakes DEF IInv, Threads
<1>7. \A v \in Workers : HasIos(t, v) /\ HasBlocks(t, v) /\ HasErrors(t, v)
  BY <1>1 DEF HasIos, HasBlocks, HasErrors
<1>8. CounterTypes' /\ SnapshotTypes'
  BY <1>1, PublishMoves DEF IInv, CounterTypes, SnapshotTypes, workerVars,
     basisVars
<1>9. PlaceInv'
  BY <1>1, <1>4, <1>5, <1>6, PublishMoves DEF IInv, PlaceInv, Threads,
     SamplerJoined, WorkersJoined, Taking, Reads, SamplerPlaces, MainPlaces,
     workerVars
<1>10. CountInv'
  BY <1>1 DEF IInv, CountInv, workerVars
<1>11. ASSUME NEW v \in Workers
       PROVE  /\ local[t].jobs[v] \in Jobs
              /\ local[t].jobs[v].ios <= ios[v]
              /\ local[t].jobs[v].blocks <= blocks[v]
              /\ local[t].jobs[v].errors <= errors[v]
              /\ local[t].jobs[v].ios
                   <= local[t].jobs[v].blocks + local[t].jobs[v].errors + 1
              /\ t = "main" => /\ local[t].jobs[v].ios = ios[v]
                               /\ local[t].jobs[v].blocks = blocks[v]
                               /\ local[t].jobs[v].errors = errors[v]
  <2>1. local[t].jobs[v] \in Jobs
    BY DEF IInv, SnapshotTypes, Rows
  <2>. QED  BY <1>1, <1>7, <2>1 DEF IInv, ReadInv, FinalReadInv
<1>12. local[t].at <= now /\ local[t].at \in Nat
  BY <1>1 DEF IInv, SnapshotInv, SnapshotTypes, Rows
<1>13. SnapshotInv'
  BY <1>1, <1>2, <1>3, <1>4, <1>12 DEF IInv, SnapshotInv
<1>14. ReadInv' /\ FinalReadInv'
  <2>1. CASE pc'[t] \in Taking
    <3>1. t = "sampler" /\ local' = local /\ pc'["main"] \notin Taking
      BY <1>4, <1>5, <2>1 DEF SamplerJoined, Taking, Reads
    <3>2. FinalReadInv'
      BY <3>1 DEF FinalReadInv
    <3>3. ASSUME NEW u \in Threads, NEW v \in Workers, pc'[u] \in Taking
          PROVE  LET job == local[t].jobs[v]
                 IN  /\ local'[u].jobs[v] = job
                     /\ latest_snapshot'.jobs[v] = job
                     /\ job.ios <= job.ios /\ job.ios <= ios'[v]
                     /\ job.blocks <= job.blocks /\ job.blocks <= blocks'[v]
                     /\ job.ios <= job.blocks + errors'[v] + 1
                     /\ job.errors <= job.errors /\ job.errors <= errors'[v]
                     /\ job.ios <= job.blocks + job.errors + 1
      <4>1. u = t
        BY <1>3, <3>3
      <4>2. local[t].jobs[v] \in Jobs /\ errors[v] \in Nat
        BY <1>11 DEF IInv, CounterTypes
      <4>. QED  BY <1>1, <1>2, <1>11, <3>1, <4>1, <4>2 DEF Jobs
    <3>. QED  BY <3>2, <3>3 DEF ReadInv
  <2>2. CASE pc'[t] \notin Taking
    BY <1>3, <2>2 DEF ReadInv, FinalReadInv, Threads
  <2>. QED  BY <2>1, <2>2
<1>15. DisplayInv'
  <2>1. pc'["main"] \in {"done", "built"} => t = "main"
    BY <1>5 DEF Threads, SamplerJoined
  <2>. QED  BY <1>1, <1>2, <1>11, <1>12, <2>1 DEF DisplayInv
<1>16. BasisInv'
  <2>1. CASE t = "sampler" /\ local[t].record
    <3>1. local' = local /\ Pending(t) /\ Pending(t)'
      BY <1>1, <1>4, <2>1 DEF Pending
    <3>2. \A u \in Threads : u # t => ~Pending(u)'
      BY <1>3 DEF Pending
    <3>. QED  BY <1>1, <1>2, <1>7, <3>1, <3>2 DEF IInv, BasisInv
  <2>2. CASE ~(t = "sampler" /\ local[t].record)
    <3>1. \A u \in Threads : ~Pending(u) /\ ~Pending(u)'
      BY <1>1, <1>3, <1>4, <2>2 DEF Pending, Threads
    <3>. QED  BY <1>2, <3>1 DEF IInv, BasisInv
  <2>. QED  BY <2>1, <2>2
<1>17. TimeInv'
  <2>1. CASE t = "sampler"
    <3>1. /\ pc'["sampler"] # "wait" /\ pc["main"] \notin Taking
          /\ pc'["sampler"] \in Taking => local'["sampler"] = local["sampler"]
      BY <1>4, <1>5, <2>1 DEF Taking, Reads, SamplerJoined
    <3>. QED  BY <1>1, <1>2, <1>5, <2>1, <3>1 DEF IInv, TimeInv
  <2>2. CASE t = "main"
    <3>1. pc'["main"] = "done" /\ pc'["main"] \notin Taking
          /\ pc'["sampler"] \notin Taking /\ pc'["sampler"] # "wait"
      BY <1>4, <1>6, <2>2 DEF Taking, Reads
    <3>. QED  BY <1>2, <3>1 DEF IInv, TimeInv
  <2>. QED  BY <2>1, <2>2 DEF Threads
<1>18. FinalRowInv'
  <2>1. CASE t = "sampler"
    <3>1. pc'["main"] \notin {"publish", "done", "built"}
      BY <1>5, <2>1 DEF Taking, SamplerJoined
    <3>. QED  BY <3>1 DEF FinalRowInv
  <2>2. CASE t = "main"
    <3>1. pc'["main"] = "done"
      BY <1>4, <2>2
    <3>2. /\ Odd => local["main"].record
          /\ ~local["main"].record =>
               end_time < prev_sample_time + MinFinalRecord
          /\ local["main"].record => rows # <<>> /\ LastRow = local["main"]
      BY <1>1, <2>2 DEF IInv, TimeInv, FinalRowInv
    <3>3. \A v \in Workers : local["main"].jobs[v].ios = ios[v]
      BY <1>11, <2>2
    <3>. QED  BY <1>1, <1>2, <2>2, <3>1, <3>2, <3>3 DEF FinalRowInv
  <2>. QED  BY <2>1, <2>2 DEF Threads
<1>19. ResultsInv'
  <2>1. pc'["main"] # "built"
    BY <1>4, <1>5 DEF Threads, SamplerJoined
  <2>. QED  BY <2>1 DEF ResultsInv
<1>. QED  BY <1>2, <1>8, <1>9, <1>10, <1>13, <1>14, <1>15, <1>16, <1>17, <1>18,
          <1>19 DEF IInv

-----------------------------------------------------------------------------
\* The snapshot becomes a row.

\* The ring still holds the last rows when one is added.
LEMMA RingKeeps ==
  ASSUME RowTypes, RingInv, NEW row \in Rows,
         ring' = [ring EXCEPT ![ts_write_index] = row],
         ts_write_index' = (ts_write_index + 1) % ts_capacity,
         rows' = Append(rows, row)
  PROVE  /\ RingInv' /\ ring' \in [0 .. ts_capacity - 1 -> Rows]
         /\ ts_write_index' \in 0 .. ts_capacity - 1
<1>1. PICK c \in Nat \ {0} : c = ts_capacity
  BY CapacityIsPositive
<1>2. PICK i \in 0 .. c - 1 : i = ts_write_index
  BY <1>1 DEF RowTypes
<1>3. PICK n \in Nat : n = Len(rows)
  BY DEF RowTypes
<1>4. PICK k \in 0 .. c - 1 : k = ts_write_index'
                             /\ k = IF i + 1 = c THEN 0 ELSE i + 1
  <2>1. CASE i + 1 = c
    BY <1>1, <1>2, <2>1
  <2>2. CASE i + 1 # c
    <3>1. i + 1 \in 0 .. c - 1
      BY <2>2
    <3>2. (i + 1) % c = i + 1
      BY <3>1
    <3>. QED  BY <1>1, <1>2, <2>2, <3>1, <3>2
  <2>. QED  BY <2>1, <2>2
<1>5. /\ ring' \in [0 .. c - 1 -> Rows] /\ ring'[i] = row
      /\ \A j \in 0 .. c - 1 : j # i => ring'[j] = ring[j]
  BY <1>1, <1>2 DEF RowTypes
<1>6. /\ Len(rows') = n + 1 /\ rows'[n + 1] = row
      /\ \A j \in 1 .. n : rows'[j] = rows[j]
  BY <1>3 DEF RowTypes
<1>7. /\ n + 1 < c => k = n + 1
      /\ n + 1 = c => k = 0
  BY <1>1, <1>2, <1>3, <1>4 DEF RingInv
<1>8. ASSUME NEW j \in 1 .. c, j <= n + 1
      PROVE  ring'[Slot(k, j)] = rows'[n + 1 + 1 - j]
  <2>1. CASE j = 1
    <3>1. Slot(k, j) = i
      BY <1>1, <1>4, <2>1 DEF Slot
    <3>2. n + 1 + 1 - j = n + 1
      BY <2>1
    <3>. QED  BY <1>5, <1>6, <3>1, <3>2
  <2>2. CASE j # 1
    <3>1. PICK m \in 1 .. c - 1 : m = j - 1 /\ m <= n
      BY <1>8, <2>2
    <3>2. /\ Slot(k, j) = Slot(i, m) /\ Slot(i, m) \in 0 .. c - 1
          /\ Slot(i, m) # i
      BY <1>1, <1>4, <3>1 DEF Slot
    <3>3. ring[Slot(i, m)] = rows[n + 1 - m]
      BY <1>1, <1>2, <1>3, <3>1 DEF RingInv
    <3>4. n + 1 - m \in 1 .. n /\ n + 1 + 1 - j = n + 1 - m
      BY <3>1
    <3>. QED  BY <1>5, <1>6, <3>2, <3>3, <3>4
  <2>. QED  BY <2>1, <2>2
<1>9. \A j \in 1 .. c : j <= Len(rows') =>
         ring'[Slot(k, j)] = rows'[Len(rows') + 1 - j]
  BY <1>6, <1>8
<1>. QED  BY <1>1, <1>4, <1>5, <1>6, <1>7, <1>9 DEF RingInv, Slot

\* So do the rows still follow one another.
LEMMA ChainKeeps ==
  ASSUME RowTypes, ChainInv, NEW row \in Rows, rows' = Append(rows, row),
         row.since_prev = row.at - LastRow.at,
         row.since_prev >= MinFinalRecord,
         \A w \in Workers : row.jobs[w].delta
                            = row.jobs[w].ios - LastRow.jobs[w].ios
  PROVE  ChainInv'
<1>1. PICK n \in Nat : n = Len(rows)
  BY DEF RowTypes
<1>2. /\ Len(rows') = n + 1 /\ rows'[n + 1] = row
      /\ \A j \in 1 .. n : rows'[j] = rows[j]
      /\ DOMAIN rows = 1 .. n /\ DOMAIN rows' = 1 .. n + 1
  BY <1>1 DEF RowTypes
<1>3. ASSUME NEW i \in 1 .. n + 1
      PROVE  Before(i)' = IF i = 1 THEN Empty ELSE rows[i - 1]
  <2>1. CASE i = 1
    BY <2>1 DEF Before
  <2>2. CASE i # 1
    <3>1. i - 1 \in 1 .. n
      BY <2>2
    <3>. QED  BY <1>2, <2>2, <3>1 DEF Before
  <2>. QED  BY <2>1, <2>2
<1>4. \A i \in 1 .. n + 1 : Before(i)' = Before(i)
  BY <1>3 DEF Before
<1>5. Before(n + 1)' = LastRow
  BY <1>1, <1>4 DEF LastRow
<1>6. ASSUME NEW i \in 1 .. n + 1
      PROVE  /\ rows'[i].since_prev = rows'[i].at - Before(i)'.at
             /\ rows'[i].since_prev >= MinFinalRecord
             /\ \A w \in Workers : rows'[i].jobs[w].delta
                    = rows'[i].jobs[w].ios - Before(i)'.jobs[w].ios
  <2>1. CASE i = n + 1
    BY <1>2, <1>5, <2>1
  <2>2. CASE i \in 1 .. n
    BY <1>2, <1>4, <2>2 DEF ChainInv
  <2>3. i = n + 1 \/ i \in 1 .. n
    OBVIOUS
  <2>. QED  BY <2>1, <2>2, <2>3
<1>7. DOMAIN rows' = 1 .. n + 1
  BY <1>2
<1>. QED  BY <1>6, <1>7 DEF ChainInv, MinFinalRecord

\* The step of RecordTimeSeries, but for the rows.
LEMMA RecordMoves ==
  ASSUME IInv, NEW t \in Threads, RecordTimeSeries(t)
  PROVE  /\ pc[t] = "record" /\ local' \in [Threads -> Rows]
         /\ \A u \in Threads : u # t => local'[u] = local[u] /\ pc'[u] = pc[u]
         /\ pc' \in [Threads -> SamplerPlaces \cup MainPlaces]
         /\ t = "main" => pc'[t] = "publish" /\ local' = local
         /\ t = "sampler" => pc'[t] = "test"
<1>1. pc \in [Threads -> SamplerPlaces \cup MainPlaces]
      /\ local \in [Threads -> Rows]
  BY DEF IInv, PlaceInv, SnapshotTypes
<1>2. pc[t] = "record"
  BY DEF RecordTimeSeries
<1>3. CASE t = "main"
  <2>1. pc' = [pc EXCEPT ![t] = "publish"] /\ local' = local
    BY <1>3 DEF RecordTimeSeries, Goto
  <2>. QED  BY <1>1, <1>2, <1>3, <2>1 DEF Threads, SamplerPlaces, Taking
<1>4. CASE t # "main"
  <2>1. pc' = [pc EXCEPT ![t] = "test"] /\ local' = [local EXCEPT ![t] = Empty]
    BY <1>4 DEF RecordTimeSeries, Goto
  <2>2. /\ local' \in [Threads -> Rows]
        /\ \A u \in Threads : u # t => local'[u] = local[u]
    BY <1>1, <2>1, EmptyIsARow
  <2>. QED  BY <1>1, <1>2, <1>4, <2>1, <2>2 DEF Threads, SamplerPlaces
<1>. QED  BY <1>3, <1>4

\* It keeps the invariant: the pending row is the last one now.
LEMMA RecordKeeps ==
  ASSUME IInv, NEW t \in Threads, RecordTimeSeries(t)
  PROVE  IInv'
<1>1. /\ UNCHANGED <<now, g_running, workerVars, wake, tick, stop, basisVars,
                     end_time, latest_snapshot, built>>
      /\ pc[t] \in Taking /\ pc[t] \notin Reads /\ pc[t] = "record"
      /\ local[t].todo = {} /\ local[t].record
  BY RecordMoves DEF RecordTimeSeries, Reads, Taking, IInv, SnapshotInv
<1>2. /\ Odd' = Odd /\ latest_snapshot' = latest_snapshot
      /\ ios' = ios /\ blocks' = blocks /\ errors' = errors
      /\ now' = now /\ end_time' = end_time
      /\ prev_ios' = prev_ios /\ prev_sample_time' = prev_sample_time
  BY <1>1 DEF workerVars, basisVars, Odd
<1>3. \A u \in Threads : u # t =>
        pc'[u] = pc[u] /\ pc[u] \notin Taking /\ local'[u] = local[u]
  BY <1>1, RecordMoves, OneTakes DEF IInv
<1>4. \/ t = "sampler" /\ pc'[t] = "test" /\ pc'[t] \notin Taking
      \/ /\ t = "main" /\ pc'[t] = "publish" /\ pc'[t] \in Taking
         /\ pc'[t] \notin Reads /\ local' = local
  BY RecordMoves DEF Threads, Taking, Reads
<1>5. t = "sampler" =>
        pc["main"] \notin SamplerJoined /\ pc'["main"] = pc["main"]
  BY <1>1, <1>3, OneTakes DEF IInv, Threads
<1>6. t = "main" => pc["sampler"] = "ended" /\ pc'["sampler"] = "ended"
  BY <1>1, <1>3, OneTakes DEF IInv, Threads
<1>7. PICK row \in Rows : row = local[t]
  BY DEF IInv, SnapshotTypes
<1>8. /\ ring' = [ring EXCEPT ![ts_write_index] = row]
      /\ ts_write_index' = (ts_write_index + 1) % ts_capacity
      /\ rows' = Append(rows, row) /\ ts_count' = ts_count + 1
  BY <1>7 DEF RecordTimeSeries
<1>9. LastRow' = row /\ rows' # <<>>
  BY <1>7, <1>8, LastRowAppended DEF IInv
<1>10. Pending(t)
  BY <1>1 DEF Pending
<1>11. /\ row.since_prev = row.at - LastRow.at
       /\ row.since_prev >= MinFinalRecord
       /\ prev_sample_time = row.at
       /\ \A v \in Workers :
            /\ prev_ios[v] = row.jobs[v].ios
            /\ row.jobs[v].delta = row.jobs[v].ios - LastRow.jobs[v].ios
  BY <1>1, <1>7, <1>10 DEF IInv, BasisInv, HasIos
<1>12. RingInv' /\ RowTypes'
  <2>1. rows' \in Seq(Rows) /\ Len(rows') = Len(rows) + 1
    BY <1>8 DEF IInv, RowTypes
  <2>2. ts_count' = Len(rows')
    BY <1>8, <2>1 DEF IInv, RowTypes
  <2>. QED  BY <1>7, <1>8, <2>1, <2>2, RingKeeps DEF IInv, RowTypes
<1>13. ChainInv'
  BY <1>7, <1>8, <1>11, ChainKeeps DEF IInv
<1>14. CounterTypes' /\ SnapshotTypes'
  BY <1>1, RecordMoves DEF IInv, CounterTypes, SnapshotTypes, workerVars,
     basisVars
<1>15. PlaceInv'
  BY <1>1, <1>4, <1>5, <1>6, RecordMoves DEF IInv, PlaceInv, Threads,
     SamplerJoined, WorkersJoined, Taking, Reads, SamplerPlaces, MainPlaces,
     workerVars
<1>16. CountInv'
  BY <1>1 DEF IInv, CountInv, workerVars
<1>17. SnapshotInv'
  BY <1>1, <1>2, <1>3, <1>4 DEF IInv, SnapshotInv
<1>18. \A v \in Workers : HasIos(t, v) /\ HasBlocks(t, v) /\ HasErrors(t, v)
  BY <1>1 DEF HasIos, HasBlocks, HasErrors
<1>19. ReadInv' /\ FinalReadInv'
  <2>1. CASE pc'[t] \in Taking
    BY <1>1, <1>2, <1>3, <1>4, <1>18, <2>1 DEF IInv, ReadInv, FinalReadInv
  <2>2. CASE pc'[t] \notin Taking
    BY <1>3, <2>2 DEF ReadInv, FinalReadInv, Threads
  <2>. QED  BY <2>1, <2>2
<1>20. pc'["main"] \notin {"done", "built"}
  BY <1>4, <1>5 DEF Threads, SamplerJoined
<1>21. DisplayInv'
  BY <1>2, <1>20 DEF IInv, DisplayInv
<1>22. BasisInv'
  <2>1. \A u \in Threads : ~Pending(u)'
    BY <1>3, <1>4 DEF Pending
  <2>. QED  BY <1>2, <1>9, <1>11, <2>1 DEF BasisInv
<1>23. TimeInv'
  <2>1. CASE t = "sampler"
    <3>1. /\ pc'["sampler"] # "wait" /\ pc["main"] \notin Taking
          /\ pc'["sampler"] \notin Taking
      BY <1>4, <1>5, <2>1 DEF Taking, Reads, SamplerJoined
    <3>. QED  BY <1>1, <1>2, <1>5, <2>1, <3>1 DEF IInv, TimeInv
  <2>2. CASE t = "main"
    <3>1. pc'["main"] \in Taking /\ local'["main"] = local["main"]
          /\ pc'["sampler"] \notin Taking /\ pc'["sampler"] # "wait"
      BY <1>4, <1>6, <2>2 DEF Taking, Reads
    <3>. QED  BY <1>1, <1>2, <2>2, <3>1 DEF IInv, TimeInv
  <2>. QED  BY <2>1, <2>2 DEF Threads
<1>24. FinalRowInv'
  <2>1. CASE t = "sampler"
    <3>1. pc'["main"] # "publish"
      BY <1>5, <2>1 DEF Taking, SamplerJoined
    <3>. QED  BY <1>20, <3>1 DEF FinalRowInv
  <2>2. CASE t = "main"
    <3>1. local'["main"] = row
      BY <1>4, <1>7, <2>2
    <3>. QED  BY <1>9, <1>20, <3>1 DEF FinalRowInv
  <2>. QED  BY <2>1, <2>2 DEF Threads
<1>25. ResultsInv'
  BY <1>20 DEF ResultsInv
<1>. QED  BY <1>12, <1>13, <1>14, <1>15, <1>16, <1>17, <1>19, <1>21, <1>22,
          <1>23, <1>24, <1>25 DEF IInv

-----------------------------------------------------------------------------
\* Steps that take no part in a snapshot.

\* A thread goes from one place to another outside of TakeSnapshot, or time
\* passes: the parts of the invariant about snapshots, rows and counters stay.
LEMMA QuietMoves ==
  ASSUME IInv, now' \in {now, now + 1},
         UNCHANGED <<workerVars, tick, local, basisVars, latest_snapshot,
                     seriesVars>>,
         \A u \in Threads : pc[u] \in Taking \/ pc'[u] \in Taking =>
                              pc'[u] = pc[u],
         pc'["main"] \in {"done", "built"} =>
           pc["main"] \in {"done", "built"} /\ end_time' = end_time
  PROVE  /\ SnapshotTypes' /\ RowTypes' /\ CountInv' /\ SnapshotInv'
         /\ ReadInv' /\ FinalReadInv' /\ DisplayInv' /\ BasisInv'
         /\ FinalRowInv' /\ ChainInv' /\ RingInv'
         /\ pc["main"] = "built" /\ built' = built => ResultsInv'
<1>1. /\ ios' = ios /\ blocks' = blocks /\ errors' = errors
      /\ counted' = counted
      /\ prev_ios' = prev_ios /\ prev_sample_time' = prev_sample_time
      /\ latest_snapshot' = latest_snapshot /\ local' = local /\ rows' = rows
      /\ RowTypes' /\ ChainInv' /\ RingInv' /\ LastRow' = LastRow
      /\ TimeSeries' = TimeSeries /\ Odd' = Odd
  BY RowsStay DEF workerVars, basisVars, seriesVars, Odd
<1>2. \A u \in Threads, v \in Workers : pc'[u] \in Taking =>
        /\ HasIos(u, v)' <=> HasIos(u, v)
        /\ HasBlocks(u, v)' <=> HasBlocks(u, v)
        /\ HasErrors(u, v)' <=> HasErrors(u, v)
  BY <1>1, NextWorkerStays DEF HasIos, HasBlocks, HasErrors
<1>3. \A u \in Threads : Pending(u)' <=> Pending(u)
  BY <1>1 DEF Pending
<1>4. SnapshotTypes' /\ CountInv'
  BY <1>1 DEF IInv, SnapshotTypes, CountInv
<1>5. now \in Nat /\ now <= now'
  BY DEF IInv, CounterTypes
<1>6. ASSUME NEW t \in Threads
      PROVE  local[t].at \in Nat /\ latest_snapshot.at \in Nat
  BY DEF IInv, SnapshotTypes, Rows
<1>7. SnapshotInv'
  BY <1>1, <1>5, <1>6 DEF IInv, SnapshotInv
<1>8. ReadInv'
  BY <1>1, <1>2 DEF IInv, ReadInv
<1>9. FinalReadInv'
  BY <1>1, <1>2 DEF IInv, FinalReadInv, Threads
<1>10. DisplayInv'
  <2>1. latest_snapshot.at <= now' /\ "main" \in Threads
    BY <1>5, <1>6 DEF IInv, DisplayInv, Threads
  <2>. QED  BY <1>1, <2>1 DEF IInv, DisplayInv
<1>11. BasisInv'
  <2>1. \A u \in Threads, v \in Workers : Pending(u)' =>
          (HasIos(u, v)' <=> HasIos(u, v))
    BY <1>2 DEF Pending
  <2>. QED  BY <1>1, <1>3, <2>1 DEF IInv, BasisInv
<1>12. FinalRowInv'
  <2>1. pc'["main"] = "publish" => pc["main"] = "publish"
    BY DEF Threads, Taking
  <2>. QED  BY <1>1, <2>1 DEF IInv, FinalRowInv
<1>13. pc["main"] = "built" /\ built' = built => ResultsInv'
  BY <1>1 DEF IInv, ResultsInv
<1>. QED  BY <1>1, <1>4, <1>7, <1>8, <1>9, <1>10, <1>11, <1>12, <1>13

-----------------------------------------------------------------------------
\* A snapshot is begun.

\* The step of BeginSnapshot.
LEMMA BeginMoves ==
  ASSUME IInv, NEW t \in Threads, NEW record \in BOOLEAN,
         BeginSnapshot(t, record)
  PROVE  /\ local' \in [Threads -> Rows]
         /\ \A u \in Threads : u # t => local'[u] = local[u] /\ pc'[u] = pc[u]
         /\ pc'[t] = "read_ios"
         /\ pc' \in [Threads -> SamplerPlaces \cup MainPlaces]
         /\ local'[t].at = now /\ local'[t].todo = Workers
         /\ local'[t].since_prev = now - prev_sample_time
         /\ local'[t].record = record
<1>1. pc \in [Threads -> SamplerPlaces \cup MainPlaces]
      /\ local \in [Threads -> Rows]
  BY DEF IInv, PlaceInv, SnapshotTypes
<1>2. PICK n \in Nat, d \in Int : n = now /\ d = now - prev_sample_time
  BY DEF IInv, CounterTypes
<1>3. PICK new : new = [at |-> n, since_prev |-> d, record |-> record,
                        todo |-> Workers, jobs |-> NoJobs]
  OBVIOUS
<1>4. /\ new \in Rows /\ new.at = n /\ new.since_prev = d
      /\ new.record = record /\ new.todo = Workers
  BY <1>3, EmptyIsARow DEF Rows
<1>5. /\ local' = [local EXCEPT ![t] = new]
      /\ pc' = [pc EXCEPT ![t] = "read_ios"]
  BY <1>2, <1>3 DEF BeginSnapshot, Goto, ReadOrder
<1>6. /\ local'[t] = new /\ local' \in [Threads -> Rows]
      /\ \A u \in Threads : u # t => local'[u] = local[u]
  BY <1>1, <1>4, <1>5
<1>7. /\ pc'[t] = "read_ios" /\ \A u \in Threads : u # t => pc'[u] = pc[u]
      /\ pc' \in [Threads -> SamplerPlaces \cup MainPlaces]
  BY <1>1, <1>5 DEF SamplerPlaces, Taking, Reads
<1>. QED  BY <1>2, <1>4, <1>6, <1>7

\* The parts of the invariant that are about neither the times nor the places:
\* a snapshot that is to be recorded must cover a while.
LEMMA BeginKeeps ==
  ASSUME IInv, NEW t \in Threads, NEW record \in BOOLEAN,
         BeginSnapshot(t, record),
         UNCHANGED <<now, workerVars, basisVars, end_time, latest_snapshot,
                     seriesVars, built>>,
         \A u \in Threads : pc[u] \notin Taking,
         pc'["main"] \notin {"done", "built"},
         record => now >= prev_sample_time + MinFinalRecord
  PROVE  /\ SnapshotTypes' /\ RowTypes' /\ CountInv' /\ SnapshotInv'
         /\ ReadInv' /\ FinalReadInv' /\ DisplayInv' /\ BasisInv'
         /\ FinalRowInv' /\ ChainInv' /\ RingInv' /\ ResultsInv'
<1>1. /\ ios' = ios /\ blocks' = blocks /\ errors' = errors
      /\ counted' = counted
      /\ prev_ios' = prev_ios /\ prev_sample_time' = prev_sample_time
      /\ now' = now /\ latest_snapshot' = latest_snapshot
      /\ RowTypes' /\ ChainInv' /\ RingInv' /\ LastRow' = LastRow
  BY RowsStay DEF workerVars, basisVars
<1>2. /\ local' \in [Threads -> Rows] /\ pc'[t] = "read_ios"
      /\ \A u \in Threads : u # t => pc'[u] = pc[u]
      /\ local'[t].at = now /\ local'[t].todo = Workers
      /\ local'[t].since_prev = now - prev_sample_time
      /\ local'[t].record = record
  BY BeginMoves
<1>3. \A u \in Threads : u # t => pc'[u] \notin Taking
  BY <1>2
<1>4. \A v \in Workers :
        ~HasIos(t, v)' /\ ~HasBlocks(t, v)' /\ ~HasErrors(t, v)'
  BY <1>2 DEF HasIos, HasBlocks, HasErrors
<1>5. SnapshotTypes' /\ CountInv'
  BY <1>1, <1>2 DEF IInv, SnapshotTypes, CountInv
<1>6. SnapshotInv'
  <2>1. latest_snapshot.at <= now /\ now <= now
    BY DEF IInv, DisplayInv, CounterTypes
  <2>2. Workers # {}
    BY AggregatorAssumption
  <2>. QED  BY <1>1, <1>2, <1>3, <2>1, <2>2 DEF SnapshotInv, Reads
<1>7. ReadInv' /\ FinalReadInv'
  BY <1>3, <1>4 DEF ReadInv, FinalReadInv, Threads
<1>8. DisplayInv'
  BY <1>1 DEF IInv, DisplayInv
<1>9. BasisInv'
  <2>1. \A u \in Threads : ~Pending(u)
    BY DEF Pending
  <2>2. /\ prev_sample_time = LastRow.at
        /\ \A v \in Workers : prev_ios[v] = LastRow.jobs[v].ios
    BY <2>1 DEF IInv, BasisInv
  <2>3. \A u \in Threads : u # t => ~Pending(u)'
    BY <1>3 DEF Pending
  <2>4. Pending(t)' => record
    BY <1>2 DEF Pending
  <2>5. /\ record => now - prev_sample_time >= MinFinalRecord
        /\ local'[t].todo # {}
    BY <1>2, AggregatorAssumption DEF IInv, CounterTypes, MinFinalRecord
  <2>. QED  BY <1>1, <1>2, <1>4, <2>2, <2>3, <2>4, <2>5
            DEF BasisInv, MinFinalRecord
<1>10. FinalRowInv' /\ ResultsInv'
  <2>1. pc'["main"] # "publish"
    BY <1>2, <1>3 DEF Threads, Taking
  <2>. QED  BY <2>1 DEF FinalRowInv, ResultsInv
<1>. QED  BY <1>1, <1>5, <1>6, <1>7, <1>8, <1>9, <1>10

\* The sampling thread wakes up.
LEMMA WakeKeeps ==
  ASSUME IInv, Wake
  PROVE  IInv'
<1>1. /\ pc["sampler"] = "wait" /\ wake' = 0
      /\ UNCHANGED <<now, g_running, workerVars, stop, basisVars, end_time,
                     latest_snapshot, seriesVars, built>>
  BY DEF Wake
<1>2. /\ now \in Nat /\ tick \in Nat /\ wake \in Nat /\ prev_sample_time \in Nat
      /\ prev_sample_time + 1 <= wake
  BY <1>1 DEF IInv, CounterTypes, TimeInv
<1>3. /\ pc["main"] \notin SamplerJoined
      /\ \A u \in Threads : pc[u] \notin Taking
  BY <1>1 DEF IInv, PlaceInv, Threads, SamplerJoined, Taking, Reads
<1>4. /\ now' = now /\ prev_sample_time' = prev_sample_time
      /\ prev_ios' = prev_ios /\ end_time' = end_time
      /\ ios' = ios /\ blocks' = blocks /\ errors' = errors
      /\ counted' = counted
  BY <1>1 DEF workerVars, basisVars
<1>5. CASE MustEnd
  <2>1. pc' = [pc EXCEPT !["sampler"] = "ended"] /\ UNCHANGED <<tick, local>>
    BY <1>5 DEF Wake, Goto
  <2>2. PlaceInv'
    BY <1>4, <2>1 DEF IInv, PlaceInv, Threads, SamplerPlaces
  <2>3. pc'["sampler"] = "ended" /\ pc'["main"] = pc["main"]
    BY <2>1 DEF IInv, PlaceInv, Threads
  <2>4. CounterTypes'
    BY <1>1, <1>4, <2>1 DEF IInv, CounterTypes
  <2>5. TimeInv'
    BY <1>4, <2>1, <2>3 DEF IInv, TimeInv, Odd, Taking, Reads
  <2>6. \A u \in Threads : pc[u] \notin Taking /\ pc'[u] \notin Taking
    BY <1>3, <2>3 DEF Threads, Taking, Reads
  <2>7. pc'["main"] \notin {"done", "built"}
    BY <1>3, <2>3 DEF SamplerJoined
  <2>8. ResultsInv'
    BY <2>7 DEF ResultsInv
  <2>. QED  BY <1>1, <1>4, <2>1, <2>2, <2>4, <2>5, <2>6, <2>7, <2>8, QuietMoves
            DEF IInv
<1>6. CASE ~MustEnd
  <2>1. now >= wake /\ tick' = tick + 1
        /\ BeginSnapshot("sampler", tick' % TicksPerRecord = 0)
    BY <1>6 DEF Wake, MustEnd
  <2>2. now >= prev_sample_time + MinFinalRecord
    BY <1>2, <2>1 DEF MinFinalRecord
  <2>. DEFINE record == tick' % TicksPerRecord = 0
  <2>3. record \in BOOLEAN
    BY Zenon
  <2>4. record <=> ~Odd'
    BY DEF Odd
  <2>5. BeginSnapshot("sampler", record)
    BY <2>1
  <2>. HIDE DEF record
  <2>6. /\ pc'["sampler"] = "read_ios" /\ pc'["main"] = pc["main"]
        /\ pc' \in [Threads -> SamplerPlaces \cup MainPlaces]
        /\ local'["sampler"].record = record
    BY <2>3, <2>5, BeginMoves DEF Threads
  <2>7. PlaceInv'
    BY <1>3, <1>4, <2>6 DEF IInv, PlaceInv, SamplerPlaces, Taking, Reads
  <2>8. CounterTypes'
    BY <1>1, <1>2, <1>4, <2>1 DEF IInv, CounterTypes
  <2>9. TimeInv'
    BY <1>3, <1>4, <2>2, <2>4, <2>6 DEF IInv, TimeInv, Threads
  <2>10. pc'["main"] \notin {"done", "built"}
    BY <1>3, <2>6 DEF SamplerJoined
  <2>. QED  BY <1>1, <1>3, <2>2, <2>3, <2>5, <2>7, <2>8, <2>9, <2>10,
               BeginKeeps DEF IInv, Threads
<1>. QED  BY <1>5, <1>6

\* The last snapshot begins.
LEMMA TakeFinalSnapshotKeeps ==
  ASSUME IInv, TakeFinalSnapshot
  PROVE  IInv'
<1>. DEFINE record == FinalRecords(now - prev_sample_time)
<1>1. /\ pc["main"] = "final" /\ BeginSnapshot("main", record)
      /\ UNCHANGED <<now, g_running, workerVars, wake, tick, stop, basisVars,
                     end_time, latest_snapshot, seriesVars, built>>
  BY DEF TakeFinalSnapshot
<1>2. /\ now \in Nat /\ prev_sample_time \in Nat /\ end_time \in Nat
      /\ end_time <= now
      /\ Odd => now >= prev_sample_time + MinFinalRecord
  BY <1>1 DEF IInv, CounterTypes, TimeInv, Taking, Reads
<1>3. pc["sampler"] = "ended" /\ \A u \in Threads : pc[u] \notin Taking
  BY <1>1 DEF IInv, PlaceInv, Threads, SamplerJoined, Taking, Reads
<1>4. /\ now' = now /\ prev_sample_time' = prev_sample_time
      /\ prev_ios' = prev_ios /\ end_time' = end_time /\ Odd' = Odd
      /\ ios' = ios /\ blocks' = blocks /\ errors' = errors
      /\ counted' = counted
  BY <1>1 DEF workerVars, basisVars, Odd
<1>5. record \in BOOLEAN
  BY <1>2 DEF FinalRecords, MinFinalRecord
<1>6. record <=> now >= prev_sample_time + MinFinalRecord
  BY <1>2 DEF FinalRecords, MinFinalRecord
<1>7. ~record => end_time < prev_sample_time + MinFinalRecord
  BY <1>2, <1>6 DEF MinFinalRecord
<1>. HIDE DEF record
<1>8. /\ pc'["main"] = "read_ios" /\ pc'["sampler"] = "ended"
      /\ pc' \in [Threads -> SamplerPlaces \cup MainPlaces]
      /\ local'["main"].record = record
  BY <1>1, <1>3, <1>5, BeginMoves DEF Threads
<1>9. PlaceInv'
  BY <1>1, <1>4, <1>8 DEF IInv, PlaceInv, SamplerPlaces, MainPlaces, Taking,
     Reads, WorkersJoined
<1>10. CounterTypes'
  BY <1>1, <1>4 DEF IInv, CounterTypes
<1>11. TimeInv'
  BY <1>2, <1>4, <1>6, <1>7, <1>8 DEF IInv, TimeInv, Taking, Reads
<1>. QED  BY <1>1, <1>3, <1>5, <1>6, <1>8, <1>9, <1>10, <1>11, BeginKeeps
          DEF IInv, Threads

-----------------------------------------------------------------------------
\* The other steps of the threads.

\* The loop of Run is tested: the wait ends a tick after the last row or later.
LEMMA LoopTestKeeps ==
  ASSUME IInv, LoopTest
  PROVE  IInv'
<1>1. /\ pc["sampler"] = "test" /\ now' = now
      /\ UNCHANGED <<workerVars, tick, local, basisVars, end_time,
                     latest_snapshot, seriesVars, built>>
  BY DEF LoopTest
<1>2. PICK place \in {"ended", "wait"} :
        /\ pc' = [pc EXCEPT !["sampler"] = place]
        /\ IF place = "ended" THEN wake' = wake ELSE wake' = now + 1
  BY DEF LoopTest, Goto
<1>3. /\ pc'["sampler"] = place /\ pc'["main"] = pc["main"]
      /\ pc' \in [Threads -> SamplerPlaces \cup MainPlaces]
  BY <1>2 DEF IInv, PlaceInv, Threads, SamplerPlaces
<1>4. /\ \A u \in Threads : pc[u] \in Taking \/ pc'[u] \in Taking =>
                              pc'[u] = pc[u]
      /\ pc["main"] \notin SamplerJoined
  BY <1>1, <1>3 DEF IInv, PlaceInv, Threads, SamplerJoined, Taking, Reads
<1>5. CounterTypes'
  BY <1>1, <1>2 DEF IInv, CounterTypes, workerVars, basisVars
<1>6. PlaceInv'
  BY <1>1, <1>3, <1>4 DEF IInv, PlaceInv, SamplerPlaces, workerVars
<1>7. TimeInv'
  <2>1. prev_sample_time <= now /\ now \in Nat /\ prev_sample_time \in Nat
    BY DEF IInv, TimeInv, CounterTypes
  <2>2. /\ prev_sample_time' = prev_sample_time /\ local' = local
        /\ end_time' = end_time /\ Odd' = Odd
    BY <1>1 DEF basisVars, Odd
  <2>3. place = "wait" => wake' >= prev_sample_time + 1
    BY <1>2, <2>1
  <2>4. pc'["sampler"] \notin Taking
    BY <1>3 DEF Taking, Reads
  <2>. QED  BY <1>1, <1>3, <2>1, <2>2, <2>3, <2>4 DEF IInv, TimeInv
<1>8. pc'["main"] \notin {"done", "built"}
  BY <1>3, <1>4 DEF SamplerJoined
<1>9. ResultsInv'
  BY <1>8 DEF ResultsInv
<1>. QED  BY <1>1, <1>4, <1>5, <1>6, <1>7, <1>8, <1>9, QuietMoves DEF IInv

\* The orchestrator's thread, before it takes its snapshot and after it.
MainMoves == \/ StopRun \/ Unwind \/ Destroy \/ JoinWorkers \/ StopJoins
             \/ BuildResults

\* They keep the invariant.
LEMMA MainMovesKeeps ==
  ASSUME IInv, MainMoves
  PROVE  IInv'
<1>1. /\ now' = now
      /\ UNCHANGED <<workerVars, tick, wake, local, basisVars, latest_snapshot,
                     seriesVars>>
  BY DEF MainMoves, StopRun, Unwind, Destroy, JoinWorkers, StopJoins,
         BuildResults
<1>2. PICK place :
        /\ pc' = [pc EXCEPT !["main"] = place]
        /\ \/ pc["main"] = "run" /\ place \in {"join_workers", "destroy"}
           \/ pc["main"] = "destroy" /\ place = "gone" /\ pc["sampler"] = "ended"
           \/ /\ pc["main"] = "join_workers" /\ place = "join_sampler"
              /\ \A w \in Workers : ~counted[w]
           \/ /\ pc["main"] = "join_sampler" /\ place = "final"
              /\ pc["sampler"] = "ended"
           \/ pc["main"] = "done" /\ place = "built"
  BY DEF MainMoves, StopRun, Unwind, Destroy, JoinWorkers, StopJoins,
         BuildResults, Goto
<1>3. /\ pc'["main"] = place /\ pc'["sampler"] = pc["sampler"]
      /\ pc' \in [Threads -> SamplerPlaces \cup MainPlaces]
  BY <1>2 DEF IInv, PlaceInv, Threads, MainPlaces
<1>4. /\ pc["main"] \notin Taking /\ pc'["main"] \notin Taking
      /\ \A u \in Threads : pc[u] \in Taking \/ pc'[u] \in Taking =>
                              pc'[u] = pc[u]
  BY <1>2, <1>3 DEF Threads, Taking, Reads
<1>5. \/ end_time' = end_time
      \/ pc["main"] = "join_sampler" /\ end_time' = now
  BY DEF MainMoves, StopRun, Unwind, Destroy, JoinWorkers, StopJoins,
         BuildResults
<1>6. CounterTypes'
  BY <1>1, <1>5 DEF IInv, CounterTypes, workerVars, basisVars
<1>7. PlaceInv'
  BY <1>1, <1>2, <1>3, <1>4 DEF IInv, PlaceInv, SamplerJoined, WorkersJoined,
     MainPlaces, workerVars
<1>8. TimeInv'
  <2>1. now \in Nat /\ now <= now /\ end_time \in Nat
    BY DEF IInv, CounterTypes
  <2>2. /\ prev_sample_time' = prev_sample_time /\ local' = local
        /\ wake' = wake /\ Odd' = Odd
    BY <1>1 DEF basisVars, Odd
  <2>3. pc'["main"] \notin Taking \cup {"done", "built"} =>
          pc["main"] \notin Taking \cup {"done", "built"}
    BY <1>2, <1>3 DEF Taking, Reads
  <2>. QED  BY <1>1, <1>3, <1>4, <1>5, <2>1, <2>2, <2>3 DEF IInv, TimeInv
<1>9. CASE pc["main"] # "done"
  <2>1. pc'["main"] \notin {"done", "built"}
    BY <1>2, <1>3, <1>9
  <2>2. ResultsInv'
    BY <2>1 DEF ResultsInv
  <2>. QED  BY <1>1, <1>4, <1>6, <1>7, <1>8, <2>1, <2>2, QuietMoves DEF IInv
<1>10. CASE pc["main"] = "done"
  <2>1. BuildResults
    BY <1>10 DEF MainMoves, StopRun, Unwind, Destroy, JoinWorkers, StopJoins
  <2>2. pc'["main"] = "built"
    BY <1>2, <1>3, <1>10
  <2>3. /\ ios' = ios /\ blocks' = blocks /\ errors' = errors
        /\ TimeSeries' = TimeSeries
    BY <1>1, RowsStay DEF workerVars
  <2>4. ResultsInv'
    BY <2>1, <2>3 DEF BuildResults, ResultsInv
  <2>. QED  BY <1>1, <1>4, <1>5, <1>6, <1>7, <1>8, <1>10, <2>2, <2>4, QuietMoves
            DEF IInv
<1>. QED  BY <1>9, <1>10

\* The clock.
LEMMA TimePassesKeeps ==
  ASSUME IInv, TimePasses
  PROVE  IInv'
<1>1. /\ now' = now + 1 /\ pc' = pc
      /\ UNCHANGED <<workerVars, wake, tick, local, basisVars, end_time,
                     latest_snapshot, seriesVars, built>>
  BY DEF TimePasses
<1>2. now \in Nat /\ now' \in Nat /\ now <= now'
  BY <1>1 DEF IInv, CounterTypes
<1>3. CounterTypes' /\ PlaceInv'
  BY <1>1, <1>2 DEF IInv, CounterTypes, PlaceInv, workerVars, basisVars
<1>4. TimeInv'
  <2>1. /\ prev_sample_time \in Nat /\ end_time \in Nat
        /\ prev_sample_time' = prev_sample_time /\ local' = local
        /\ end_time' = end_time /\ wake' = wake /\ Odd' = Odd
    BY <1>1 DEF IInv, CounterTypes, basisVars, Odd
  <2>. QED  BY <1>1, <1>2, <2>1 DEF IInv, TimeInv, MinFinalRecord
<1>5. ResultsInv'
  <2>1. CASE pc["main"] = "built"
    BY <1>1, <2>1, QuietMoves
  <2>2. CASE pc["main"] # "built"
    BY <1>1, <2>2 DEF ResultsInv
  <2>. QED  BY <2>1, <2>2
<1>. QED  BY <1>1, <1>3, <1>4, <1>5, QuietMoves DEF IInv

-----------------------------------------------------------------------------
\* The workers.

\* A worker's counters go on, never back, and its requests are as many as
\* their outcomes but the last one.
LEMMA CountingKeeps ==
  ASSUME IInv, NEW w \in Workers, CountIO(w) \/ CountOutcome(w)
  PROVE  IInv'
<1>1. UNCHANGED <<now, g_running, pc, wake, tick, stop, local, basisVars,
                  end_time, latest_snapshot, seriesVars, built>>
  BY DEF CountIO, CountOutcome
<1>2. /\ ios \in [Workers -> Nat] /\ blocks \in [Workers -> Nat]
      /\ errors \in [Workers -> Nat] /\ counted \in [Workers -> BOOLEAN]
  BY DEF IInv, CounterTypes
<1>3. pc["main"] \notin WorkersJoined
  BY DEF CountIO, CountOutcome, IInv, PlaceInv, WorkersJoined, Taking, Reads
<1>4. /\ ios' \in [Workers -> Nat] /\ blocks' \in [Workers -> Nat]
      /\ errors' \in [Workers -> Nat]
      /\ \A v \in Workers : /\ ios[v] <= ios'[v] /\ blocks[v] <= blocks'[v]
                            /\ errors[v] <= errors'[v]
  BY <1>2 DEF CountIO, CountOutcome
<1>5. counted' \in [Workers -> BOOLEAN]
  BY <1>2, Zenon DEF CountIO, CountOutcome
<1>6. CountInv'
  <2>1. CASE CountIO(w)
    BY <1>2, <2>1 DEF CountIO, IInv, CountInv
  <2>2. CASE CountOutcome(w)
    BY <1>2, <2>2 DEF CountOutcome, IInv, CountInv
  <2>. QED  BY <2>1, <2>2
<1>7. /\ pc' = pc /\ local' = local /\ latest_snapshot' = latest_snapshot
      /\ prev_ios' = prev_ios /\ prev_sample_time' = prev_sample_time
      /\ now' = now /\ end_time' = end_time /\ wake' = wake /\ Odd' = Odd
      /\ RowTypes' /\ ChainInv' /\ RingInv' /\ LastRow' = LastRow
  BY <1>1, RowsStay DEF basisVars, Odd
<1>8. CounterTypes' /\ SnapshotTypes'
  BY <1>1, <1>4, <1>5, <1>7 DEF IInv, CounterTypes, SnapshotTypes
<1>9. PlaceInv'
  BY <1>3, <1>7 DEF IInv, PlaceInv
<1>10. \A u \in Threads, v \in Workers :
         /\ HasIos(u, v)' <=> HasIos(u, v)
         /\ HasBlocks(u, v)' <=> HasBlocks(u, v)
         /\ HasErrors(u, v)' <=> HasErrors(u, v)
  BY <1>7, NextWorkerStays DEF HasIos, HasBlocks, HasErrors
<1>11. \A u \in Threads : Pending(u)' <=> Pending(u)
  BY <1>7 DEF Pending
<1>12. SnapshotInv' /\ BasisInv' /\ TimeInv'
  BY <1>7, <1>10, <1>11 DEF IInv, SnapshotInv, BasisInv, TimeInv
<1>13. ReadInv'
  <2>1. SUFFICES ASSUME NEW u \in Threads, NEW v \in Workers, pc[u] \in Taking
                 PROVE  LET job == local[u].jobs[v]
                            shown == latest_snapshot.jobs[v]
                        IN  /\ HasIos(u, v) =>
                                 shown.ios <= job.ios /\ job.ios <= ios'[v]
                            /\ HasBlocks(u, v) =>
                                 /\ shown.blocks <= job.blocks
                                 /\ job.blocks <= blocks'[v]
                                 /\ job.ios <= job.blocks + errors'[v] + 1
                            /\ HasErrors(u, v) =>
                                 /\ shown.errors <= job.errors
                                 /\ job.errors <= errors'[v]
                                 /\ job.ios <= job.blocks + job.errors + 1
    BY <1>7, <1>10 DEF ReadInv
  <2>2. local[u].jobs[v] \in Jobs
    BY DEF IInv, SnapshotTypes, Rows
  <2>3. /\ ios[v] \in Nat /\ blocks[v] \in Nat /\ errors[v] \in Nat
        /\ ios'[v] \in Nat /\ blocks'[v] \in Nat /\ errors'[v] \in Nat
        /\ ios[v] <= ios'[v] /\ blocks[v] <= blocks'[v]
        /\ errors[v] <= errors'[v]
    BY <1>2, <1>4
  <2>. QED  BY <2>1, <2>2, <2>3 DEF IInv, ReadInv, Jobs
<1>14. DisplayInv'
  <2>1. pc["main"] \notin {"done", "built"}
    BY <1>3 DEF WorkersJoined
  <2>2. \A v \in Workers : latest_snapshot.jobs[v] \in Jobs
    BY DEF IInv, SnapshotTypes, Rows
  <2>. QED  BY <1>2, <1>4, <1>7, <2>1, <2>2 DEF IInv, DisplayInv, Jobs
<1>15. FinalReadInv' /\ FinalRowInv' /\ ResultsInv'
  BY <1>3, <1>7 DEF WorkersJoined, Taking, FinalReadInv, FinalRowInv, ResultsInv
<1>. QED  BY <1>6, <1>7, <1>8, <1>9, <1>12, <1>13, <1>14, <1>15 DEF IInv

-----------------------------------------------------------------------------
\* The invariant.

\* The aggregator starts in it.
LEMMA InitEstablishes == Init => IInv
<1>. SUFFICES ASSUME Init PROVE IInv
  OBVIOUS
<1>1. /\ now = 0 /\ wake = 0 /\ tick = 0 /\ prev_sample_time = 0 /\ end_time = 0
      /\ ios = [w \in Workers |-> 0] /\ blocks = [w \in Workers |-> 0]
      /\ errors = [w \in Workers |-> 0] /\ prev_ios = [w \in Workers |-> 0]
      /\ counted = [w \in Workers |-> FALSE]
      /\ pc = [sampler |-> "test", main |-> "run"]
      /\ local = [t \in Threads |-> Empty] /\ latest_snapshot = Empty
      /\ ring = [i \in 0 .. ts_capacity - 1 |-> Empty]
      /\ ts_write_index = 0 /\ ts_count = 0 /\ rows = <<>>
  BY DEF Init
<1>2. pc["sampler"] = "test" /\ pc["main"] = "run"
  BY <1>1
<1>3. \A t \in Threads : pc[t] \notin Taking
  BY <1>2 DEF Threads, Taking, Reads
<1>4. CounterTypes
  BY <1>1 DEF CounterTypes
<1>5. SnapshotTypes
  BY <1>1, EmptyIsARow DEF SnapshotTypes
<1>6. RowTypes
  BY <1>1, EmptyIsARow, CapacityIsPositive DEF RowTypes
<1>7. PlaceInv
  <2>1. pc \in [Threads -> SamplerPlaces \cup MainPlaces]
    BY <1>1 DEF Threads, SamplerPlaces, MainPlaces
  <2>. QED  BY <1>2, <2>1 DEF PlaceInv, SamplerPlaces, MainPlaces, SamplerJoined,
               WorkersJoined, Taking, Reads
<1>8. CountInv
  BY <1>1 DEF CountInv
<1>9. SnapshotInv /\ ReadInv /\ FinalReadInv
  BY <1>3 DEF SnapshotInv, ReadInv, FinalReadInv, Threads
<1>10. \A w \in Workers : Empty.jobs[w].ios = 0 /\ Empty.jobs[w].blocks = 0
                         /\ Empty.jobs[w].errors = 0
  BY DEF Empty, NoJobs
<1>11. DisplayInv
  BY <1>1, <1>2, <1>10, EmptyIsARow DEF DisplayInv
<1>12. LastRow = Empty
  BY <1>1 DEF LastRow, Before
<1>13. BasisInv
  BY <1>1, <1>3, <1>10, <1>12, EmptyIsARow DEF BasisInv, Pending
<1>14. TimeInv
  BY <1>1, <1>2, <1>3 DEF TimeInv, Odd, TicksPerRecord, Threads
<1>15. FinalRowInv /\ ResultsInv
  BY <1>2 DEF FinalRowInv, ResultsInv
<1>16. ChainInv
  BY <1>1 DEF ChainInv
<1>17. RingInv
  BY <1>1, CapacityIsPositive DEF RingInv
<1>. QED  BY <1>4, <1>5, <1>6, <1>7, <1>8, <1>9, <1>11, <1>13, <1>14, <1>15,
             <1>16, <1>17 DEF IInv

\* A step that changes nothing keeps it.
LEMMA StutterKeeps ==
  ASSUME IInv, UNCHANGED vars
  PROVE  IInv'
<1>1. /\ now' = now /\ pc' = pc
      /\ UNCHANGED <<workerVars, wake, tick, local, basisVars, end_time,
                     latest_snapshot, seriesVars, built>>
  BY DEF vars
<1>2. CounterTypes' /\ PlaceInv'
  BY <1>1 DEF IInv, CounterTypes, PlaceInv, workerVars, basisVars
<1>3. TimeInv'
  <2>1. /\ prev_sample_time' = prev_sample_time /\ local' = local /\ Odd' = Odd
    BY <1>1 DEF basisVars, Odd
  <2>. QED  BY <1>1, <2>1 DEF IInv, TimeInv
<1>4. ResultsInv'
  <2>1. CASE pc["main"] = "built"
    BY <1>1, <2>1, QuietMoves
  <2>2. CASE pc["main"] # "built"
    BY <1>1, <2>2 DEF ResultsInv
  <2>. QED  BY <2>1, <2>2
<1>. QED  BY <1>1, <1>2, <1>3, <1>4, QuietMoves DEF IInv

\* Every reachable state of the aggregator satisfies IInv, for every set of
\* workers, runtime and bound.
THEOREM Invariance == Spec => []IInv
<1>1. ASSUME IInv, [Next]_vars
      PROVE  IInv'
  <2>1. CASE \E w \in Workers : CountIO(w) \/ CountOutcome(w)
    BY <1>1, <2>1, CountingKeeps
  <2>2. ASSUME NEW t \in Threads, Snapshot(t)
        PROVE  IInv'
    <3>1. CASE Reading(t)
      BY <1>1, <3>1, ReadingKeeps
    <3>2. CASE ReadDone(t)
      BY <1>1, <3>2, ReadDoneKeeps
    <3>3. CASE Publish(t)
      BY <1>1, <3>3, PublishKeeps
    <3>4. CASE RecordTimeSeries(t)
      BY <1>1, <3>4, RecordKeeps
    <3>. QED  BY <2>2, <3>1, <3>2, <3>3, <3>4 DEF Snapshot, Reading
  <2>3. CASE Sampler
    BY <1>1, <2>2, <2>3, LoopTestKeeps, WakeKeeps DEF Sampler, Threads
  <2>4. CASE Main
    BY <1>1, <2>2, <2>4, MainMovesKeeps, TakeFinalSnapshotKeeps
       DEF Main, MainMoves, Threads
  <2>5. CASE TimePasses
    BY <1>1, <2>5, TimePassesKeeps
  <2>6. CASE UNCHANGED vars
    BY <1>1, <2>6, StutterKeeps
  <2>. QED  BY <1>1, <2>1, <2>3, <2>4, <2>5, <2>6 DEF Next, Terminated
<1>. QED  BY InitEstablishes, <1>1, PTL DEF Spec

-----------------------------------------------------------------------------
\* The properties.

\* TakeSnapshot, which is not thread safe, is never in progress on both
\* threads: Stop has joined the sampling thread before the last snapshot.
THEOREM SnapshotsExclude == Spec => []DiffBasisExclusive
<1>1. IInv => DiffBasisExclusive
  BY DEF IInv, PlaceInv, DiffBasisExclusive, TakingSnapshot, SamplerJoined,
     Taking, Reads
<1>. QED  BY Invariance, <1>1, PTL

\* A snapshot read while the workers count, the request first and then its
\* bytes and errors, shows at most one request without its outcome.
THEOREM SnapshotsLagByOne == Spec => []SnapshotLag
<1>1. IInv => SnapshotLag
  BY DEF IInv, DisplayInv, SnapshotLag
<1>. QED  BY Invariance, <1>1, PTL

\* latest_snapshot_ goes back neither in time nor in a counter: only a
\* publication changes it, to a snapshot begun and read later.
THEOREM DisplayGoesOn == Spec => DisplayMonotone
<1>. DEFINE Step == /\ latest_snapshot'.at >= latest_snapshot.at
                    /\ \A w \in Workers, field \in {"ios", "blocks", "errors"} :
                         latest_snapshot'.jobs[w][field]
                           >= latest_snapshot.jobs[w][field]
<1>1. ASSUME IInv, [Next]_vars
      PROVE  Step
  <2>1. /\ latest_snapshot.at \in Nat
        /\ \A w \in Workers : latest_snapshot.jobs[w] \in Jobs
    BY <1>1 DEF IInv, SnapshotTypes, Rows
  <2>2. CASE latest_snapshot' = latest_snapshot
    <3>1. \A w \in Workers, field \in {"ios", "blocks", "errors"} :
            latest_snapshot.jobs[w][field] \in Nat
      BY <2>1 DEF Jobs
    <3>. QED  BY <2>1, <2>2, <3>1
  <2>3. ASSUME NEW t \in Threads, Publish(t)
        PROVE  Step
    <3>1. /\ pc[t] \in Taking /\ pc[t] \notin Reads
          /\ latest_snapshot' = local[t]
      BY <2>3 DEF Publish, Taking, Reads
    <3>2. local[t].todo = {} /\ latest_snapshot.at <= local[t].at
          /\ local[t].at \in Nat
      BY <1>1, <3>1 DEF IInv, SnapshotInv, SnapshotTypes, Rows
    <3>3. ASSUME NEW w \in Workers
          PROVE  /\ latest_snapshot.jobs[w].ios <= local[t].jobs[w].ios
                 /\ latest_snapshot.jobs[w].blocks <= local[t].jobs[w].blocks
                 /\ latest_snapshot.jobs[w].errors <= local[t].jobs[w].errors
                 /\ local[t].jobs[w] \in Jobs
      <4>1. HasIos(t, w) /\ HasBlocks(t, w) /\ HasErrors(t, w)
        BY <3>2 DEF HasIos, HasBlocks, HasErrors
      <4>2. local[t].jobs[w] \in Jobs
        BY <1>1 DEF IInv, SnapshotTypes, Rows
      <4>. QED  BY <1>1, <3>1, <4>1, <4>2 DEF IInv, ReadInv
    <3>4. ASSUME NEW w \in Workers, NEW field \in {"ios", "blocks", "errors"}
          PROVE  local[t].jobs[w][field] >= latest_snapshot.jobs[w][field]
      <4>1. CASE field = "ios"
        BY <2>1, <3>3, <4>1 DEF Jobs
      <4>2. CASE field = "blocks"
        BY <2>1, <3>3, <4>2 DEF Jobs
      <4>3. CASE field = "errors"
        BY <2>1, <3>3, <4>3 DEF Jobs
      <4>. QED  BY <4>1, <4>2, <4>3
    <3>. QED  BY <2>1, <3>1, <3>2, <3>4
  <2>4. CASE ~\E t \in Threads : Publish(t)
    <3>1. latest_snapshot' = latest_snapshot
      BY <1>1, <2>4 DEF Next, CountIO, CountOutcome, Sampler, Main, Snapshot,
         ReadIos, ReadBlocks, ReadErrors, ReadDone, RecordTimeSeries, LoopTest,
         Wake, StopRun, Unwind, Destroy, JoinWorkers, StopJoins,
         TakeFinalSnapshot, BuildResults, TimePasses, Terminated, vars, Threads
    <3>. QED  BY <2>2, <3>1
  <2>. QED  BY <2>3, <2>4
<1>2. ASSUME IInv, [Next]_vars
      PROVE  [Step]_vars
  BY <1>1, <1>2
<1>. QED  BY Invariance, <1>2, PTL DEF Spec, DisplayMonotone

\* TimeSeries unwinds the ring into the last rows, in order, whether or not
\* more rows were recorded than it holds.
LEMMA SeriesIsTheLastRows ==
  ASSUME RowTypes, RingInv
  PROVE  TimeSeries = SubSeq(rows, Max({1, Len(rows) - ts_capacity + 1}),
                             Len(rows))
<1>1. PICK c \in Nat \ {0} : c = ts_capacity
  BY CapacityIsPositive
<1>2. PICK k \in 0 .. c - 1 : k = ts_write_index
  BY <1>1 DEF RowTypes
<1>3. PICK n \in Nat : n = Len(rows)
  BY DEF RowTypes
<1>4. rows \in Seq(Rows) /\ \A j \in 1 .. n : rows[j] \in Rows
  BY <1>3 DEF RowTypes
<1>5. /\ n < c => k = n
      /\ n = c => k = 0
      /\ \A j \in 1 .. c : j <= n => ring[Slot(k, j)] = rows[n + 1 - j]
  BY <1>1, <1>2, <1>3 DEF RingInv
<1>6. CASE n <= c
  <2>1. PICK m \in Int : m = n - c + 1 /\ m <= 1
    BY <1>6
  <2>2. Max({1, m}) = 1
    <3>1. 1 \in {1, m} /\ \A x \in {1, m} : x <= 1
      BY <2>1
    <3>. QED  BY <3>1 DEF Max
  <2>3. SubSeq(rows, 1, n) = [i \in 1 .. n |-> rows[i]]
    BY <1>3, <1>4, SubSeqProperties
  <2>4. \A i \in 1 .. n : ring[i - 1] = rows[i]
    <3>1. ASSUME NEW i \in 1 .. n
          PROVE  ring[i - 1] = rows[i]
      <4>1. PICK j \in 1 .. c : j = n + 1 - i /\ j <= n
        BY <1>6
      <4>2. Slot(k, j) = i - 1 /\ n + 1 - j = i
        BY <1>1, <1>5, <1>6, <4>1 DEF Slot
      <4>. QED  BY <1>5, <4>1, <4>2
    <3>. QED  BY <3>1
  <2>5. TimeSeries = [i \in 1 .. n |-> ring[i - 1]]
    BY <1>1, <1>3, <1>6 DEF TimeSeries, RowTypes
  <2>6. TimeSeries = [i \in 1 .. n |-> rows[i]]
    BY <2>4, <2>5
  <2>. QED  BY <1>1, <1>3, <2>1, <2>2, <2>3, <2>6
<1>7. CASE n > c
  <2>1. PICK m \in 1 .. n : m = n - c + 1
    BY <1>7
  <2>2. Max({1, m}) = m
    <3>1. m \in {1, m} /\ \A x \in {1, m} : x <= m
      BY <2>1
    <3>. QED  BY <3>1 DEF Max
  <2>3. n - m + 1 = c
    BY <2>1
  <2>4. SubSeq(rows, m, n) = [i \in 1 .. c |-> rows[i + m - 1]]
    BY <1>3, <1>4, <2>1, <2>3, SubSeqProperties
  <2>5. ASSUME NEW i \in 1 .. c
        PROVE  ring[(k + i - 1) % c] = rows[i + m - 1]
    <3>1. PICK j \in 1 .. c : j = c + 1 - i /\ j <= n
      BY <1>7
    <3>2. (k + i - 1) % c = IF k + i - 1 < c THEN k + i - 1 ELSE k + i - 1 - c
      <4>1. PICK x \in 0 .. 2 * c - 1 : x = k + i - 1
        OBVIOUS
      <4>2. x % c = IF x < c THEN x ELSE x - c
        OBVIOUS
      <4>. QED  BY <4>1, <4>2
    <3>3. Slot(k, j) = (k + i - 1) % c
      BY <1>1, <3>1, <3>2 DEF Slot
    <3>4. n + 1 - j = i + m - 1
      BY <2>1, <3>1
    <3>. QED  BY <1>5, <3>1, <3>3, <3>4
  <2>6. TimeSeries = [i \in 1 .. c |-> ring[(k + i - 1) % c]]
    BY <1>1, <1>2, <1>3, <1>7 DEF TimeSeries, RowTypes
  <2>7. TimeSeries = [i \in 1 .. c |-> rows[i + m - 1]]
    BY <2>5, <2>6
  <2>. QED  BY <1>1, <1>3, <2>1, <2>2, <2>4, <2>7
<1>8. n <= c \/ n > c
  OBVIOUS
<1>. QED  BY <1>6, <1>7, <1>8

\* A row that was on time is in an earlier second than the next one, which is
\* at least half a record interval later.
LEMMA SecondsGoOn ==
  ASSUME NEW a \in Nat, NEW b \in Nat, b >= a + 1
  PROVE  /\ (a + 1) \div 2 <= (b + 1) \div 2
         /\ a % 2 = 0 => (a + 1) \div 2 < (b + 1) \div 2
<1>1. PICK m \in Nat : a = 2 * m \/ a = 2 * m + 1
  <2>1. a \div 2 \in Nat /\ (a = 2 * (a \div 2) \/ a = 2 * (a \div 2) + 1)
    OBVIOUS
  <2>. QED  BY <2>1
<1>2. (b + 1) \div 2 >= m + 1
  BY <1>1
<1>3. CASE a = 2 * m
  <2>1. (a + 1) \div 2 = m
    BY <1>3
  <2>. QED  BY <1>2, <2>1
<1>4. CASE a = 2 * m + 1
  <2>1. (a + 1) \div 2 = m + 1 /\ a % 2 = 1
    BY <1>4
  <2>. QED  BY <1>2, <2>1
<1>. QED  BY <1>1, <1>3, <1>4

\* The rows partition the run: the diff basis moves only with the ticks that
\* record, and TimeSeries returns the last rows in order, whose seconds in the
\* CSV file go on.
THEOREM RowsPartitionTheRun == Spec => []RowsAddUp
<1>1. ASSUME IInv
      PROVE  RowsAddUp
  <2>1. ChainInv /\ RingInv /\ RowTypes
    BY <1>1 DEF IInv
  <2>2. (\A t \in Threads : ~TakingSnapshot(t)) =>
          /\ \A w \in Workers : prev_ios[w] = LastRow.jobs[w].ios
          /\ prev_sample_time = LastRow.at
    <3>1. (\A t \in Threads : ~TakingSnapshot(t)) =>
            \A t \in Threads : ~Pending(t)
      BY DEF TakingSnapshot, Pending, Taking, Reads
    <3>. QED  BY <1>1, <3>1 DEF IInv, BasisInv
  <2>3. TimeSeries = SubSeq(rows, Max({1, Len(rows) - ts_capacity + 1}),
                            Len(rows))
    BY <2>1, SeriesIsTheLastRows
  <2>4. ASSUME NEW i \in 1 .. Len(rows) - 1
        PROVE  IF OnTime(rows[i]) THEN Second(rows[i]) < Second(rows[i + 1])
                                  ELSE Second(rows[i]) <= Second(rows[i + 1])
    <3>1. PICK n \in Nat : n = Len(rows)
      BY <2>1 DEF RowTypes
    <3>2. PICK j \in 1 .. n : j = i + 1 /\ j - 1 = i /\ j # 1
      BY <3>1
    <3>3. rows[i] \in Rows /\ rows[j] \in Rows /\ j \in DOMAIN rows
      BY <2>1, <3>1, <3>2 DEF RowTypes
    <3>4. PICK a \in Nat, b \in Nat : a = rows[i].at /\ b = rows[j].at
      BY <3>3 DEF Rows
    <3>5. Before(j) = rows[i]
      BY <3>2 DEF Before
    <3>6. b - a >= MinFinalRecord
      BY <2>1, <3>3, <3>4, <3>5 DEF ChainInv
    <3>7. b >= a + 1
      BY <3>6 DEF MinFinalRecord
    <3>. QED  BY <3>2, <3>4, <3>7, SecondsGoOn DEF OnTime, Second
  <2>. QED  BY <2>1, <2>2, <2>3, <2>4 DEF RowsAddUp, ChainInv
<1>. QED  BY Invariance, <1>1, PTL

\* After TakeFinalSnapshot the display, the results and, if a row was due, the
\* last row say the same.
THEOREM FinalNumbersAreExact == Spec => []FinalIsExact
<1>1. ASSUME IInv, pc["main"] = "built"
      PROVE  /\ \A w \in Workers :
                  /\ [latest_snapshot.jobs[w] EXCEPT !.delta = 0]
                       = built.jobs[w]
                  /\ built.jobs[w].ios
                       = built.jobs[w].blocks + built.jobs[w].errors
                  /\ Recorded(w) # built.jobs[w].ios =>
                       end_time - prev_sample_time < MinFinalRecord
             /\ tick % TicksPerRecord # 0 =>
                  built.time_series # <<>>
                  /\ Last(built.time_series) = latest_snapshot
  <2>1. /\ built.time_series = TimeSeries
        /\ \A w \in Workers :
             built.jobs[w] = [delta |-> 0, ios |-> ios[w],
                                blocks |-> blocks[w], errors |-> errors[w]]
    BY <1>1 DEF IInv, ResultsInv
  <2>2. ASSUME NEW w \in Workers
        PROVE  /\ [latest_snapshot.jobs[w] EXCEPT !.delta = 0] = built.jobs[w]
               /\ built.jobs[w].ios
                    = built.jobs[w].blocks + built.jobs[w].errors
               /\ Recorded(w) # built.jobs[w].ios =>
                    end_time - prev_sample_time < MinFinalRecord
    <3>1. PICK job \in Jobs : job = latest_snapshot.jobs[w]
      BY <1>1 DEF IInv, SnapshotTypes, Rows
    <3>2. job.ios = ios[w] /\ job.blocks = blocks[w] /\ job.errors = errors[w]
      BY <1>1, <3>1 DEF IInv, DisplayInv
    <3>3. [job EXCEPT !.delta = 0] = [delta |-> 0, ios |-> job.ios,
                                      blocks |-> job.blocks,
                                      errors |-> job.errors]
      BY DEF Jobs
    <3>4. ios[w] = blocks[w] + errors[w]
      <4>1. ~counted[w]
        BY <1>1 DEF IInv, PlaceInv, WorkersJoined
      <4>. QED  BY <1>1, <4>1 DEF IInv, CountInv, CounterTypes
    <3>5. LastRow.jobs[w].ios # ios[w] =>
            end_time < prev_sample_time + MinFinalRecord
      BY <1>1 DEF IInv, FinalRowInv
    <3>6. /\ end_time \in Nat /\ prev_sample_time \in Nat
          /\ end_time < prev_sample_time + MinFinalRecord =>
               end_time - prev_sample_time < MinFinalRecord
      BY <1>1 DEF IInv, CounterTypes, MinFinalRecord
    <3>. QED  BY <2>1, <3>1, <3>2, <3>3, <3>4, <3>5, <3>6 DEF Recorded
  <2>3. ASSUME Odd
        PROVE  TimeSeries # <<>> /\ Last(TimeSeries) = latest_snapshot
    <3>1. rows # <<>> /\ LastRow = latest_snapshot /\ RowTypes /\ RingInv
      BY <1>1, <2>3 DEF IInv, FinalRowInv
    <3>2. PICK n \in Nat : n = Len(rows)
      BY <3>1 DEF RowTypes
    <3>3. n # 0 /\ rows \in Seq(Rows)
      BY <3>1, <3>2 DEF RowTypes
    <3>4. rows[n] = latest_snapshot
      <4>1. n + 1 # 1 /\ n + 1 - 1 = n
        BY <3>3
      <4>. QED  BY <3>1, <3>2, <4>1 DEF LastRow, Before
    <3>5. PICK c \in Nat \ {0} : c = ts_capacity
      BY CapacityIsPositive
    <3>6. PICK m \in 1 .. n : m = Max({1, n - c + 1})
      <4>1. PICK x \in Int : x = n - c + 1 /\ x <= n
        OBVIOUS
      <4>2. Max({1, x}) = IF x > 1 THEN x ELSE 1
        <5>1. 1 \in {1, x} /\ x \in {1, x}
          OBVIOUS
        <5>. QED  BY <5>1 DEF Max
      <4>. QED  BY <3>3, <4>1, <4>2
    <3>7. TimeSeries = SubSeq(rows, m, n)
      BY <3>1, <3>2, <3>5, <3>6, SeriesIsTheLastRows
    <3>8. PICK l \in Nat \ {0} : l = n - m + 1
      OBVIOUS
    <3>9. TimeSeries = [i \in 1 .. l |-> rows[i + m - 1]]
      BY <3>2, <3>3, <3>7, <3>8, SubSeqProperties
    <3>10. Len(TimeSeries) = l
      BY <3>9
    <3>11. TimeSeries[l] = rows[n]
      BY <3>8, <3>9
    <3>. QED  BY <3>4, <3>8, <3>10, <3>11 DEF Last
  <2>. QED  BY <2>1, <2>2, <2>3 DEF Odd
<1>2. IInv => FinalIsExact
  BY <1>1 DEF FinalIsExact
<1>. QED  BY Invariance, <1>2, PTL

=============================================================================
