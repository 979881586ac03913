-------------------------- MODULE MetricsAggregator --------------------------
(***************************************************************************)
(* cfio::MetricsAggregator (telemetry/metrics_aggregator.{h,cpp}): the     *)
(* sampling thread, the workers whose counters it reads without a lock,    *)
(* and the thread that stops it, takes the last snapshot and builds the    *)
(* results.                                                              *)
(*                                                                         *)
(* Time is counted in ticks of kTickInterval (500 ms), which is also       *)
(* kMinFinalRecordSeconds; a record is due every second tick.  A thread    *)
(* may always be late.  A rate is kept as its numerator and its interval;  *)
(* latencies are left out, and the two error counters are one.             *)
(***************************************************************************)
EXTENDS Integers, Sequences, FiniteSets, SequencesExt, FiniteSetsExt

CONSTANTS Workers,      \* workers_
          Runtime,      \* runtime_seconds
          MaxTime,      \* bound: ticks of the clock
          MaxIOs        \* bound: completions of all workers

ASSUME AggregatorAssumption == /\ IsFiniteSet(Workers) /\ Workers # {}
                               /\ Runtime \in Nat
                               /\ MaxTime \in Nat /\ MaxIOs \in Nat

TicksPerRecord == 2

\* faulty variant: a final row is due after a whole record interval only
MinFinalRecordWhole == TicksPerRecord

MinFinalRecord == 1
ts_capacity == Max({1, Runtime})

VARIABLES
  now,                  \* the steady clock
  g_running,            \* the run flag
  ios, blocks, errors,  \* per worker: its counters; bytes in whole blocks
  counted,              \* per worker: the last request counted still lacks
                        \* its bytes or its error
  pc,                   \* per thread, "sampler" and "main": where it is
  wake,                 \* when the sampler's wait times out
  tick,                 \* local tick of Run
  stop,                 \* the stop token
  local,                \* per thread: the snapshot TakeSnapshot builds
  prev_ios,             \* prev_iops_
  prev_sample_time,     \* prev_sample_time_
  end_time,             \* end_time_
  latest_snapshot,      \* latest_snapshot_
  ring, ts_write_index, ts_count,       \* time_series_ and its indices
  rows,                 \* history: every row ever recorded
  built                 \* what BuildResults returned

workerVars == <<ios, blocks, errors, counted>>
seriesVars == <<ring, ts_write_index, ts_count, rows>>
basisVars == <<prev_ios, prev_sample_time>>
vars == <<now, g_running, workerVars, pc, wake, tick, stop, local, basisVars,
          end_time, latest_snapshot, seriesVars, built>>

Threads == {"sampler", "main"}
NoJobs == [w \in Workers |->
             [delta |-> 0, ios |-> 0, blocks |-> 0, errors |-> 0]]
Empty == [at |-> 0, since_prev |-> 0, record |-> FALSE, todo |-> {},
          jobs |-> NoJobs]

NothingBuilt == [jobs |-> NoJobs, time_series |-> <<>>]

Init ==
  /\ now = 0 /\ g_running = TRUE
  /\ ios = [w \in Workers |-> 0] /\ blocks = [w \in Workers |-> 0]
  /\ errors = [w \in Workers |-> 0] /\ counted = [w \in Workers |-> FALSE]
  /\ pc = [sampler |-> "test", main |-> "run"]
  /\ wake = 0 /\ tick = 0 /\ stop = FALSE
  /\ local = [t \in Threads |-> Empty]
  /\ prev_ios = [w \in Workers |-> 0] /\ prev_sample_time = 0
  /\ end_time = 0
  /\ latest_snapshot = Empty
  /\ ring = [i \in 0 .. ts_capacity - 1 |-> Empty]
  /\ ts_write_index = 0 /\ ts_count = 0 /\ rows = <<>>
  /\ built = NothingBuilt

Goto(t, place) == pc' = [pc EXCEPT ![t] = place]

-----------------------------------------------------------------------------
\* Faulty variants of definitions below, each a plausible slip.

\* the counts are read after the bytes and the errors
ReadOrderReversed == [read_ios |-> "read_done", read_blocks |-> "read_errors",
                      read_errors |-> "read_ios", first |-> "read_blocks"]

\* the diff basis advances on every tick
MovesBasisAlways(snapshot) == TRUE

\* Stop without the join
StopJoinsMissing ==
  /\ pc["main"] = "join_sampler"
  /\ end_time' = now
  /\ Goto("main", "final")
  /\ UNCHANGED <<now, g_running, workerVars, wake, tick, stop, local, basisVars,
                 latest_snapshot, seriesVars, built>>

\* a std::thread joined by hand: its destruction requests no stop
UnwindWithoutStop ==
  /\ pc["main"] = "run"
  /\ Goto("main", "destroy")
  /\ UNCHANGED <<now, g_running, workerVars, wake, tick, stop, local, basisVars,
                 end_time, latest_snapshot, seriesVars, built>>

-----------------------------------------------------------------------------
\* The counters of a worker (WorkerThread's CountIO, CountBytes, CountError).

CountIO(w) ==
  /\ pc["main"] \in {"run", "join_workers", "destroy"}
  /\ ~counted[w] /\ MapThenSumSet(LAMBDA v : ios[v], Workers) < MaxIOs
  /\ ios' = [ios EXCEPT ![w] = @ + 1]
  /\ counted' = [counted EXCEPT ![w] = TRUE]
  /\ UNCHANGED <<now, g_running, blocks, errors, pc, wake, tick, stop, local,
                 basisVars, end_time, latest_snapshot, seriesVars, built>>

CountOutcome(w) ==
  /\ counted[w]
  /\ counted' = [counted EXCEPT ![w] = FALSE]
  /\ \/ blocks' = [blocks EXCEPT ![w] = @ + 1] /\ UNCHANGED errors
     \/ errors' = [errors EXCEPT ![w] = @ + 1] /\ UNCHANGED blocks
  /\ UNCHANGED <<now, g_running, ios, pc, wake, tick, stop, local, basisVars,
                 end_time, latest_snapshot, seriesVars, built>>

-----------------------------------------------------------------------------
\* TakeSnapshot, by either thread.

\* The order in which one worker's counters are read.
ReadOrder == [first |-> "read_ios", read_ios |-> "read_blocks",
              read_blocks |-> "read_errors", read_errors |-> "read_done"]

\* The clock is read once; `place` is where the thread calls it.
BeginSnapshot(t, record) ==
  /\ local' = [local EXCEPT ![t] = [at |-> now,
                                    since_prev |-> now - prev_sample_time,
                                    record |-> record, todo |-> Workers,
                                    jobs |-> NoJobs]]
  /\ Goto(t, ReadOrder.first)

\* The workers are visited in turn; which is first does not matter.
NextWorker(t) == CHOOSE w \in local[t].todo : TRUE

\* What the snapshot shows of that worker becomes `job`.
Shows(t, job) == local' = [local EXCEPT ![t].jobs[NextWorker(t)] = job]

ReadIos(t) ==
  /\ pc[t] = "read_ios"
  /\ LET w == NextWorker(t)
     IN  Shows(t, [local[t].jobs[w] EXCEPT !.ios = ios[w],
                                           !.delta = ios[w] - prev_ios[w]])
  /\ Goto(t, ReadOrder[pc[t]])
  /\ UNCHANGED <<now, g_running, workerVars, wake, tick, stop, basisVars,
                 end_time, latest_snapshot, seriesVars, built>>

ReadBlocks(t) ==
  /\ pc[t] = "read_blocks"
  /\ LET w == NextWorker(t)
     IN  Shows(t, [local[t].jobs[w] EXCEPT !.blocks = blocks[w]])
  /\ Goto(t, ReadOrder[pc[t]])
  /\ UNCHANGED <<now, g_running, workerVars, wake, tick, stop, basisVars,
                 end_time, latest_snapshot, seriesVars, built>>

ReadErrors(t) ==
  /\ pc[t] = "read_errors"
  /\ LET w == NextWorker(t)
     IN  Shows(t, [local[t].jobs[w] EXCEPT !.errors = errors[w]])
  /\ Goto(t, ReadOrder[pc[t]])
  /\ UNCHANGED <<now, g_running, workerVars, wake, tick, stop, basisVars,
                 end_time, latest_snapshot, seriesVars, built>>

\* if (record_ts): the diff basis moves to this snapshot.
MovesBasis(snapshot) == snapshot.record

\* The worker is done: its diff basis, then the next worker's first counter;
\* after the last worker a recording snapshot moves the time basis.
ReadDone(t) ==
  /\ pc[t] = "read_done"
  /\ LET w == NextWorker(t)
         last == local[t].todo = {w}
     IN  /\ local' = [local EXCEPT ![t].todo = @ \ {w}]
         /\ prev_ios' = IF MovesBasis(local[t])
                          THEN [prev_ios EXCEPT ![w] = local[t].jobs[w].ios]
                          ELSE prev_ios
         /\ prev_sample_time' = IF last /\ local[t].record
                                  THEN local[t].at ELSE prev_sample_time
         /\ Goto(t, IF ~last THEN ReadOrder.first
                    ELSE IF t = "main" /\ local[t].record THEN "record"
                    ELSE "publish")
  /\ UNCHANGED <<now, g_running, workerVars, wake, tick, stop, end_time,
                 latest_snapshot, seriesVars, built>>

\* latest_snapshot_ = snapshot, under its mutex.  The sampler publishes before
\* it records, TakeFinalSnapshot after; then the local copy goes.
Publish(t) ==
  /\ pc[t] = "publish"
  /\ latest_snapshot' = local[t]
  /\ IF t = "sampler" /\ local[t].record
       THEN Goto(t, "record") /\ UNCHANGED local
       ELSE /\ Goto(t, IF t = "main" THEN "done" ELSE "test")
            /\ local' = [local EXCEPT ![t] = Empty]
  /\ UNCHANGED <<now, g_running, workerVars, wake, tick, stop, basisVars,
                 end_time, seriesVars, built>>

RecordTimeSeries(t) ==
  /\ pc[t] = "record"
  /\ ring' = [ring EXCEPT ![ts_write_index] = local[t]]
  /\ ts_write_index' = (ts_write_index + 1) % ts_capacity
  /\ ts_count' = ts_count + 1
  /\ rows' = Append(rows, local[t])
  /\ IF t = "main"
       THEN Goto(t, "publish") /\ UNCHANGED local
       ELSE Goto(t, "test") /\ local' = [local EXCEPT ![t] = Empty]
  /\ UNCHANGED <<now, g_running, workerVars, wake, tick, stop, basisVars,
                 end_time, latest_snapshot, built>>

\* The column timestamp_s of the CSV file: llround of the elapsed seconds, of
\* two ticks each.
Second(row) == (row.at + 1) \div 2
OnTime(row) == row.at % 2 = 0

TimeSeries ==
  IF ts_count <= ts_capacity
    THEN [i \in 1 .. ts_count |-> ring[i - 1]]
    ELSE [i \in 1 .. ts_capacity |->
            ring[(ts_write_index + i - 1) % ts_capacity]]

Snapshot(t) == \/ ReadIos(t) \/ ReadBlocks(t) \/ ReadErrors(t)
               \/ ReadDone(t) \/ Publish(t) \/ RecordTimeSeries(t)

-----------------------------------------------------------------------------
\* Run, the sampling thread.

\* The condition of the loop, and again after the wait.
MustEnd == ~g_running \/ stop

LoopTest ==
  /\ pc["sampler"] = "test"
  /\ IF MustEnd THEN Goto("sampler", "ended") /\ UNCHANGED wake
                ELSE Goto("sampler", "wait") /\ wake' = now + 1
  /\ UNCHANGED <<now, g_running, workerVars, tick, stop, local, basisVars,
                 end_time, latest_snapshot, seriesVars, built>>

\* wait_for returns on the time-out or the stop token.
Wake ==
  /\ pc["sampler"] = "wait"
  /\ now >= wake \/ stop
  /\ wake' = 0
  /\ IF MustEnd
       THEN /\ Goto("sampler", "ended")
            /\ UNCHANGED <<tick, local>>
       ELSE /\ tick' = tick + 1
            /\ BeginSnapshot("sampler", tick' % TicksPerRecord = 0)
  /\ UNCHANGED <<now, g_running, workerVars, stop, basisVars, end_time,
                 latest_snapshot, seriesVars, built>>

Sampler == LoopTest \/ Wake \/ Snapshot("sampler")

-----------------------------------------------------------------------------
\* The orchestrator's thread.

\* The deadline, a signal, the display or a failed worker ends the run.
StopRun ==
  /\ pc["main"] = "run" /\ g_running
  /\ g_running' = FALSE
  /\ Goto("main", "join_workers")
  /\ UNCHANGED <<now, workerVars, wake, tick, stop, local, basisVars, end_time,
                 latest_snapshot, seriesVars, built>>

\* An exception unwinds RunBenchmark with the run flag still set; the
\* aggregator is destroyed, which stops its thread and joins it.
Unwind ==
  /\ pc["main"] = "run"
  /\ stop' = TRUE
  /\ Goto("main", "destroy")
  /\ UNCHANGED <<now, g_running, workerVars, wake, tick, local, basisVars,
                 end_time, latest_snapshot, seriesVars, built>>

Destroy ==
  /\ pc["main"] = "destroy"
  /\ pc["sampler"] = "ended"
  /\ Goto("main", "gone")
  /\ UNCHANGED <<now, g_running, workerVars, wake, tick, stop, local, basisVars,
                 end_time, latest_snapshot, seriesVars, built>>

\* Every worker's thread has ended; Stop requests the sampler's.
JoinWorkers ==
  /\ pc["main"] = "join_workers"
  /\ \A w \in Workers : ~counted[w]
  /\ stop' = TRUE
  /\ Goto("main", "join_sampler")
  /\ UNCHANGED <<now, g_running, workerVars, wake, tick, local, basisVars,
                 end_time, latest_snapshot, seriesVars, built>>

StopJoins ==
  /\ pc["main"] = "join_sampler"
  /\ pc["sampler"] = "ended"
  /\ end_time' = now
  /\ Goto("main", "final")
  /\ UNCHANGED <<now, g_running, workerVars, wake, tick, stop, local, basisVars,
                 latest_snapshot, seriesVars, built>>

\* tail >= kMinFinalRecordSeconds
FinalRecords(tail) == tail >= MinFinalRecord

TakeFinalSnapshot ==
  /\ pc["main"] = "final"
  /\ BeginSnapshot("main", FinalRecords(now - prev_sample_time))
  /\ UNCHANGED <<now, g_running, workerVars, wake, tick, stop, basisVars,
                 end_time, latest_snapshot, seriesVars, built>>

\* The results are the workers' totals and the series.
BuildResults ==
  /\ pc["main"] = "done"
  /\ built' = [jobs |-> [w \in Workers |->
                           [delta |-> 0, ios |-> ios[w],
                            blocks |-> blocks[w], errors |-> errors[w]]],
                 time_series |-> TimeSeries]
  /\ Goto("main", "built")
  /\ UNCHANGED <<now, g_running, workerVars, wake, tick, stop, local, basisVars,
                 end_time, latest_snapshot, seriesVars>>

Main == \/ StopRun \/ Unwind \/ Destroy
        \/ JoinWorkers \/ StopJoins \/ TakeFinalSnapshot \/ Snapshot("main")
        \/ BuildResults

\* The clock; how late a thread runs is not bounded.
TimePasses ==
  /\ now < MaxTime
  /\ now' = now + 1
  /\ UNCHANGED <<g_running, workerVars, pc, wake, tick, stop, local, basisVars,
                 end_time, latest_snapshot, seriesVars, built>>

\* Nothing is left to do, or the clock is at its bound, which is no deadlock.
Terminated == /\ \/ pc["main"] \in {"built", "gone"} /\ pc["sampler"] = "ended"
                 \/ now = MaxTime
              /\ UNCHANGED vars

Next == \/ \E w \in Workers : CountIO(w) \/ CountOutcome(w)
        \/ Sampler \/ Main \/ TimePasses \/ Terminated

Spec == Init /\ [][Next]_vars

\* The threads are scheduled.  The clock need not go on: a thread that waits
\* for it is woken when it is to end.
Fairness == /\ WF_vars(\E w \in Workers : CountOutcome(w))
            /\ WF_vars(Sampler) /\ WF_vars(Main)

FairSpec == Spec /\ Fairness

-----------------------------------------------------------------------------
\* Properties.

Row == [at : 0 .. MaxTime, since_prev : 0 .. MaxTime, record : BOOLEAN,
        todo : SUBSET Workers,
        jobs : [Workers -> [delta : 0 .. MaxIOs, ios : 0 .. MaxIOs,
                            blocks : 0 .. MaxIOs, errors : 0 .. MaxIOs]]]

TypeOK ==
  /\ now \in 0 .. MaxTime /\ g_running \in BOOLEAN
  /\ ios \in [Workers -> 0 .. MaxIOs] /\ blocks \in [Workers -> 0 .. MaxIOs]
  /\ errors \in [Workers -> 0 .. MaxIOs] /\ counted \in [Workers -> BOOLEAN]
  /\ wake \in 0 .. MaxTime + 1 /\ tick \in 0 .. MaxTime /\ stop \in BOOLEAN
  /\ \A t \in Threads : local[t] \in Row
  /\ prev_ios \in [Workers -> 0 .. MaxIOs]
  /\ prev_sample_time \in 0 .. MaxTime /\ end_time \in 0 .. MaxTime
  /\ latest_snapshot \in Row
  /\ \A i \in 0 .. ts_capacity - 1 : ring[i] \in Row
  /\ ts_write_index \in 0 .. ts_capacity - 1 /\ ts_count = Len(rows)

\* The thread is between the call of TakeSnapshot and the last use of it.
TakingSnapshot(t) == pc[t] \in {"read_ios", "read_blocks",
                                "read_errors", "read_done", "publish", "record"}

\* The row before the i-th; before the first, the start of the run.
Before(i) == IF i = 1 THEN Empty ELSE rows[i - 1]
LastRow == Before(Len(rows) + 1)

\* The requests the recorded rows account for, which is the sum of their
\* deltas if each row begins where the one before it ends (RowsAddUp).
Recorded(w) == LastRow.jobs[w].ios

\* "Not thread safe, run it on the sampling thread or on any thread after
\* Stop": the two threads that call TakeSnapshot never are in it together.
DiffBasisExclusive == ~(TakingSnapshot("sampler") /\ TakingSnapshot("main"))

\* The rows partition the run: each begins, in requests and in time, exactly
\* where the one before it ended, and so does what comes after the last, so
\* that none is counted twice and none is left out by the ticks in between
\* that only feed the display; and no row is divided by an interval so short
\* that its rate is a spike.  The time series is the end of these rows, in
\* order, whether or not the ring has wrapped, and its seconds in the CSV file
\* go on: only after a row that was late may the next have the same one.
\* (The documents promise more: SeriesAsDocumented.)
RowsAddUp ==
  /\ \A i \in DOMAIN rows :
       /\ rows[i].since_prev = rows[i].at - Before(i).at
       /\ rows[i].since_prev >= MinFinalRecord
       /\ \A w \in Workers : rows[i].jobs[w].delta
                             = rows[i].jobs[w].ios - Before(i).jobs[w].ios
  /\ (\A t \in Threads : ~TakingSnapshot(t)) =>
       /\ \A w \in Workers : prev_ios[w] = LastRow.jobs[w].ios
       /\ prev_sample_time = LastRow.at
  /\ TimeSeries = SubSeq(rows, Max({1, Len(rows) - ts_capacity + 1}), Len(rows))
  /\ \A i \in 1 .. Len(rows) - 1 :
       IF OnTime(rows[i]) THEN Second(rows[i]) < Second(rows[i + 1])
                          ELSE Second(rows[i]) <= Second(rows[i + 1])

\* A snapshot read while a worker counts shows at most one of its requests
\* without the bytes or the error it ended in: the counts are read first.
SnapshotLag ==
  \A w \in Workers :
    latest_snapshot.jobs[w].ios
      <= latest_snapshot.jobs[w].blocks + latest_snapshot.jobs[w].errors + 1

\* What the display shows last is exactly what the results contain, what the
\* rows leave out is less than half a record interval old at the stop, and the
\* window, whose table shows the last row once the run is over, does not fall
\* back behind the last sample it drew while it ran.
FinalIsExact ==
  pc["main"] = "built" =>
    /\ \A w \in Workers :
         /\ [latest_snapshot.jobs[w] EXCEPT !.delta = 0] = built.jobs[w]
         /\ built.jobs[w].ios = built.jobs[w].blocks + built.jobs[w].errors
         /\ Recorded(w) # built.jobs[w].ios =>
               end_time - prev_sample_time < MinFinalRecord
    /\ tick % TicksPerRecord # 0 =>
         built.time_series # <<>> /\ Last(built.time_series) = latest_snapshot

\* The display never goes back in time or in any count.
DisplayMonotone ==
  [][LET old == latest_snapshot
         new == latest_snapshot'
     IN  /\ new.at >= old.at
         /\ \A w \in Workers, field \in {"ios", "blocks", "errors"} :
               new.jobs[w][field] >= old.jobs[w][field]]_vars

\* However the run ends, the sampling thread does, and with it Stop and the
\* destructor that wait for it.
SamplerEnds == pc["main"] # "run" ~> pc["main"] \in {"built", "gone"}

\* metrics_aggregator.h: the time series is all samples collected so far, oldest
\* first.
AllSamplesKept == built.time_series = rows

\* README.md: the CSV file made of it has one row per second per job.
OneRowPerSecond ==
  \A i \in 1 .. Len(built.time_series) - 1 :
     Second(built.time_series[i + 1]) = Second(built.time_series[i]) + 1

\* No run contradicts both documents at once: the state that violates this
\* refutes the one and the other.
SeriesAsDocumented ==
  pc["main"] = "built" => AllSamplesKept \/ OneRowPerSecond
=============================================================================
