# C-FIO: specifications, model checks and proofs

C-FIO is an I/O benchmark: one worker thread per job keeps a queue of reads and
writes full against a test file, a sampling thread reads the workers' counters,
and the main thread runs the clock, stops everybody, writes the results and
cleans up. This directory holds TLA+ modules translated from that code, the TLC
configurations that check them, and proofs checked by TLAPS.

## 1. Inventory

| Component (source) | State | Operations | Interacts with |
|---|---|---|---|
| Worker thread (`telemetry/worker_thread.*`) | queue occupancy, four atomic counters, histogram, `failed_`, message | constructor (opens the engine), `Start`, `Run` with the synchronous and the asynchronous loop, `SubmitOne`, `RecordCompletion`, `RecordFailure`, destructor | engine (calls), pool (calls), run flag (shared), barrier (shared), aggregator (reads its counters) |
| Buffer pool (`telemetry/buffer_pool.*`) | stack of free slots, debug `in_use_` | `Acquire`, `Release` | worker; the engine writes into its memory |
| Engines (`engine/*`) | descriptor, kernel context, requests in flight | `Open`, `SubmitIO`, `PollCompletions`, `Close` | worker, kernel |
| Aggregator (`telemetry/metrics_aggregator.*`) | diff basis, latest snapshot, ring of rows | `Start`, `Run`, `TakeSnapshot`, `Stop`, `TakeFinalSnapshot`, `TimeSeries`, `BuildResults` | workers (reads), orchestrator |
| Orchestrator and `main` (`orchestrator/benchmark_orchestrator.*`, `main.cpp`) | run flag, signal handlers, deadline, workers, aggregator, display, exit code | `Run` and its steps, `OnSignal`, the two scopes, destruction | everything |
| File preparator (`orchestrator/file_preparator.*`) | the created files, whether each existed before | `CreateAndFill`, `Cleanup`, destructor | orchestrator, file system |
| Mailbox, Qt display and window (`display/qt/*`) | latest snapshot, context, results, phase, sequence; the window's history | publications, `OnTick`, Stop/Close button, close event | orchestrator's thread and GUI's thread |
| Offsets, directions, histogram (`telemetry/offset_generator.*`, `io_direction_decider.*`, `log2_histogram.h`) | cursor, generators, 64 buckets | `Next`, `Record`, `Percentile`, `Merge` | worker, aggregator |
| Configuration (`config/*`) | none between calls | parsers, `ConfigValidator`, `SizeParser`, `JobConfig` | `main` |
| File of an engine (`engine/engine_utils.h`) | descriptor, whether it is open without the page cache | `OpenFileWithDirectFallback`, closing | engines |
| Terminal display (`display/terminal_display.*`) | whether the alternate screen is in use, what stays on the normal one | `Init`, `Update`, `ShowSummary`, `Shutdown` | orchestrator |
| Sub plots (`display/qt/qt_graph_widget.*`, `qt_chart_geometry.*`) | series, two axis scales, size | `SetSeries`, resizing, painting | window |
| Exporter (`reporting/results_exporter.*`) | the two output files | `ExportSummary`, `ExportTimeSeries` | orchestrator |
| Logging (`logging/*`) | whether a logger exists | `Init`, `Get`, `Shutdown` | everything |

What makes each of them correct:

- worker: it breaks no precondition of pool and engine, every buffer has one
  owner that outlives the request, a stop drains the queue and ends the thread,
  a failure stops the run and its message is complete when it can be read;
- engines: a request that was accepted is returned once, with its own result,
  within the limits of iocb pool and rings; after `Close` the kernel is done
  with the buffers; an engine says whether its file really is open directly;
- aggregator and histogram: rows partition the requests, the last snapshot is
  exact, a live one lags by a bounded amount and in one direction, percentiles
  belong to the values recorded;
- orchestrator: exit code and results tell what happened, the terminal and the
  user's files are left alone on every path, threads are joined before what they
  use is destroyed, the process ends;
- window: the last results are shown and nothing published is missed at the end;
- sub plots: an axis is round, close to the data and has no text twice, a curve
  stays in its plot and shows every sample;
- configuration and offsets: a job means what its text says in both formats,
  what was validated can be constructed, and every request lies in the file.

What is hard here: the worker's loop at the limits of pool and queue with
refused submissions; a stop that arrives between a test and a submission; the
counters read without a lock; the order in which objects and threads are
destroyed on every path out of `Run`; exceptions in the middle of starting
threads; signals, deadline, Stop button and failures racing; two threads in
`TakeSnapshot`; the window polling a mailbox call by call. `PROJECT.json` lists
each hazard at its line with the properties that cover it.

## 2. Modules

| Module | Models | Kind |
|---|---|---|
| `BufferPool` | the pool's free list and in-use flags | component, used by `WorkerThread` |
| `EngineIO` | the contract of `IEngineIO` | component, `INSTANCE`d by `WorkerThread` |
| `WorkerThread` | a job's thread with its pool and its engine, from constructor to destructor | composition |
| `JobLoop` | what a worker promises its owner: a closed loop that drains | abstract specification, implemented by `WorkerThread` |
| `EngineState`, `LibaioEngine`, `IoUringEngine`, `SyncEngine` | the engines, one module each over the state they share, with the kernel as an external process | components |
| `EngineFile` | an engine's file, opened directly where that works | component, used by `EngineState` |
| `Engines` | one engine of any kind with its caller and the kernel; implements `EngineIO` | composition |
| `MetricsAggregator` | the sampling thread, the workers' counters, the thread that stops it | component |
| `Log2Histogram` | the histograms, recorded into and read at the same time, and the readers in `MetricsAggregator` | component |
| `JobConfig` | both parsers, the sizes' arithmetic, the validator's rules, as operators | pure definitions |
| `OffsetGenerator` | next offsets and directions, as operators | pure definitions |
| `JobSetup` | from a job file to requests: parse, override, validate, fill the files, construct, generate | composition of the two |
| `MCJobSetup` | the job files TLC tries | model-checking module |
| `FilePreparator` | created files and their clean-up | component, used by `BenchmarkOrchestrator` |
| `TerminalDisplay` | the screen of the terminal and what is left on it | component, used by `BenchmarkOrchestrator` |
| `ResultsExporter` | the two output files, known by how much of a run they hold | component, used by `BenchmarkOrchestrator` |
| `BenchmarkOrchestrator` | a whole run: main thread, workers (at the grain of `JobLoop`), the aggregator's thread, signals, display, files, destruction | composition |
| `ChartGeometry` | scales, ticks, labels, points of a chart, as operators | pure definitions |
| `QtGraphWidget` | one sub plot: new rows and resizing in any order, what is painted between | component over `ChartGeometry` |
| `MCGraph` | the rows TLC tries | model-checking module |
| `MCCalculations` | job setup, histogram and chart, one per behaviour | model-checking module |
| `RunMailbox` | the mailbox between run and GUI | component, used by `QtMainWindow` |
| `QtMainWindow` | a run behind the window | composition |
| `MCLiveView` | sampling thread and window, one per behaviour | model-checking module |
| `WorkerThreadProofs` | theorems about the pool and the worker | proofs |
| `EnginesProofs`, `OrchestratorProofs`, `AggregatorProofs`, `HistogramProofs`, `QtMainWindowProofs`, `JobSetupProofs`, `GraphProofs` | theorems about the composition or component each is named after | proofs |

Every module begins with what its state stands for; each action carries the
name of the function it translates or a comment that says which part of it, and
`PROJECT.json` maps each to its lines. Definitions marked "faulty variant"
are plausible slips of the code, kept beside the definitions they corrupt: each
property is known to reject at least one of them (`mutants` in `PROJECT.json`).

### Correspondence

*WorkerThread.* `pc` is the thread's place; one step is one access to state that
another thread also touches, one call of the engine, or the local work in
between. The pre-fill loop is `FillTest`/`Submit*`, the drain loop `LoopTest`,
`Poll`, then per completion `RecordLatency`, `CountIO`, `CountBytes`,
`CountError`, `ReleaseBuffer` and `RefillTest`. The synchronous loop uses the
same `Submit*`, `Poll` and recording steps from `SyncTest`. A completion's
result is chosen when it is polled; offsets and latencies are left out, the
direction is a free choice. `accepted` and `late` are history variables.

*BenchmarkOrchestrator.* `pc` walks through `Run`, the unwinding of its scopes,
and the destruction of the members in reverse order of declaration. The display,
the exporter and the preparator are modules of their own whose operations are
conjuncts of its steps. A worker is
a phase and one bit (requests in flight), with the same guards as in `JobLoop`;
its test of the run flag and its submission are one step here, because the late
request they allow is `WorkerThread`'s subject. Starting a thread and its
arrival at the barrier are one step. `MayFail` says which steps may throw.

*TerminalDisplay*, *ResultsExporter.* What is drawn is a kind (frame, summary)
and only the normal screen is remembered, since leaving the alternate one brings
it back as it was. `half_entered` is a history variable: a first frame threw in
`Init` after `kEnterAlt` was written and before `alt_active_` was set. A file is untouched, partial or complete; a failed export may
have truncated it or not.

*MetricsAggregator.* Time is counted in ticks of 500 ms and passes at any
moment, so a thread may be arbitrarily late. A snapshot is built counter by
counter. A rate is kept as its numerator and its interval. The counters are
read in program order: the code uses relaxed atomics, so `SnapshotLag` (like
`CountersInOrder` in `WorkerThread`) holds where the processor keeps the order
of loads and of read-modify-writes, as x86-64 does.

*QtMainWindow.* Every mailbox call of a tick is a step. A publication is two
steps, since the sequence number is read without the mutex.

*Engines.* A submission, a poll that finds enough completions, and each round of
`Close`'s drain are steps; a failed call is an action of its own. What is not in
`src/` is external: the kernel completes what it was given in any order, with any
transfer up to the length or an error; `io_submit` takes a request or fails,
`io_uring_submit` may also take nothing and leave the entry in the ring;
`io_destroy` waits for the kernel, `io_uring_queue_exit` does not. The caller is
the worker of `WorkerThread`: it submits ids it holds, polls while something is
in flight, and after an exception only closes; a synchronous engine is given one
request at a time (`EffectiveDepth`) and keeps `has_completion_` of its own, so a
second submission before the poll would be the `logic_error` of the code
(`SyncSubmitThrows`), which `LegalSubmitsFit` says no caller meets. Completions of libaio wait in
`events` until they are polled. In `EngineFile` an open for direct I/O may be
answered by a file system that knows none (external), and the file is then open
through the page cache.

*QtGraphWidget.* A row is its elapsed time and its metrics; the window hands over
one more row each time, which may be the last one again, because the final
snapshot is appended where a live row may already be. A double is a whole
multiple of `1/One` and arithmetic is exact. What `paintEvent` draws is defined
over the state, for the properties to speak of it at any moment. A pixel is kept
as a numerator over the span of its scale.

*Log2Histogram.* Each load of a bucket is a step, so a worker may record between
any two of them and between the two passes of `Percentile`. `recorded` and
`before` are history variables that keep the values themselves.

*JobSetup.* A text is a record of its fields, each the set of its values (empty
if missing), and one bit for a field both parsers refuse for its type. Sizes wrap at `SizeBits`
and an offset above half of that is negative, as for `size_t` and `off_t`. An
integer field holds a number and whether that number is `exact`: a float or a
Boolean of a JSON file is not, and the CSV parser refuses it where the JSON library
makes some `int` of it. `direct_effective` is what `Open` granted each worker, which
the header's label is compared with. The
generator's `dist_` is a choice among all numbers it may draw. External: the JSON
library converts any integer to `int` (`ToInt`), `fallocate` refuses a negative
length. Files are absent or empty before the run.

## 3. Runs

| Run | Question | Bounds |
|---|---|---|
| `worker_async` | does the worker keep pool, queue, counters and failure handling right in every order of completions, refusals and stops, does it end, and does it implement `JobLoop`? | iodepth 3, four requests, transfers of up to two units |
| `worker_sync` | the same for the synchronous loop | iodepth 1, four requests |
| `orchestrator` | results, exit code, output files, terminal, test files, threads, the end of the process, when every step may fail | two jobs that may share a file, in the terminal or behind a window with Stop and close, one signal |
| `engines` | does every engine keep the contract `WorkerThread` relies on, whatever the kernel does, is the kernel done with the buffers after `Close`, and is `direct_effective` what the descriptor is? | a queue of three, transfers of up to two units |
| `live_view` | is every worker's request in exactly one row, are rows and their seconds read in order, how far may a snapshot lag, are the final numbers exact, does the window miss or invent anything, do all threads end? | two workers, a ring of two rows, five ticks, two requests in all; three snapshots |
| `calculations` | is a job read as it was written, do validated jobs construct, does every request lie in the file? Do percentiles belong to the values, also those recorded meanwhile, and are the results ordered? Are the axes readable and the curves where they belong? | one or two jobs, sizes of five bits (below); two workers, three latencies in three buckets; two rows out of those of `MCGraph`, two sizes |
| `orchestrator_worker_fails`, `orchestrator_prepare_fails`, `orchestrator_spawn_hangs`, `orchestrator_first_frame`, `aggregator_series`, `job_setup_promises` | a statement of a comment or of `README.md` that the code does not keep (section 6) | as small as the case allows |

`live_view` and `calculations` each run parts of the program that share nothing there:
a behaviour is of one part, chosen at its start, and the others stay at their initial
state. Every state and step of each part is reached as if it were alone. Sampling
thread and window meet in the snapshot that the benchmark's thread hands over, which
both models keep atomic, as its mutex does.

Why the bounds are enough: an iodepth of three distinguishes first, middle and
last request of a batch and a partial refill; four requests wrap the pool. Two
jobs are enough for a first and a last in every loop over jobs, and for sharing
a file. Five ticks hold two periodic rows and a final one, one more than the
ring. One signal is enough: it arrives before, under or after the handlers. A
second one finds the run flag cleared and changes nothing, or finds the default
action and kills the process. Three snapshots let a tick miss one.
Three requests are enough for completions out of order with one still in flight;
the submission ring has four entries for them (`SqEntries`, which liburing rounds
up from the depth).
A histogram of three buckets has a first, a middle and a last one; with four values p50, p75 and p99 have different targets
(the run takes p75 for the code's p95, which a few values cannot tell from p99).
`calculations` scales the machine down and keeps its structure: `size_t` has five
bits, a kilobyte is two bytes, `off_t` ends at 15 and an `int` at 127, so that
overflow of a product, of the cursor, of the pool's size and of an `int`, and a
size above `off_t`, all occur, and every combination of the sizes around those
limits is tried.

For the charts it scales units down: a MiB has eight bytes and a microsecond ten
nanoseconds, `One` is 1000, so that values below, at and above one drawn unit
occur with small numbers; the elapsed times lie around the first changes of
the step, at a minute and past an hour. An axis depends on the rows through
their largest value and their last time only, so two rows reach each combination
and one row later or equal to another.

`MaxIOs`, `MaxSignals`, `MaxTime`, `MaxUpdates`, `MaxRecords`, `MaxRows`, `MaxPower` are bounds of the model, each
named at its declaration. In `WorkerThread` a run that reached `MaxIOs` waits
for the flag to be cleared; in `MetricsAggregator` the clock stops at `MaxTime`.

`orchestrator`, `orchestrator_spawn_hangs` and `orchestrator_first_frame` do not check for deadlock: a run
whose workers an exception stranded really stops (section 6). `RunEndsOrStrands`
says that nothing else keeps a run from ending. `engines` does not either: a
poll or a drain waits for ever for requests that io_uring only buffered
(`io_uring_submit` returned 0 and nothing was submitted later).

Some properties join what belongs together: `RowsAddUp` says of the rows that
they partition the requests and the time (each row's deltas and interval lead
from the totals and the moment of the row before to its own, so that their sums
telescope), are the end of all rows ever recorded and carry seconds that go on; `NothingMissed` of the window that what it counts
as rendered is in its history and that it finishes only after the last
publication; `ResultsOrdered` of the final results that their percentiles are in
order, enclose every value, and lie behind the totals. `KernelOnlyInFlight` does not
claim anything for an io_uring
engine whose drain failed to wait: the code gives up there. `TypeOK` of the
worker is checked (and proved); in the other modules the type invariant documents
the state and is not worth a run of its own.

### Fairness

Threads are scheduled (weak fairness of each thread's steps) and deadlines pass;
in `MetricsAggregator` not even the clock has to go on. A
polled engine returns: `Poll` is a step of the worker, so its fairness says the
device completes what it was given; `engines` says so of the kernel itself, and of the
call in progress, but owes no failure and no further call. In `WorkerThread` the run flag is cleared
eventually, because every run has a deadline. Signals, clicks and the closing of
the window are never owed; `RunEnds` and `RunEndsOrStrands` are therefore
conditional on the window being closed. None of the liveness properties needs strong fairness.

## 4. Proofs

`WorkerThreadProofs` begins with the pool: for every capacity, the free list has each
free slot exactly once and no slot in use (`PoolCorrect`). The invariant is inductive
as it stands once it says that the list has no duplicates.

Of the worker it proves that for every iodepth, block size and `MaxIOs`, `Spec` implies
`TypeOK`, `CallsLegal`, `BuffersOwned`, `BuffersOutliveIO`, `EndsWithRun` and
`MessageStable`. None of the first four is inductive alone: that `Acquire` finds
a slot needs the number of requests in flight to equal the number of live slots,
which needs every buffer to have one owner, which needs the precondition of the
release. The inductive invariant `IInv` conjoins the type invariant, ownership
(`BuffersOwned`), `Window` (`in_flight` counts the live slots and, at a
submission, is below the capacity), `Lifetime` (memory and engine are alive
while the loop runs) and `Places` (what each place of `pc` implies: the slot
being recorded is returned, nothing is returned where the batch is empty, the
run flag and `failed_` where the thread ends). The step of each action is one
lemma per group of actions that changes the same state. Assumed are only
`CapacityAssumption` and `WorkerAssumption`, the positivity of the constants,
which `CheckCapacity` and `ConfigValidator` enforce.

`EndsWithRun` (a worker that has ended leaves the run flag cleared) is proved and
not checked by a run of its own; the other five are checked by `worker_async`.

Its second half is about the worker's books: `Spec` implies `CountersInOrder` and
`DrainedAtEnd`. What is inductive, in the states of `IInv`, is `Ledger`: at each place of
`RecordCompletion` it says exactly how far every counter is (`CountsOrdered`),
that an accepted request is recorded or in flight, and only the one being
recorded is both (`Balance`), and that a loop is left with nothing in flight or
through `RecordFailure` (`Settled`). The bounds on the bytes are the only
arithmetic beyond counting; `Blocks` states the one fact about products they
need, and that a successful completion has its full length comes from the
engine's contract.

It also proves that `Spec` implies `ImplementsJobLoop`, the refinement that
`worker_async` and `worker_sync` check. The window of `JobLoop` is
`accepted - recorded`, which `Balance` equates with `in_flight` outside of
`RecordCompletion`; so `Issue` finds room because `Acquire` does, and `Finish` an
empty window because the loop drained. `OneLate` adds why at most one request
follows the stop: only a worker that read the run flag as set is at a submission.
`JobStep` maps each step: nine actions to actions of `JobLoop`, all others to
stuttering. Every property of the worker is thus proved for all iodepths except
`StopDrains`, which is liveness.

`EnginesProofs`: for every queue depth, set of ids, block size and size of the
submission ring, `KernelOnlyInFlight`, `LegalSubmitsFit`, `DirectAsGranted` and the
refinement `ImplementsEngineIO`. The first is not inductive: reaping an event takes
its request out of `in_flight_`, so no event may be queued twice or be of a request
the kernel still performs (`KernelInv`), and an entry that `io_uring_submit` left in
the ring must be of a request in flight (`RingInv`), which a refused submission
breaks until the engine is closed. That a legal submission finds a free iocb is an
accounting: free iocbs and requests in flight add up to `Depth`, and two requests
never share one (`PoolInv`); a synchronous engine keeps a completion only while a
request is in flight, which its effective depth of one forbids at a submission; what it needs of cardinalities is proved once, over
sequences without duplicates. For the refinement the contract's completions are the
engine's consumed ones; `MovesRequests` and `MovesCall` sort the actions into steps
of the contract and stuttering. Assumed: finitely many ids, a positive depth and
block (`EngineAssumption`), a ring of at least `Depth` entries (`RingAssumption`),
which `io_uring_queue_init` grants.

`OrchestratorProofs`: for any number of jobs and files, any set of steps that may
fail and any number of signals, all seven safety properties that `orchestrator`
checks. Each is about a late place of `Run` and holds for what happened much
earlier, so the invariant ties every place to its past, one part per concern:
`FilesInv` (an entry of `created_` that is to be deleted is of no file that was there
before, also when jobs share a file; the files recorded exist until the clean-up or the
destructor), `ThreadsInv` (which workers and which sampler exist and run at each place
of the normal path and of the unwinding), `LoggerInv`, `TerminalInv` (the alternate screen is in use where `alt_active_` says so or a first
frame threw), `StopInv` (why
the label may say "interrupted") and `ResultsInv` (exit code against output files).
Assumed: `RunAssumption` and `PreparatorAssumption`, which only type the constants.

`AggregatorProofs`: for any finite set of workers and any runtime, so any size of the
ring, `DiffBasisExclusive`, `SnapshotLag`, `DisplayMonotone`, `RowsAddUp` and
`FinalIsExact`. What has to be carried along is the snapshot half taken: which
counters were read so far and how each stands to the worker's now (`ReadInv`), the
diff basis while it moves worker by worker (`BasisInv`), the tick it belongs to
(`TimeInv`), the chain from row to row (`ChainInv`) and where the newest row lies
once the ring has wrapped (`RingInv`). `RowsAddUp` and `FinalIsExact` then follow
from the state alone. `DisplayMonotone` is an action property: only a publication
changes the display, and `SnapshotInv` orders what it publishes. Assumed:
`AggregatorAssumption` (finitely many workers, at least one).

`QtMainWindowProofs`: for any number of snapshots, `ResultsShown` and `NothingMissed`.
A tick reads sequence, snapshot, phase, context and results one after the other while
the run goes on. `TickInv` says what a value read at one step still means at the
next: a sequence read before is not newer than the snapshot copied after, and a phase
read as finished means that all read later is the last. `MailboxInv` supplies the other half, that the
sequence lags only while the publication holds the mutex. Assumed:
`MailboxAssumption` (a bound on the snapshots).

`JobSetupProofs`: for any set of job files in either format and every word size,
`ConfigAsWritten`, `AcceptedJobsConstruct`, `RequestsLegal` and `SequentialSweep`; the
first leaves out JSON numbers and Booleans that are no `int` (section 6). The
invariant carries three facts from where they are established to the requests, which
are far away: sizes were parsed exactly or refused (`ParseInv`, from the lemmas about
`ParseSize` and `Overflows`, among them that a product wraps only when the code's
division says so), the validator's divisibility, and that the file really has the size (`DiskInv`:
preparation refuses a size `off_t` cannot hold, and a later job that shares the file
never shrinks it below an earlier one's). From these no addition of a generator
wraps (`NextSequential`, `RandomOffsets`), and every offset is a multiple of the
block below the size (`RequestInv`). `SequentialSweep` is an action property; its
proof shows that the branch for the end of the file is taken exactly at the last
whole block. Assumed: `ConfigAssumption` (the sizes of the machine's words),
`SetupAssumption` (a job file is a sequence of texts in which a field has at most one
value, an override is an option `main` accepts), and `PowersArePositive`: that a power
of the base of the size suffixes or of two is positive, which the provers, having no
rules for `^`, cannot derive, and which TLC evaluates.

`GraphProofs`: for any set of rows, any power of ten that stands for 1.0, any unit that
divides it and any size of the widget, `AxisReadable` and `PointsInPlot`. The widget's own
invariant is short (it shows the rows it was given last, which are in the order of
time); the argument is in the operators. The largest power of ten with five of it in
the range exists, because a finite set of numbers has a largest one (`FiniteMax`); so
the least of 1, 2, 5 and 10 times it that fills the range with five steps is a round
step, at most half of the range, and no finer round step fills it (`NiceTickStepIs`,
where powers of ten divide each other, `PowersApart`). A scale is then at most five
steps long (`AxisScaleIs`). A step below one drawn unit divides it, so rounding the
end up to whole units never adds one too many (`FineScaleIs`); any other is a number
of units (`CoarseStepIsWhole`). Hence ticks are whole units and their texts differ.
From three seconds on the same holds of the time axis (`TimeScaleIs`). Assumed:
`ChartAssumption` (what 1.0 and the units are), `GraphAssumption` (times and values
are below `LargestRange`, 25 times the largest power of ten considered; a character is at
most 16 by 35 pixels), and `PowersOfTen`, two facts
about `^` that the provers lack and TLC evaluates. `MaxPower` is any number, so that
`LargestRange` excludes nothing the program draws: with its own units, `One` = 10^20
(which 2^20 divides) and `MaxPower` = 38, every 64-bit value has a step. Only the last
clause of `PointsInPlot`, that a widget of the least size has room for the whole plot,
is conditional on the labels themselves (`ShortLabels`: below 10^9 of the drawn unit,
below 100000 minutes), since a longer text takes the plot's place.

`HistogramProofs`: for any number of jobs, of recorded values and of buckets that cover
the latencies, `PercentileBracketed` and `ResultsOrdered`. It has three layers.

1. Sums. `SumFunctionOnSet` is a fold. A fold over a finite set is shown to be the value
   of any function that meets its equations (`FoldsAgree`), by taking a smallest set at
   which two of them differ; from there on sums are split, compared and added by lemmas
   (`SumSplit`, `SumMonotone`, `SumPlus`), and no later proof expands the fold.
2. The arithmetic of the histogram. Buckets are disjoint and gapless, so the counts up to a
   bucket are the number of values up to its bound (`BucketedUpTo`); `Percentile` is the bound of
   the one bucket at which p percent are reached (`PercentileIs`, `QuantileUnique`), and
   what `BuildResults` reports is ordered and encloses the values (`SummaryOrdered`).
3. The interleaving. Neither property is inductive: the first pass keeps only a sum of
   counts read at different moments. `Reading` says that such counts exist, bucket by
   bucket between what was counted when the percentile was asked for and what is counted
   now; the next load takes the place of one of them (`FirstLoad`), and the second pass
   reads no less than they are. Therefore it reaches its target at the latest in the last
   bucket (`LastLoadReaches`), and where it does, the percentile of either moment is
   bracketed (`BracketsHold`). A snapshot begun after the join reads counts that stand
   still (`Final`): both passes then find the percentile itself
   (`SecondPassIsQuantile`). For the total, `Merging` says that what was merged so far
   reaches p percent in a bucket if all its jobs do, and does not if none does
   (`Summarises`), which each bucket's load of `Merge` keeps.

`BuildResults` is proved to repeat what the snapshot showed although it reads everything
again. Assumed: `HistogramAssumption` (what the constants are); `PowersOfTwo`, two facts
about `^` that the provers lack and TLC evaluates; and, as a hypothesis of the theorems,
`FullRange`: as many buckets as a latency has bits, which is so wherever the template is
used (64 of both). With fewer, the last bucket counts values above its own bound, and the results
would not enclose them.

In `OrchestratorProofs` and `EnginesProofs`, too, `TypeCorrect` states the type invariant
that the others rest on.

### What is only model-checked

Liveness: `StopDrains`, `RunEndsOrStrands`, `SamplerEnds`, `EngineReturns`, `WindowLearns`,
and `RunEnds`, which a run refutes; it needs `ENABLED`, which is outside the prover's reach. Every invariant,
action property and refinement that a passing run checks is stated by a theorem.
`RowsAddUp` states that the deltas telescope from row to row rather than a sum over all
rows; the one sum left in `MetricsAggregator`, the bound `MaxIOs` in a guard, is not used
by the proofs, and neither are the upper bounds `MaxTime` and `MaxIOs` of its type
invariant, which are the model's and not the code's.

## 5. Not modelled

The syntax of configuration files and options; wording and layout of both views
(the progress bar, the job table, legends, pens, colours, where a text is
drawn); the fields of the JSON and CSV files, of which only the seconds and
whether they are complete are modelled; the sinks of the logger; the contents of
files; how a double rounds (`kTickEpsilon`) and values that are not finite.
Latencies are values of `Log2Histogram` only. Running out of memory is
modelled only where the code handles it. Relaxed memory is not modelled (see
above). A block larger
than an unsigned int is refused by io_uring only at the first submission, which
is a refused submission of `WorkerThread`. The percentiles of a live row are read
one after the other and may be out of order among themselves; `ResultsOrdered`
speaks of the final results. `i_spdk_engine.h` declares an engine nothing
implements. `PROJECT.json` lists every component with its reason.

## 6. Where code and documentation differ

1. `orchestrator_worker_fails`: `main` shuts the logger down before the
   orchestrator is destroyed. A worker that failed with requests in flight
   closes its engine in a destructor, which logs, which throws: the process
   terminates instead of returning `EXIT_FAILURE`. The Qt path has the order
   right (`orchestrator` checks `WindowRunEndsCleanly`).
2. `orchestrator_spawn_hangs`: a thread that cannot be started leaves earlier
   workers at a barrier that is about to be destroyed; the process never ends.
3. `orchestrator_prepare_fails`: a file whose filling fails stays on disk.
4. `orchestrator_first_frame`: `TerminalDisplay::Init` writes `kEnterAlt`, renders
   the first frame and only then sets `alt_active_`. A frame that throws leaves the
   alternate screen active, for `Shutdown` finds the flag cleared, where
   `i_display.h:35` says "Release resources and restore terminal state".
   `TerminalRestored`, which `orchestrator` checks and a theorem states for every
   path, excepts exactly that throw (`half_entered`).
5. `aggregator_series`: `MetricsAggregator` keeps one row per second of `--runtime`.
   When the workers' draining takes half a second or more after the last periodic row,
   the final row overwrites the oldest, where `metrics_aggregator.h:54` documents "All
   samples collected so far, oldest first" (`AllSamplesKept`). `RowsAddUp` claims what
   remains: the series is the end of the rows, in order.
6. `aggregator_series`: a late tick rounds to another second, so the CSV file may repeat
   a second or leave one out, where `README.md:177` says "One row per second per job"
   (`OneRowPerSecond`). `RowsAddUp` claims that seconds go on after a row in time.
7. `job_setup_promises`: a JSON integer field accepts any number or Boolean (2.9
   becomes 2, `true` becomes 1, 4294967297 becomes 1), where `i_config_parser.h:30`
   documents `std::invalid_argument` on invalid field values and the CSV parser refuses
   them (`InvalidIntegersRefused`).
8. `job_setup_promises`: the header says "ON" from what the configuration asks for
   (`display_context_build.cpp:32`), where `display_context.h:15` and
   `display_context_build.h:24` say "whether O_DIRECT is active" (`LabelIsActive`);
   after a fallback only `direct_effective_` knows.

`aggregator_series` and `job_setup_promises` each check that two documented promises are
not broken together. The counterexample is one run that breaks both, so it refutes each.

Seen on the way, without a run, since no document speaks of it:

- The time axis is scaled without the correction the vertical one gets, so in
  the first two seconds its labels repeat; `AxisReadable` claims distinct texts
  there from three seconds on.
- A signal before `benchmark_orchestrator.cpp:217` kills the process with the
  alternate screen in use.

## 7. Plan

The order followed so far: worker with pool and engine contract; orchestrator;
aggregator; window; concrete engines; histogram; the job's setup; the file of an
engine; terminal, exporter and preparator within the orchestrator; the charts.
What is left to model is wording, layout and memory exhaustion.

No safety property is left to prove. A proof of liveness would have to be by hand. A
further refinement worth having is that of the orchestrator's workers by `JobLoop`, which
needs the late request of `JobLoop` in `BenchmarkOrchestrator` (section 2).
