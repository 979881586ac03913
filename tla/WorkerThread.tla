---------------------------- MODULE WorkerThread ----------------------------
(***************************************************************************)
(* cfio::WorkerThread (telemetry/worker_thread.{h,cpp}): one job's thread, *)
(* its buffer pool and the engine it owns, from its construction to its    *)
(* destruction.                                                            *)
(*                                                                         *)
(* A step is one access to state another thread also touches (the run      *)
(* flag, one of the counters the aggregator reads, the failure flag), one  *)
(* call on the engine, or the thread-local work between two of those.      *)
(* An effective iodepth of 1 selects the synchronous loop, a larger one    *)
(* the asynchronous loop; Capacity is the effective iodepth.               *)
(*                                                                         *)
(* The environment is the rest of the program: it releases the start       *)
(* barrier, clears the run flag at any moment (deadline, signal, display,  *)
(* failure of another worker), and destroys the worker after joining it.   *)
(***************************************************************************)
EXTENDS BufferPool, FiniteSets

CONSTANTS BlockSize,    \* config_.block_size, in units of a partial transfer
          MaxIOs        \* bound: the run flag reads TRUE only below it

ASSUME WorkerAssumption == /\ BlockSize \in Nat \ {0}
                           /\ MaxIOs \in Nat

VARIABLES
  g_running,            \* std::atomic<bool>, shared by all workers
  pc,                   \* where the worker is
  is_open, outstanding, completions,    \* the engine (module EngineIO)
  in_flight,            \* requests submitted and not recorded
  cur,                  \* slot of the completion being recorded
  recorded,             \* samples in histogram_
  iops,                 \* iops_count_
  bytes,                \* bytes_transferred_
  read_errors, write_errors,            \* the error counters
  failed, error_message,                \* failed_, error_message_
  storage,              \* the buffers of the pool are allocated
  accepted,             \* history: submissions the engine accepted
  late                  \* history: those accepted with g_running cleared

engineVars == <<is_open, outstanding, completions>>
counters == <<recorded, iops, bytes, read_errors, write_errors>>
failure == <<failed, error_message>>
history == <<accepted, late>>
vars == <<poolVars, g_running, pc, engineVars, in_flight, cur, counters,
          failure, storage, history>>

Engine == INSTANCE EngineIO WITH Ids <- Slots, Depth <- Capacity

Outstanding == Engine!Outstanding
Returned == Engine!Returned
Live == Outstanding \cup Returned

Synchronous == Capacity = 1

SubmitSites == {"fill_submit", "sync_submit", "refill_submit"}

PCs == {"ctor", "barrier", "fill_test", "loop_test", "sync_test", "poll",
        "each", "count_io", "count_bytes", "count_error", "release",
        "refill_test", "catch", "set_failed", "clear_running", "done",
        "engine_closed", "destroyed", "unopened"} \cup SubmitSites

\* The pool is allocated before the constructor opens the engine.
Init == /\ PoolInit
        /\ Engine!EngineInit
        /\ g_running = TRUE
        /\ pc = "ctor"
        /\ in_flight = 0
        /\ cur = 0
        /\ recorded = 0 /\ iops = 0 /\ bytes = 0
        /\ read_errors = 0 /\ write_errors = 0
        /\ failed = FALSE /\ error_message = ""
        /\ storage = TRUE
        /\ accepted = 0 /\ late = 0

-----------------------------------------------------------------------------
\* Faulty variants of the actions below, each a plausible slip: the
\* properties at the end of the module are known to reject them.

\* pre-fill loop with <= for <
FillTestOffByOne ==
  /\ pc = "fill_test"
  /\ g_running => accepted < MaxIOs
  /\ pc' = IF in_flight <= Capacity /\ g_running THEN "fill_submit"
                                                 ELSE "loop_test"
  /\ UNCHANGED <<poolVars, g_running, engineVars, in_flight, cur, counters,
                 failure, storage, history>>

\* the drain loop forgets the requests in flight
LoopTestNoDrain ==
  /\ pc = "loop_test"
  /\ pc' = IF g_running THEN "poll" ELSE "done"
  /\ UNCHANGED <<poolVars, g_running, engineVars, in_flight, cur, counters,
                 failure, storage, history>>

\* a refill that does not look at the run flag
RefillAlways ==
  /\ pc = "refill_test"
  /\ pc' = IF accepted < MaxIOs THEN "refill_submit" ELSE "each"
  /\ UNCHANGED <<poolVars, g_running, engineVars, in_flight, cur, counters,
                 failure, storage, history>>

\* g_running.load() hoisted out of the synchronous loop: read once, before it
SyncTestHoisted ==
  /\ pc = "sync_test"
  /\ pc' = IF g_running \/ accepted > 0 THEN "sync_submit" ELSE "done"
  /\ UNCHANGED <<poolVars, g_running, engineVars, in_flight, cur, counters,
                 failure, storage, history>>

\* the catch of SubmitOne without its Release
SubmitRefusedLeaks ==
  /\ pc \in SubmitSites
  /\ Acquire(Top)
  /\ pc' = "catch"
  /\ UNCHANGED <<g_running, engineVars, in_flight, cur, counters, failure,
                 storage, history>>

\* the error path of RecordCompletion taken before the counts
CountIOShortcut ==
  /\ pc = "count_io"
  /\ iops' = iops + 1
  /\ pc' = IF completions[cur].success THEN "count_bytes" ELSE "release"
  /\ UNCHANGED <<poolVars, g_running, engineVars, in_flight, cur, recorded,
                 bytes, read_errors, write_errors, failure, storage, history>>

\* --in_flight forgotten
ReleaseUncounted ==
  /\ pc = "release"
  /\ Release(cur)
  /\ Engine!Consume(cur)
  /\ pc' = IF Synchronous THEN "each" ELSE "refill_test"
  /\ UNCHANGED <<g_running, in_flight, cur, counters, failure, storage,
                 history>>

\* failed_ set before the message is written
StoreMessageAfterFlag ==
  /\ pc = "catch"
  /\ IF failed
       THEN error_message' \in {"", "what"} /\ pc' = "set_failed" /\ UNCHANGED failed
       ELSE failed' = TRUE /\ UNCHANGED <<pc, error_message>>
  /\ UNCHANGED <<poolVars, g_running, engineVars, in_flight, cur, counters,
                 storage, history>>

\* engine_ declared before buffer_pool_: the buffers go first
BuffersFirst ==
  /\ pc = "done"
  /\ storage' = FALSE
  /\ pc' = "engine_closed"
  /\ UNCHANGED <<poolVars, g_running, engineVars, in_flight, cur, counters,
                 failure, history>>

-----------------------------------------------------------------------------
\* Constructor and destructor, run by the orchestrator's thread.

\* A constructor that throws leaves no worker behind: the buffers go with it.
Construct ==
  /\ pc = "ctor"
  /\ \/ /\ Engine!Open
        /\ pc' = "barrier"
        /\ UNCHANGED storage
     \/ /\ pc' = "unopened"
        /\ storage' = FALSE
        /\ UNCHANGED engineVars
  /\ UNCHANGED <<poolVars, g_running, in_flight, cur, counters, failure,
                 history>>

\* Members are destroyed in reverse order of declaration: the thread is
\* joined, then the engine is closed, then the buffers are freed.
CloseEngine ==
  /\ pc = "done"
  /\ Engine!Close
  /\ pc' = "engine_closed"
  /\ UNCHANGED <<poolVars, g_running, in_flight, cur, counters, failure,
                 storage, history>>

FreeBuffers ==
  /\ pc = "engine_closed"
  /\ storage' = FALSE
  /\ pc' = "destroyed"
  /\ UNCHANGED <<poolVars, g_running, engineVars, in_flight, cur, counters,
                 failure, history>>

-----------------------------------------------------------------------------
\* Run: the barrier, then one of the two loops.

PassBarrier ==
  /\ pc = "barrier"
  /\ pc' = IF Synchronous THEN "sync_test" ELSE "fill_test"
  /\ UNCHANGED <<poolVars, g_running, engineVars, in_flight, cur, counters,
                 failure, storage, history>>

\* g_running.load(): the worker goes to `yes` or to `no`.  A run that has
\* accepted MaxIOs requests waits for the flag to be cleared (the bound).
TestRunning(yes, no) ==
  /\ g_running => accepted < MaxIOs
  /\ pc' = IF g_running THEN yes ELSE no

\* RunAsyncLoop, the pre-fill: i is in_flight.
FillTest ==
  /\ pc = "fill_test"
  /\ IF in_flight < Capacity THEN TestRunning("fill_submit", "loop_test")
                             ELSE pc' = "loop_test"
  /\ UNCHANGED <<poolVars, g_running, engineVars, in_flight, cur, counters,
                 failure, storage, history>>

\* RunAsyncLoop, the drain loop ends only with nothing in flight.
LoopTest ==
  /\ pc = "loop_test"
  /\ pc' = IF g_running \/ in_flight > 0 THEN "poll" ELSE "done"
  /\ UNCHANGED <<poolVars, g_running, engineVars, in_flight, cur, counters,
                 failure, storage, history>>

RefillTest ==
  /\ pc = "refill_test"
  /\ TestRunning("refill_submit", "each")
  /\ UNCHANGED <<poolVars, g_running, engineVars, in_flight, cur, counters,
                 failure, storage, history>>

SyncTest ==
  /\ pc = "sync_test"
  /\ TestRunning("sync_submit", "done")
  /\ UNCHANGED <<poolVars, g_running, engineVars, in_flight, cur, counters,
                 failure, storage, history>>

AfterSubmit == [fill_submit |-> "fill_test", refill_submit |-> "each",
                sync_submit |-> "poll"]

\* SubmitOne: take a slot, hand the request to the engine.
SubmitAccepted ==
  /\ pc \in SubmitSites
  /\ \E slot \in Slots, direction \in Engine!Directions :
        Acquire(slot) /\ Engine!SubmitIO(slot, direction)
  /\ in_flight' = in_flight + 1
  /\ accepted' = accepted + 1
  /\ late' = IF g_running THEN late ELSE late + 1
  /\ pc' = AfterSubmit[pc]
  /\ UNCHANGED <<g_running, cur, counters, failure, storage>>

\* The engine throws system_error: the slot goes back on top of the stack it
\* was just popped from, and the exception ends the loop.
SubmitRefused ==
  /\ pc \in SubmitSites
  /\ AcquireOK
  /\ pc' = "catch"
  /\ UNCHANGED <<poolVars, g_running, engineVars, in_flight, cur, counters,
                 failure, storage, history>>

\* With nothing outstanding the call waits for nothing and returns nothing.
Poll ==
  /\ pc = "poll"
  /\ IF Outstanding = {}
       THEN UNCHANGED engineVars
       ELSE \E ids \in SUBSET Outstanding : Engine!PollCompletions(ids)
  /\ pc' = "each"
  /\ UNCHANGED <<poolVars, g_running, in_flight, cur, counters, failure,
                 storage, history>>

PollThrows ==
  /\ pc = "poll"
  /\ Outstanding # {}
  /\ pc' = "catch"
  /\ UNCHANGED <<poolVars, g_running, engineVars, in_flight, cur, counters,
                 failure, storage, history>>

\* The loop over the completions of one poll ends.
EndOfBatch ==
  /\ pc = "each"
  /\ Returned = {}
  /\ pc' = IF Synchronous THEN "sync_test" ELSE "loop_test"
  /\ UNCHANGED <<poolVars, g_running, engineVars, in_flight, cur, counters,
                 failure, storage, history>>

-----------------------------------------------------------------------------
\* RecordCompletion, one atomic update at a time.

RecordLatency ==
  /\ pc = "each"
  /\ cur' \in Returned
  /\ recorded' = recorded + 1
  /\ pc' = "count_io"
  /\ UNCHANGED <<poolVars, g_running, engineVars, in_flight, iops, bytes,
                 read_errors, write_errors, failure, storage, history>>

CountIO ==
  /\ pc = "count_io"
  /\ iops' = iops + 1
  /\ pc' = "count_bytes"
  /\ UNCHANGED <<poolVars, g_running, engineVars, in_flight, cur, recorded,
                 bytes, read_errors, write_errors, failure, storage, history>>

CountBytes ==
  /\ pc = "count_bytes"
  /\ bytes' = bytes + completions[cur].bytes
  /\ pc' = IF completions[cur].success THEN "release" ELSE "count_error"
  /\ UNCHANGED <<poolVars, g_running, engineVars, in_flight, cur, recorded,
                 iops, read_errors, write_errors, failure, storage, history>>

CountError ==
  /\ pc = "count_error"
  /\ IF completions[cur].direction = "read"
       THEN read_errors' = read_errors + 1 /\ UNCHANGED write_errors
       ELSE write_errors' = write_errors + 1 /\ UNCHANGED read_errors
  /\ pc' = "release"
  /\ UNCHANGED <<poolVars, g_running, engineVars, in_flight, cur, recorded,
                 iops, bytes, failure, storage, history>>

\* The release, and the --in_flight of the asynchronous loop (in the
\* synchronous loop, which has no such counter, in_flight is a history
\* variable).
ReleaseBuffer ==
  /\ pc = "release"
  /\ Release(cur)
  /\ Engine!Consume(cur)
  /\ in_flight' = in_flight - 1
  /\ pc' = IF Synchronous THEN "each" ELSE "refill_test"
  /\ UNCHANGED <<g_running, cur, counters, failure, storage, history>>

-----------------------------------------------------------------------------
\* RecordFailure: message, then flag (release), then the run flag.

\* The copy of the message may run out of memory; it is then left empty.
StoreMessage ==
  /\ pc = "catch"
  /\ error_message' \in {"", "what"}
  /\ pc' = "set_failed"
  /\ UNCHANGED <<poolVars, g_running, engineVars, in_flight, cur, counters,
                 failed, storage, history>>

SetFailed ==
  /\ pc = "set_failed"
  /\ failed' = TRUE
  /\ pc' = "clear_running"
  /\ UNCHANGED <<poolVars, g_running, engineVars, in_flight, cur, counters,
                 error_message, storage, history>>

ClearRunning ==
  /\ pc = "clear_running"
  /\ g_running' = FALSE
  /\ pc' = "done"
  /\ UNCHANGED <<poolVars, engineVars, in_flight, cur, counters, failure,
                 storage, history>>

-----------------------------------------------------------------------------
\* The main thread or another worker clears the run flag, which is set before
\* the first worker is started.
StopRun ==
  /\ g_running
  /\ pc \notin {"ctor", "unopened"}
  /\ g_running' = FALSE
  /\ UNCHANGED <<poolVars, pc, engineVars, in_flight, cur, counters, failure,
                 storage, history>>

Worker == \/ PassBarrier
          \/ FillTest \/ LoopTest \/ RefillTest \/ SyncTest
          \/ SubmitAccepted \/ SubmitRefused
          \/ Poll \/ PollThrows \/ EndOfBatch
          \/ RecordLatency \/ CountIO \/ CountBytes \/ CountError
          \/ ReleaseBuffer
          \/ StoreMessage \/ SetFailed \/ ClearRunning

Owner == Construct \/ CloseEngine \/ FreeBuffers

\* The worker no longer exists: nothing is left to happen.
Terminated == pc \in {"destroyed", "unopened"} /\ UNCHANGED vars

Next == Worker \/ Owner \/ StopRun \/ Terminated

\* The thread is scheduled, the owner joins and destroys, a run has a
\* deadline, and the device completes what it was given (Poll is a step of
\* the worker that its fairness includes).
Fairness == WF_vars(Worker) /\ WF_vars(Owner) /\ WF_vars(StopRun)

Spec == Init /\ [][Next]_vars
FairSpec == Spec /\ Fairness

-----------------------------------------------------------------------------
\* Properties.

\* The worker has left its loop; it may have been joined and destroyed.
Ended == pc \in {"done", "engine_closed", "destroyed"}

\* A loop is being run: between the barrier and the end of the thread.
Recording == pc \in {"count_io", "count_bytes", "count_error", "release"}

TypeOK == /\ PoolTypeOK
          /\ Engine!EngineTypeOK
          /\ g_running \in BOOLEAN
          /\ pc \in PCs
          /\ in_flight \in 0 .. Capacity
          /\ cur \in Slots
          /\ recorded \in Nat /\ iops \in Nat /\ bytes \in Nat
          /\ read_errors \in Nat /\ write_errors \in Nat
          /\ failed \in BOOLEAN /\ error_message \in {"", "what"}
          /\ storage \in BOOLEAN
          /\ accepted \in Nat /\ late \in Nat

\* No assert and no logic_error: whenever the worker reaches a call, the
\* callee's precondition holds.  Acquire finds a free slot (buffer_pool.cpp
\* asserts it), the engine is open, has room and does not know the id,
\* Release is given a slot in use, and a blocking poll has something to wait
\* for (with nothing outstanding io_uring would wait for ever).
CallsLegal ==
  /\ pc \in SubmitSites => AcquireOK /\ Engine!SubmitOK(Top)
  /\ pc = "poll" => is_open /\ Outstanding # {}
  /\ pc = "release" => ReleaseOK(cur)

\* A buffer belongs to exactly one of: the free list, the engine (which may
\* write into it), the batch of completions still to be recorded.  A refused
\* submission leaks no slot, and no slot is handed out while in use.
BuffersOwned ==
  /\ PoolConsistent
  /\ Outstanding \cap Returned = {}
  /\ is_open => \A s \in Slots : in_use[s] <=> s \in Live

\* The memory of the pool outlives every I/O the engine still has in flight,
\* also after a worker failed with a full queue.
BuffersOutliveIO == Outstanding # {} => storage /\ is_open

\* A worker that ends without a failure has drained its queue: every request
\* the engine accepted is in the histogram and in every counter, and the pool
\* is full again.
DrainedAtEnd ==
  Ended /\ ~failed =>
    /\ Live = {}
    /\ recorded = accepted /\ iops = accepted
    /\ bytes + BlockSize * (read_errors + write_errors) >= BlockSize * accepted
    /\ Len(free_slots) = Capacity

\* The order of the updates of RecordCompletion, which the aggregator's thread
\* relies on when it reads the counters one by one without a lock: at any
\* moment the histogram is at most one sample ahead of the count, an error is
\* never visible before its request was counted, and at most one counted
\* request has not yet contributed its bytes or its error.
CountersInOrder ==
  /\ recorded \in {iops, iops + 1}
  /\ read_errors + write_errors <= iops
  /\ bytes <= BlockSize * iops
  /\ bytes + BlockSize * (read_errors + write_errors + 1) >= BlockSize * iops

\* No worker ends alone: one that failed has cleared the run flag before its
\* thread ends, so the others drain and end too.
EndsWithRun == Ended => ~g_running

\* ErrorMessage() may be read by another thread as soon as failed_ is set: the
\* message does not change afterwards.
MessageStable == [][failed => UNCHANGED error_message]_vars

\* Once the run flag is cleared the worker ends, whatever it was doing, and
\* is destroyed with its engine closed.
StopDrains == ~g_running ~> pc = "destroyed"

\* The worker implements the closed loop its owner relies on (module JobLoop):
\* the window never exceeds the queue depth, at most one request is issued
\* after the stop, and only an empty window ends a loop that did not fail.
JobPhase == IF pc \in {"ctor", "barrier", "unopened"} THEN "waiting"
            ELSE IF Ended THEN "finished"
            ELSE IF pc \in {"catch", "set_failed", "clear_running"} THEN "failed"
            ELSE "issuing"

Job == INSTANCE JobLoop WITH Depth <- Capacity, running <- g_running,
                             window <- accepted - recorded, phase <- JobPhase
ImplementsJobLoop == Job!Spec
=============================================================================
