------------------------ MODULE BenchmarkOrchestrator ------------------------
(***************************************************************************)
(* The life of one run: main.cpp and cfio::BenchmarkOrchestrator, with the *)
(* worker threads, the aggregator's thread, signals, the display and the   *)
(* files seen from the thread that runs Run().                             *)
(*                                                                         *)
(* A worker is the machine of module JobLoop with a window of one bit: it  *)
(* has requests in flight or it has none.  The aggregator is its thread's  *)
(* life.  The user interface is the terminal, where main runs Run() itself *)
(* and shuts the logger down before the orchestrator is destroyed, or qt,  *)
(* where a second thread runs Run(), the window may ask to stop, and the   *)
(* orchestrator is destroyed first.                                        *)
(*                                                                         *)
(* What may fail in a run is the constant MayFail.                         *)
(***************************************************************************)
EXTENDS FilePreparator, TerminalDisplay, ResultsExporter, FiniteSets

CONSTANTS N,            \* number of jobs
          UIs,          \* the user interfaces considered: "terminal", "qt"
          MayFail,      \* the steps that may throw, and "worker"
          MaxSignals    \* bound: signals the process receives

Faults == {"setup", "logging", "prepare", "create", "display", "first_frame",
           "aggregator", "spawn", "update", "export", "worker"}

ASSUME RunAssumption == /\ N \in Nat \ {0}
                        /\ UIs \subseteq {"terminal", "qt"}
                        /\ MayFail \subseteq Faults
                        /\ MaxSignals \in Nat

Jobs == 1 .. N

VARIABLES
  pc,                   \* where the thread in main/Run is
  k,                    \* index of the loop over jobs at that point
  thrown,               \* an exception is propagating to Run()'s catch
  rc,                   \* exit code
  ui,                   \* the user interface chosen on the command line
  file_of,              \* filename of each job
  disk_before,          \* history: the files that existed before the run
  logger,               \* Logger::logger_ is set
  logging_ready,        \* logging_ready_
  g_running,            \* g_running_
  phase,                \* per job: its worker
  in_flight,            \* per job: requests are in flight in its engine
  failed,               \* per job: Failed()
  any_worker_failed,    \* any_worker_failed_
  aggregator,           \* the aggregator's thread
  agg_stop,             \* its stop_token has a stop request
  barrier,              \* start_barrier: "none", "alive" or "gone"
  handlers,             \* SIGINT/SIGTERM: "default" or "ours"
  signals,              \* signals received
  stop_requested,       \* display_->StopRequested()
  window_open,          \* the qt window is open
  deadline,             \* the steady clock has passed the deadline
  interrupted,          \* the local `interrupted`
  results               \* the local `results`: none, or one that is built

\* The variables by the part of the run that writes them.
loggingVars == <<logger, logging_ready>>
workerVars == <<phase, in_flight, failed>>
aggregatorVars == <<aggregator, agg_stop>>
scopeVars == <<barrier, handlers>>
outcomeVars == <<interrupted, results, any_worker_failed>>
runVars == <<g_running, workerVars, aggregatorVars, scopeVars, termVars,
             outcomeVars>>
stopVars == <<signals, stop_requested, window_open, deadline>>
givenVars == <<ui, file_of, disk_before, stopVars>>
fileVars == <<prepVars, output>>
vars == <<pc, k, thrown, rc, givenVars, loggingVars, fileVars, runVars>>

\* What a step of RunBenchmark leaves alone.
aroundRun == <<rc, givenVars, loggingVars, fileVars>>

Phases == {"none", "ready", "waiting", "issuing", "failing", "finished",
           "destroyed"}

PCs == {"setup", "logging", "prepare", "create", "display", "aggregator",
        "signals", "spawn", "loop_test", "sleep", "update", "decide", "stop",
        "join", "collect", "join_aggregator", "leave_run", "leave_display",
        "export", "export_csv", "cleanup", "catch", "returned",
        "destroy_aggregator", "destroy_workers", "destroy_files", "exited",
        "killed", "terminated"}

TypeOK ==
  /\ PrepTypeOK /\ TermTypeOK /\ ExportTypeOK
  /\ pc \in PCs /\ k \in Jobs /\ thrown \in BOOLEAN
  /\ rc \in {"none", "success", "failure"}
  /\ ui \in UIs /\ file_of \in [Jobs -> Files] /\ disk_before \subseteq Files
  /\ logger \in BOOLEAN /\ logging_ready \in BOOLEAN
  /\ g_running \in BOOLEAN
  /\ phase \in [Jobs -> Phases]
  /\ in_flight \in [Jobs -> BOOLEAN] /\ failed \in [Jobs -> BOOLEAN]
  /\ any_worker_failed \in BOOLEAN
  /\ aggregator \in {"none", "running", "ended", "joined"}
  /\ agg_stop \in BOOLEAN
  /\ barrier \in {"none", "alive", "gone"} /\ handlers \in {"default", "ours"}
  /\ signals \in 0 .. MaxSignals
  /\ stop_requested \in BOOLEAN /\ window_open \in BOOLEAN
  /\ deadline \in BOOLEAN /\ interrupted \in BOOLEAN
  /\ results \subseteq [interrupted : BOOLEAN, failed : SUBSET Jobs]

\* main has parsed the command line and the config and initialised its own
\* log; the orchestrator has just been constructed.
Init ==
  /\ PrepInit /\ TermInit /\ ExportInit
  /\ pc = "setup" /\ k = 1 /\ thrown = FALSE /\ rc = "none"
  /\ ui \in UIs /\ (ui = "qt" => ~ansi)
  /\ file_of \in [Jobs -> Files] /\ disk_before = disk
  /\ logger = TRUE /\ logging_ready = FALSE
  /\ g_running = TRUE
  /\ phase = [j \in Jobs |-> "none"]
  /\ in_flight = [j \in Jobs |-> FALSE]
  /\ failed = [j \in Jobs |-> FALSE]
  /\ any_worker_failed = FALSE
  /\ aggregator = "none" /\ agg_stop = FALSE
  /\ barrier = "none" /\ handlers = "default" /\ signals = 0
  /\ stop_requested = FALSE /\ window_open = (ui = "qt")
  /\ deadline = FALSE
  /\ interrupted = FALSE /\ results = {}

\* The process is alive: its threads run and signals reach it.
Alive == pc \notin {"exited", "killed", "terminated"}

Fails(step) == step \in MayFail

\* The calls of display_ that reach the terminal; behind a window they do
\* what module QtMainWindow says.
OnTerminal(call) == IF ui = "terminal" THEN call ELSE UNCHANGED termVars

\* A loop over the jobs, at `place`, goes on to the next or to `after`.
NextJob(place, after) == IF k < N THEN k' = k + 1 /\ pc' = place
                                  ELSE k' = 1 /\ pc' = after

-----------------------------------------------------------------------------
\* A signal or the UI asked to stop, or a worker failed.
ShouldStop == ~g_running \/ stop_requested

\* Faulty variants of definitions below, each a plausible slip: the properties
\* at the end of the module are known to reject them.

\* only the first worker is joined
JoinFirstWorker ==
  /\ pc = "join" /\ phase[1] = "finished"
  /\ k' = 1 /\ pc' = "collect"
  /\ UNCHANGED <<aroundRun, thrown, runVars>>

\* only the worker of the last job is asked whether it failed
LastFailed == failed[N]

\* the loop leaves the run flag alone when the deadline ends it
StopWorkersMissing ==
  /\ pc = "stop"
  /\ pc' = "join"
  /\ UNCHANGED <<aroundRun, k, thrown, runVars>>

\* the aggregator is a detached thread: nobody waits for it
DestroyAggregatorDetached ==
  /\ pc = "destroy_aggregator"
  /\ k' = 1 /\ pc' = "destroy_workers"
  /\ UNCHANGED <<aroundRun, thrown, runVars>>

\* main shuts the logger down in both modes
AfterRunShutdown ==
  /\ pc = "returned" /\ ~window_open
  /\ logger' = FALSE
  /\ agg_stop' = TRUE
  /\ pc' = "destroy_aggregator"
  /\ UNCHANGED <<k, thrown, rc, givenVars, logging_ready, fileVars, g_running,
                 workerVars, aggregator, scopeVars, termVars, outcomeVars>>

-----------------------------------------------------------------------------
\* Setup.  Each step either goes on or throws; an exception before
\* RunBenchmark's scopes goes straight to the catch of Run().
Throw(from) == /\ Fails(from)
               /\ thrown' = TRUE
               /\ pc' = "catch"

SetupOutputDirectory ==
  /\ pc = "setup"
  /\ \/ pc' = "logging" /\ UNCHANGED thrown
     \/ Throw("setup")
  /\ UNCHANGED <<k, rc, givenVars, loggingVars, fileVars, runVars>>

\* InitLogging closes main's log before it opens the run's own.
InitLogging ==
  /\ pc = "logging"
  /\ \/ /\ logger' = TRUE /\ logging_ready' = TRUE
        /\ pc' = "prepare" /\ UNCHANGED thrown
     \/ /\ Throw("logging")
        /\ logger' = FALSE /\ UNCHANGED logging_ready
  /\ UNCHANGED <<k, rc, givenVars, fileVars, runVars>>

\* PrecreateFiles: one job's file after the other.
PrecreateFile ==
  /\ pc = "prepare"
  /\ \/ FillSucceeds(file_of[k]) /\ NextJob("prepare", "create")
        /\ UNCHANGED thrown
     \/ Throw("prepare") /\ (OpenFails \/ FillFails(file_of[k]))
        /\ UNCHANGED k
  /\ UNCHANGED <<rc, givenVars, loggingVars, output, runVars>>

\* CreateWorkers: the engine, the buffers, the open of the file.  A worker
\* whose constructor throws is not added.
CreateWorker ==
  /\ pc = "create"
  /\ \/ /\ phase' = [phase EXCEPT ![k] = "ready"]
        /\ NextJob("create", "display") /\ UNCHANGED thrown
     \/ Throw("create") /\ UNCHANGED <<phase, k>>
  /\ UNCHANGED <<aroundRun, g_running, in_flight, failed, aggregatorVars,
                 scopeVars, termVars, outcomeVars>>

-----------------------------------------------------------------------------
\* RunBenchmark.  From the display on, an exception unwinds the scopes.
Unwind(from) == /\ Fails(from)
                /\ thrown' = TRUE
                /\ pc' = "leave_run"

\* DisplayFactory::Create, which may throw, the display's scope, Init, which
\* may throw inside that scope.
InitDisplay ==
  /\ pc = "display"
  /\ \/ /\ OnTerminal(EnterLiveView)
        /\ pc' = "aggregator" /\ UNCHANGED thrown
     \/ Throw("display") /\ UNCHANGED termVars
     \/ Unwind("first_frame") /\ ui = "terminal" /\ FirstFrameThrows
  /\ UNCHANGED <<aroundRun, k, g_running, workerVars, aggregatorVars,
                 scopeVars, outcomeVars>>

StartAggregator ==
  /\ pc = "aggregator"
  /\ \/ /\ aggregator' = "running"
        /\ pc' = "signals" /\ UNCHANGED thrown
     \/ Unwind("aggregator") /\ UNCHANGED aggregator
  /\ UNCHANGED <<aroundRun, k, g_running, workerVars, agg_stop, scopeVars,
                 termVars, outcomeVars>>

\* SignalScope, then the barrier.
InstallHandlers ==
  /\ pc = "signals"
  /\ handlers' = "ours" /\ barrier' = "alive"
  /\ pc' = "spawn"
  /\ UNCHANGED <<aroundRun, k, thrown, g_running, workerVars, aggregatorVars,
                 termVars, outcomeVars>>

\* The creation of a thread may fail while earlier workers already wait.
SpawnWorker ==
  /\ pc = "spawn"
  /\ \/ /\ phase' = [phase EXCEPT ![k] = "waiting"]
        /\ NextJob("spawn", "loop_test") /\ UNCHANGED thrown
     \/ Unwind("spawn") /\ UNCHANGED <<phase, k>>
  /\ UNCHANGED <<aroundRun, g_running, in_flight, failed, aggregatorVars,
                 scopeVars, termVars, outcomeVars>>

\* while (!ShouldStop && now < deadline)
LoopTest ==
  /\ pc = "loop_test"
  /\ pc' = IF ~ShouldStop /\ ~deadline THEN "sleep" ELSE "decide"
  /\ UNCHANGED <<aroundRun, k, thrown, runVars>>

\* SleepSliced ends with the tick, the deadline or a stop; then break or
\* update the display.
AfterSleep ==
  /\ pc = "sleep"
  /\ pc' = IF ShouldStop THEN "decide" ELSE "update"
  /\ UNCHANGED <<aroundRun, k, thrown, runVars>>

UpdateDisplay ==
  /\ pc = "update"
  /\ \/ /\ OnTerminal(DrawFrame)
        /\ pc' = "loop_test" /\ UNCHANGED thrown
     \/ Unwind("update") /\ UNCHANGED termVars
  /\ UNCHANGED <<aroundRun, k, g_running, workerVars, aggregatorVars,
                 scopeVars, outcomeVars>>

\* The reason for the stop is read again after the loop has ended.
Decide ==
  /\ pc = "decide"
  /\ interrupted' = ShouldStop
  /\ pc' = "stop"
  /\ UNCHANGED <<aroundRun, k, thrown, g_running, workerVars, aggregatorVars,
                 scopeVars, termVars, results, any_worker_failed>>

StopWorkers ==
  /\ pc = "stop"
  /\ g_running' = FALSE
  /\ pc' = "join"
  /\ UNCHANGED <<aroundRun, k, thrown, workerVars, aggregatorVars, scopeVars,
                 termVars, outcomeVars>>

JoinWorker ==
  /\ pc = "join"
  /\ phase[k] = "finished"
  /\ NextJob("join", "collect")
  /\ UNCHANGED <<aroundRun, thrown, runVars>>

AnyFailed == \E j \in Jobs : failed[j]

\* The failed flags, then aggregator_->Stop(): request, notify, join.
CollectFailures ==
  /\ pc = "collect"
  /\ any_worker_failed' = AnyFailed
  /\ agg_stop' = TRUE
  /\ pc' = "join_aggregator"
  /\ UNCHANGED <<aroundRun, k, thrown, g_running, workerVars, aggregator,
                 scopeVars, termVars, interrupted, results>>

\* TakeFinalSnapshot, BuildResults and ShowSummary.
BuildResults ==
  /\ pc = "join_aggregator"
  /\ aggregator = "ended" /\ aggregator' = "joined"
  /\ results' = {[interrupted |-> interrupted,
                  failed |-> {j \in Jobs : failed[j]}]}
  /\ OnTerminal(ShowSummary)
  /\ pc' = "leave_run"
  /\ UNCHANGED <<aroundRun, k, thrown, g_running, workerVars, agg_stop,
                 scopeVars, interrupted, any_worker_failed>>

\* The locals of RunBenchmark go, normally or by an exception: the barrier
\* and the signal handlers first, the display's scope last.
LeaveRun ==
  /\ pc = "leave_run"
  /\ barrier' = IF barrier = "alive" THEN "gone" ELSE barrier
  /\ handlers' = "default"
  /\ pc' = "leave_display"
  /\ UNCHANGED <<aroundRun, k, thrown, g_running, workerVars, aggregatorVars,
                 termVars, outcomeVars>>

LeaveDisplay ==
  /\ pc = "leave_display"
  /\ OnTerminal(ShutdownDisplay)
  /\ pc' = IF thrown THEN "catch" ELSE "export"
  /\ UNCHANGED <<aroundRun, k, thrown, g_running, workerVars, aggregatorVars,
                 scopeVars, outcomeVars>>

-----------------------------------------------------------------------------
\* The rest of Run.

\* ExportResults: one file, then the other.
Export(file, after) ==
  /\ \/ ExportSucceeds(file) /\ pc' = after /\ UNCHANGED thrown
     \/ Throw("export") /\ ExportFails(file)
  /\ UNCHANGED <<k, rc, givenVars, loggingVars, prepVars, runVars>>

ExportJson == pc = "export" /\ Export("summary", "export_csv")
ExportCsv == pc = "export_csv" /\ Export("timeseries", "cleanup")

\* CleanupFiles and the return of Run.
CleanupFiles ==
  /\ pc = "cleanup"
  /\ Cleanup
  /\ rc' = IF any_worker_failed THEN "failure" ELSE "success"
  /\ pc' = "returned"
  /\ UNCHANGED <<k, thrown, givenVars, loggingVars, output, runVars>>

Catch ==
  /\ pc = "catch"
  /\ thrown' = FALSE
  /\ rc' = "failure"
  /\ pc' = "returned"
  /\ UNCHANGED <<k, givenVars, loggingVars, fileVars, runVars>>

-----------------------------------------------------------------------------
\* main after Run.  The terminal path shuts the logger down and destroys the
\* orchestrator when main returns; the qt path waits for the window to close,
\* destroys it, and then shuts the logger down.

AfterRun ==
  /\ pc = "returned"
  /\ ~window_open
  /\ logger' = IF ui = "terminal" THEN FALSE ELSE logger
  /\ agg_stop' = TRUE
  /\ pc' = "destroy_aggregator"
  /\ UNCHANGED <<k, thrown, rc, givenVars, logging_ready, fileVars, g_running,
                 workerVars, aggregator, scopeVars, termVars, outcomeVars>>

\* The members, last declared first: the aggregator's jthread is stopped and
\* joined, then the workers are destroyed, then the file preparator.
DestroyAggregator ==
  /\ pc = "destroy_aggregator"
  /\ aggregator # "running"
  /\ aggregator' = "joined"
  /\ k' = 1 /\ pc' = "destroy_workers"
  /\ UNCHANGED <<aroundRun, thrown, g_running, workerVars, agg_stop, scopeVars,
                 termVars, outcomeVars>>

\* A worker's thread is joined and its engine closed.  An engine that still
\* has requests in flight says so in the log; without a logger that throws
\* out of a destructor.
DestroyWorker ==
  /\ pc = "destroy_workers"
  /\ phase[k] \in {"none", "ready", "finished"}
  /\ IF in_flight[k] /\ ~logger
       THEN pc' = "terminated" /\ UNCHANGED <<k, phase, in_flight>>
       ELSE /\ phase' = [phase EXCEPT ![k] = "destroyed"]
            /\ in_flight' = [in_flight EXCEPT ![k] = FALSE]
            /\ NextJob("destroy_workers", "destroy_files")
  /\ UNCHANGED <<aroundRun, thrown, g_running, failed, aggregatorVars,
                 scopeVars, termVars, outcomeVars>>

DestroyFiles ==
  /\ pc = "destroy_files"
  /\ Destroy
  /\ logger' = FALSE
  /\ pc' = "exited"
  /\ UNCHANGED <<k, thrown, rc, givenVars, logging_ready, output, runVars>>

Main == \/ SetupOutputDirectory \/ InitLogging \/ PrecreateFile
        \/ CreateWorker \/ InitDisplay \/ StartAggregator
        \/ InstallHandlers \/ SpawnWorker
        \/ LoopTest \/ AfterSleep \/ UpdateDisplay
        \/ Decide \/ StopWorkers \/ JoinWorker \/ CollectFailures
        \/ BuildResults \/ LeaveRun \/ LeaveDisplay
        \/ ExportJson \/ ExportCsv \/ CleanupFiles \/ Catch
        \/ AfterRun \/ DestroyAggregator \/ DestroyWorker \/ DestroyFiles

-----------------------------------------------------------------------------
\* The worker threads: module WorkerThread at the grain of module JobLoop.

\* Everything below leaves the orchestrator's own state alone.
ownVars == <<k, thrown, rc, ui, file_of, disk_before, loggingVars, fileVars,
             agg_stop, barrier, termVars, outcomeVars>>

\* What a thread's step leaves alone besides.
othersVars == <<ownVars, pc, handlers, stopVars>>

\* The barrier opens when every worker has been started.
PassBarrier(j) ==
  /\ Alive
  /\ phase[j] = "waiting"
  /\ barrier = "alive"
  /\ \A i \in Jobs : phase[i] \notin {"none", "ready"}
  /\ phase' = [phase EXCEPT ![j] = "issuing"]
  /\ UNCHANGED <<othersVars, g_running, in_flight, failed, aggregator>>

Issue(j) ==
  /\ Alive
  /\ phase[j] = "issuing" /\ g_running /\ ~in_flight[j]
  /\ in_flight' = [in_flight EXCEPT ![j] = TRUE]
  /\ UNCHANGED <<othersVars, g_running, phase, failed, aggregator>>

Drain(j) ==
  /\ Alive
  /\ phase[j] = "issuing" /\ in_flight[j]
  /\ in_flight' = [in_flight EXCEPT ![j] = FALSE]
  /\ UNCHANGED <<othersVars, g_running, phase, failed, aggregator>>

Finish(j) ==
  /\ Alive
  /\ phase[j] = "issuing" /\ ~g_running /\ ~in_flight[j]
  /\ phase' = [phase EXCEPT ![j] = "finished"]
  /\ UNCHANGED <<othersVars, g_running, in_flight, failed, aggregator>>

\* RecordFailure: the flag, then the run flag; requests stay in flight.
FailWorker(j) ==
  /\ Alive
  /\ Fails("worker")
  /\ phase[j] = "issuing"
  /\ phase' = [phase EXCEPT ![j] = "failing"]
  /\ failed' = [failed EXCEPT ![j] = TRUE]
  /\ UNCHANGED <<othersVars, g_running, in_flight, aggregator>>

StopAll(j) ==
  /\ Alive
  /\ phase[j] = "failing"
  /\ phase' = [phase EXCEPT ![j] = "finished"]
  /\ g_running' = FALSE
  /\ UNCHANGED <<othersVars, in_flight, failed, aggregator>>

Worker(j) == \/ PassBarrier(j) \/ Issue(j) \/ Drain(j) \/ Finish(j)
             \/ FailWorker(j) \/ StopAll(j)

\* The aggregator's thread ends when it sees either flag.
AggregatorEnds ==
  /\ Alive
  /\ aggregator = "running"
  /\ ~g_running \/ agg_stop
  /\ aggregator' = "ended"
  /\ UNCHANGED <<othersVars, g_running, workerVars>>

-----------------------------------------------------------------------------
\* The environment.
threadVars == <<workerVars, aggregator, handlers>>

\* The time of the run is over; it runs from the start of the main loop.
DeadlinePasses ==
  /\ pc \in {"loop_test", "sleep", "update", "decide"}
  /\ ~deadline
  /\ deadline' = TRUE
  /\ UNCHANGED <<ownVars, pc, g_running, threadVars, signals, stop_requested,
                 window_open>>

\* SIGINT or SIGTERM: OnSignal clears the run flag; outside the SignalScope
\* the default action ends the process.
Signal ==
  /\ Alive
  /\ signals < MaxSignals
  /\ signals' = signals + 1
  /\ IF handlers = "ours" THEN g_running' = FALSE /\ UNCHANGED pc
                          ELSE pc' = "killed" /\ UNCHANGED g_running
  /\ UNCHANGED <<ownVars, threadVars, stop_requested, window_open, deadline>>

\* The Stop button, and closing the window, which also asks to stop.
ClickStop ==
  /\ Alive /\ window_open /\ ~stop_requested
  /\ stop_requested' = TRUE
  /\ UNCHANGED <<ownVars, pc, g_running, threadVars, signals, window_open,
                 deadline>>

CloseWindow ==
  /\ Alive /\ window_open
  /\ window_open' = FALSE
  /\ stop_requested' = TRUE
  /\ UNCHANGED <<ownVars, pc, g_running, threadVars, signals, deadline>>

Ended == ~Alive /\ UNCHANGED vars

Next == \/ Main
        \/ \E j \in Jobs : Worker(j)
        \/ AggregatorEnds
        \/ DeadlinePasses \/ Signal \/ ClickStop \/ CloseWindow
        \/ Ended

Spec == Init /\ [][Next]_vars

\* Every thread is scheduled, time passes and the device answers.  Signals, the
\* Stop button and the closing of the window are never owed.
FairSpec == /\ Spec
            /\ WF_vars(Main)
            /\ \A j \in Jobs : WF_vars(Worker(j))
            /\ WF_vars(AggregatorEnds)
            /\ WF_vars(DeadlinePasses)

-----------------------------------------------------------------------------
\* Properties.

\* The words after "Complete" in the summary and in the window's banner.
StopLabel(r) == IF r.failed # {} THEN "aborted"
                ELSE IF r.interrupted THEN "interrupted" ELSE ""

\* The results and the summary describe a run that is over: when they are
\* built every worker's thread has ended and nothing samples any more.
ResultsAfterRun ==
  results # {} => /\ \A j \in Jobs : phase[j] \in {"finished", "destroyed"}
                  /\ aggregator = "joined"

\* What the run says of itself is true, whatever order failure, deadline and
\* signals came in: success is reported only for a run whose two files are
\* complete and in which no worker failed; a run that is not called aborted
\* or interrupted lasted until its deadline, one called interrupted was asked
\* to stop, one called aborted has a failed job among its results.  The rows
\* are never newer than the summary next to them.
OutcomeTruthful ==
  /\ rc = "success" => /\ \A file \in OutputFiles : output[file] = "complete"
                       /\ \A j \in Jobs : ~failed[j]
  /\ \A r \in results :
       /\ StopLabel(r) = "" => deadline
       /\ StopLabel(r) = "interrupted" => signals > 0 \/ stop_requested
       /\ StopLabel(r) = "aborted" <=> \E j \in Jobs : failed[j]
  /\ output["timeseries"] # "untouched" =>
       results # {} /\ output["summary"] = "complete"

\* The ways out of Run, normal or by an exception, leave the terminal on its
\* normal screen, all but one: a first frame that threw inside Init, after
\* which the run ends in the alternate screen.  What stays on the normal screen
\* is the summary of the run that has results, nothing of a run that has
\* none, and never a live frame.
TerminalRestored ==
  /\ rc # "none" => (screen = "alt" <=> half_entered)
  /\ left_over = IF results # {} /\ ui = "terminal" THEN "summary"
                 ELSE "nothing"

\* A file that existed before the run is never deleted, also when several
\* jobs name it.
UserFilesKept == disk_before \subseteq disk

\* When the process ends by itself, the files recorded as created are gone,
\* or all there with --keep-files, whichever of Cleanup and the destructor
\* was reached; the ones whose removal failed are the only ones missed.
TestFilesAsAsked ==
  pc = "exited" =>
    \A i \in DOMAIN created :
      ~created[i].pre_existed =>
        (created[i].path \in disk
           <=> keep_files \/ created[i].path \in undeleted)

\* Objects outlive the threads that use them: no worker is destroyed while
\* the aggregator reads workers, and the orchestrator, whose run flag every
\* thread holds a reference to, is not gone while a thread runs.
ThreadsJoinedFirst ==
  /\ aggregator = "running" => \A j \in Jobs : phase[j] # "destroyed"
  /\ pc \in {"destroy_files", "exited"} =>
       /\ aggregator # "running"
       /\ \A j \in Jobs : phase[j] \notin {"waiting", "issuing", "failing"}

\* Behind a window no exception leaves a destructor, although engines with
\* requests in flight log as they are closed: the logger is still there.
WindowRunEndsCleanly == ui = "qt" => pc # "terminated"

\* No exception leaves a destructor: the process ends with the exit code Run
\* returned (benchmark_orchestrator.h: EXIT_SUCCESS or EXIT_FAILURE).
NeverTerminates == pc # "terminated"

\* The run ends, and with it the process, once nothing keeps it open: the
\* terminal run always, the qt run when its window is closed.
RunEnds == ~window_open ~> ~Alive

\* An exception left RunBenchmark while workers were running: nobody cleared
\* the run flag, or the barrier they wait at is gone, and the destructor
\* joins one of them.
Stranded == /\ rc = "failure" /\ results = {}
            /\ pc = "destroy_workers"
            /\ \/ phase[k] = "waiting"
               \/ phase[k] = "issuing" /\ g_running

\* The run ends, also when a worker fails, a file cannot be written or Stop,
\* deadline and signals race, unless an exception stranded its workers.
RunEndsOrStrands == ~window_open ~> ~Alive \/ Stranded

\* i_display.h: Shutdown restores the terminal's state; the display's scope
\* calls it on every way out of RunBenchmark, so a run that is over has left
\* the alternate screen.
TerminalReleased == rc # "none" => screen = "normal"

\* file_preparator.h: the preparator deletes the files it created unless
\* keep_files.
NothingLeftBehind == pc = "exited" /\ ~keep_files => disk \subseteq disk_before
=============================================================================
