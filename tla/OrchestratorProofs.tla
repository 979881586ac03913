-------------------------- MODULE OrchestratorProofs --------------------------
(***************************************************************************)
(* The life of a run, for every number of jobs, every set of files, every  *)
(* choice of the steps that may fail and any number of signals: whatever   *)
(* path the run takes - normal, interrupted, or an exception from any step *)
(* - the files of the user are kept, the terminal is restored, threads are *)
(* joined before what they use is destroyed, and what the run says of      *)
(* itself is true.                                                         *)
(*                                                                         *)
(* The inductive invariant has four parts, one per concern of Run(); each  *)
(* ties the place the run has reached to what must have happened before.   *)
(***************************************************************************)
EXTENDS BenchmarkOrchestrator, TLAPS

\* Before the first worker thread is started.
Starting == {"setup", "logging", "prepare", "create", "display", "aggregator",
             "signals"}

\* The main loop, up to the clearing of the run flag.
Looping == {"loop_test", "sleep", "update", "decide", "stop"}

\* Run's own steps until the results are built.
Measuring == Starting \cup {"spawn"} \cup Looping
               \cup {"join", "collect", "join_aggregator"}

\* The live view is entered and not yet left.
InLiveView == {"aggregator", "signals", "spawn", "join", "collect",
               "join_aggregator"} \cup Looping

\* Run has returned or the process has ended.
Over == {"returned", "destroy_aggregator", "destroy_workers", "destroy_files",
         "exited", "killed", "terminated"}

\* Files: what was there before is there; of what the run created, everything
\* is there until the clean-up or the destructor, and then what was asked for.
FilesInv ==
  /\ disk_before \subseteq disk
  /\ \A i \in DOMAIN created :
       ~created[i].pre_existed => created[i].path \notin disk_before
  /\ cleaned => pc \in Over
  /\ ~cleaned /\ pc # "exited" =>
       \A i \in DOMAIN created : created[i].path \in disk
  /\ cleaned \/ pc = "exited" =>
       \A i \in DOMAIN created :
         ~created[i].pre_existed =>
           (created[i].path \in disk
              <=> keep_files \/ created[i].path \in undeleted)

\* Threads: how far each loop over the workers has got.
ThreadsInv ==
  /\ pc \in Starting => \A j \in Jobs : phase[j] \in {"none", "ready"}
  /\ pc = "spawn" =>
       \A j \in Jobs : j >= k => phase[j] \in {"none", "ready"}
  /\ pc \in Looping => k = 1
  /\ pc = "join" => \A j \in Jobs : j < k => phase[j] = "finished"
  /\ pc \in {"collect", "join_aggregator"} =>
       \A j \in Jobs : phase[j] = "finished"
  /\ pc = "destroy_workers" =>
       \A j \in Jobs : j < k => phase[j] = "destroyed"
  /\ pc \in {"destroy_files", "exited"} =>
       \A j \in Jobs : phase[j] = "destroyed"
  /\ pc \in {"destroy_workers", "destroy_files", "exited"} =>
       aggregator = "joined"
  /\ \A j \in Jobs :
       phase[j] = "destroyed" =>
         /\ aggregator = "joined"
         /\ pc \in {"destroy_workers", "destroy_files", "exited", "killed",
                    "terminated"}
  /\ \A j \in Jobs :
       in_flight[j] => phase[j] \in {"issuing", "failing", "finished"}

\* Behind a window the logger goes only when there is no engine to close.
LoggerInv ==
  ui = "qt" =>
    /\ pc # "terminated"
    /\ ~logger => /\ pc \in Over \cup {"catch"}
                  /\ \A j \in Jobs :
                       phase[j] \in {"none", "ready", "destroyed"}

\* Terminal: the alternate screen is in use when the flag says so or the first
\* frame threw, in which case the run is on its way out without results; the
\* live view is left with the display's scope, and frames are drawn on the
\* alternate screen only.
TerminalInv ==
  /\ screen = "alt" <=> alt_active \/ half_entered
  /\ half_entered => /\ ui = "terminal" /\ results = {} /\ ~alt_active
                     /\ pc \in Over \cup {"leave_run", "leave_display", "catch"}
                     /\ pc \in {"leave_run", "leave_display"} => thrown
  /\ ui = "qt" => screen = "normal"
  /\ rc # "none" => pc \in Over
  /\ rc # "none" => ~alt_active
  /\ pc \in {"setup", "logging", "prepare", "create", "display", "export",
             "export_csv", "cleanup", "catch", "returned"} => ~alt_active
  /\ pc \in InLiveView /\ ui = "terminal" /\ ansi => alt_active
  /\ left_over = IF results # {} /\ ui = "terminal" THEN "summary"
                 ELSE "nothing"

\* Why the workers were told to stop.
StopInv ==
  /\ \A j \in Jobs : phase[j] = "failing" => failed[j]
  /\ ~g_running /\ pc \in Starting \cup {"spawn"} \cup Looping =>
       signals > 0 \/ AnyFailed
  /\ pc = "decide" => ShouldStop \/ deadline
  /\ pc \in {"stop", "join", "collect", "join_aggregator"} =>
       interrupted \/ deadline
  /\ interrupted => signals > 0 \/ stop_requested \/ AnyFailed

\* Results, files and exit code.
ResultsInv ==
  /\ results # {} =>
       /\ pc \notin Measuring
       /\ \A j \in Jobs : phase[j] \in {"finished", "destroyed"}
       /\ aggregator = "joined"
       /\ results = {[interrupted |-> interrupted,
                      failed |-> {j \in Jobs : failed[j]}]}
       /\ interrupted \/ deadline
       /\ any_worker_failed = AnyFailed
  /\ pc = "join_aggregator" => any_worker_failed = AnyFailed
  /\ pc \in {"leave_run", "leave_display"} => thrown \/ results # {}
  /\ pc \in {"export", "export_csv", "cleanup"} => results # {}
  /\ pc = "export" => output["timeseries"] = "untouched"
  /\ pc \in Measuring \cup {"leave_run", "leave_display"} =>
       output["timeseries"] = "untouched"
  /\ output["timeseries"] # "untouched" =>
       results # {} /\ output["summary"] = "complete"
  /\ pc = "export_csv" => output["summary"] = "complete"
  /\ pc = "cleanup" => \A file \in OutputFiles : output[file] = "complete"
  /\ rc = "success" =>
       /\ pc \in Over /\ results # {} /\ ~any_worker_failed
       /\ \A file \in OutputFiles : output[file] = "complete"

IInv == /\ TypeOK /\ FilesInv /\ ThreadsInv /\ LoggerInv /\ TerminalInv
        /\ StopInv /\ ResultsInv

-----------------------------------------------------------------------------
\* Typing, in three parts: the flags a step may set or leave, the other flags,
\* and everything else.

SwitchesOK == /\ thrown \in BOOLEAN /\ alt_active \in BOOLEAN
              /\ logger \in BOOLEAN /\ logging_ready \in BOOLEAN
              /\ g_running \in BOOLEAN

FlagsOK == /\ cleaned \in BOOLEAN /\ keep_files \in BOOLEAN
           /\ half_entered \in BOOLEAN
           /\ ansi \in BOOLEAN /\ any_worker_failed \in BOOLEAN
           /\ agg_stop \in BOOLEAN /\ stop_requested \in BOOLEAN
           /\ window_open \in BOOLEAN /\ deadline \in BOOLEAN
           /\ interrupted \in BOOLEAN

ShapesOK ==
  /\ disk \subseteq Files /\ created \in Seq(Entry) /\ undeleted \subseteq Files
  /\ screen \in {"normal", "alt"}
  /\ left_over \in {"nothing", "frame", "summary"}
  /\ ExportTypeOK
  /\ pc \in PCs /\ k \in Jobs /\ rc \in {"none", "success", "failure"}
  /\ ui \in UIs /\ file_of \in [Jobs -> Files] /\ disk_before \subseteq Files
  /\ phase \in [Jobs -> Phases]
  /\ in_flight \in [Jobs -> BOOLEAN] /\ failed \in [Jobs -> BOOLEAN]
  /\ aggregator \in {"none", "running", "ended", "joined"}
  /\ barrier \in {"none", "alive", "gone"} /\ handlers \in {"default", "ours"}
  /\ signals \in 0 .. MaxSignals
  /\ results \subseteq [interrupted : BOOLEAN, failed : SUBSET Jobs]

\* The three parts are the type invariant of the module.
LEMMA TypeParts == TypeOK <=> SwitchesOK /\ FlagsOK /\ ShapesOK
BY DEF TypeOK, PrepTypeOK, TermTypeOK, SwitchesOK, FlagsOK, ShapesOK

\* The constructor of the orchestrator leaves everything well typed.
LEMMA TypeInit == Init => TypeOK
<1> SUFFICES ASSUME Init PROVE TypeOK
  OBVIOUS
<1>1. SwitchesOK
  BY Zenon DEF Init, TermInit, SwitchesOK
<1>2. window_open \in BOOLEAN
  BY Zenon DEF Init
<1>3. FlagsOK
  BY <1>2 DEF Init, PrepInit, TermInit, FlagsOK
<1>4. ShapesOK
  BY RunAssumption
     DEF Init, PrepInit, TermInit, ExportInit, ShapesOK, ExportTypeOK, Entry,
         PCs, Phases, Jobs
<1> QED
  BY <1>1, <1>3, <1>4, TypeParts

\* A step sets a switch or leaves it; each is written in few places.
LEMMA SwitchTypes == SwitchesOK /\ [Next]_vars => SwitchesOK'
<1> SUFFICES ASSUME SwitchesOK, [Next]_vars PROVE SwitchesOK'
  OBVIOUS
<1> USE DEF aroundRun, givenVars, stopVars, loggingVars, fileVars, prepVars,
            runVars, workerVars, aggregatorVars, scopeVars, outcomeVars,
            termVars, ownVars, othersVars, threadVars
<1>1. thrown' \in BOOLEAN
  <2>1. CASE SetupOutputDirectory \/ InitLogging \/ PrecreateFile
             \/ CreateWorker \/ InitDisplay \/ StartAggregator \/ SpawnWorker
             \/ UpdateDisplay \/ ExportJson \/ ExportCsv \/ Catch
    BY <2>1, Zenon
       DEF SwitchesOK, SetupOutputDirectory, InitLogging, PrecreateFile,
           CreateWorker, InitDisplay, StartAggregator, SpawnWorker,
           UpdateDisplay, ExportJson, ExportCsv, Catch, Throw, Unwind, Export
  <2>2. CASE ~ (SetupOutputDirectory \/ InitLogging \/ PrecreateFile
                \/ CreateWorker \/ InitDisplay \/ StartAggregator \/ SpawnWorker
                \/ UpdateDisplay \/ ExportJson \/ ExportCsv \/ Catch)
    <3>1. thrown' = thrown
      BY <2>2
         DEF Next, Main, Worker, Ended, InstallHandlers, LoopTest, AfterSleep,
             Decide, StopWorkers, JoinWorker, CollectFailures, BuildResults,
             LeaveRun, LeaveDisplay, CleanupFiles, AfterRun,
             DestroyAggregator, DestroyWorker, DestroyFiles, AggregatorEnds,
             DeadlinePasses, Signal, ClickStop, CloseWindow, PassBarrier,
             Issue, Drain, Finish, FailWorker, StopAll, vars
    <3> QED
      BY <3>1, Zenon DEF SwitchesOK
  <2> QED
    BY <2>1, <2>2
<1>2. alt_active' \in BOOLEAN
  <2>1. CASE InitDisplay \/ BuildResults \/ LeaveDisplay
    BY <2>1, Zenon
       DEF SwitchesOK, InitDisplay, BuildResults, LeaveDisplay, OnTerminal,
           EnterLiveView, FirstFrameThrows, ShowSummary, ShutdownDisplay,
           LeaveAltScreen, termVars
  <2>2. CASE ~ (InitDisplay \/ BuildResults \/ LeaveDisplay)
    <3>1. alt_active' = alt_active
      BY <2>2
         DEF Next, Main, Worker, Ended, SetupOutputDirectory, InitLogging,
             PrecreateFile, CreateWorker, StartAggregator, InstallHandlers,
             SpawnWorker, LoopTest, AfterSleep, UpdateDisplay, OnTerminal,
             DrawFrame, Draws, Decide, StopWorkers, JoinWorker,
             CollectFailures, LeaveRun, ExportJson, Export, ExportCsv,
             CleanupFiles, Catch, AfterRun, DestroyAggregator, DestroyWorker,
             DestroyFiles, AggregatorEnds, DeadlinePasses, Signal, ClickStop,
             CloseWindow, PassBarrier, Issue, Drain, Finish, FailWorker,
             StopAll, vars
    <3> QED
      BY <3>1, Zenon DEF SwitchesOK
  <2> QED
    BY <2>1, <2>2
<1>3. logger' \in BOOLEAN /\ logging_ready' \in BOOLEAN
  <2>1. CASE InitLogging \/ AfterRun \/ DestroyFiles
    BY <2>1, Zenon DEF SwitchesOK, InitLogging, AfterRun, DestroyFiles
  <2>2. CASE ~ (InitLogging \/ AfterRun \/ DestroyFiles)
    <3>1. logger' = logger /\ logging_ready' = logging_ready
      BY <2>2
         DEF Next, Main, Worker, Ended, SetupOutputDirectory, PrecreateFile,
             CreateWorker, InitDisplay, StartAggregator, InstallHandlers,
             SpawnWorker, LoopTest, AfterSleep, UpdateDisplay, Decide,
             StopWorkers, JoinWorker, CollectFailures, BuildResults, LeaveRun,
             LeaveDisplay, ExportJson, Export, ExportCsv, CleanupFiles, Catch,
             DestroyAggregator, DestroyWorker, AggregatorEnds, DeadlinePasses,
             Signal, ClickStop, CloseWindow, PassBarrier, Issue, Drain,
             Finish, FailWorker, StopAll, vars
    <3> QED
      BY <3>1, Zenon DEF SwitchesOK
  <2> QED
    BY <2>1, <2>2
<1>4. g_running' \in BOOLEAN
  <2>1. CASE StopWorkers \/ Signal \/ \E j \in Jobs : StopAll(j)
    BY <2>1, Zenon DEF SwitchesOK, StopWorkers, Signal, StopAll
  <2>2. CASE ~ (StopWorkers \/ Signal \/ \E j \in Jobs : StopAll(j))
    <3>1. g_running' = g_running
      BY <2>2
         DEF Next, Main, Worker, Ended, SetupOutputDirectory, InitLogging,
             PrecreateFile, CreateWorker, InitDisplay, StartAggregator,
             InstallHandlers, SpawnWorker, LoopTest, AfterSleep,
             UpdateDisplay, Decide, JoinWorker, CollectFailures, BuildResults,
             LeaveRun, LeaveDisplay, ExportJson, Export, ExportCsv,
             CleanupFiles, Catch, AfterRun, DestroyAggregator, DestroyWorker,
             DestroyFiles, AggregatorEnds, DeadlinePasses, ClickStop,
             CloseWindow, PassBarrier, Issue, Drain, Finish, FailWorker, vars
    <3> QED
      BY <3>1, Zenon DEF SwitchesOK
  <2> QED
    BY <2>1, <2>2
<1> QED
  BY <1>1, <1>2, <1>3, <1>4 DEF SwitchesOK

\* The other flags: one step writes each, or two.
LEMMA FlagTypes == FlagsOK /\ [Next]_vars => FlagsOK'
<1> SUFFICES ASSUME FlagsOK, [Next]_vars PROVE FlagsOK'
  OBVIOUS
<1> USE DEF aroundRun, givenVars, stopVars, loggingVars, fileVars, prepVars,
            runVars, workerVars, aggregatorVars, scopeVars, outcomeVars,
            termVars, ownVars, othersVars, threadVars
<1>1. ASSUME FlagsOK, CleanupFiles PROVE FlagsOK'
  BY <1>1 DEF FlagsOK, CleanupFiles, Cleanup, DeleteCreated
<1>2. ASSUME FlagsOK, CollectFailures PROVE FlagsOK'
  <2>1. any_worker_failed' \in BOOLEAN
    BY <1>2, Zenon DEF CollectFailures, AnyFailed
  <2> QED
    BY <1>2, <2>1 DEF FlagsOK, CollectFailures
<1>3. ASSUME FlagsOK, AfterRun PROVE FlagsOK'
  BY <1>3 DEF FlagsOK, AfterRun
<1>4. ASSUME FlagsOK, ClickStop PROVE FlagsOK'
  BY <1>4 DEF FlagsOK, ClickStop
<1>5. ASSUME FlagsOK, CloseWindow PROVE FlagsOK'
  BY <1>5 DEF FlagsOK, CloseWindow
<1>6. ASSUME FlagsOK, DeadlinePasses PROVE FlagsOK'
  BY <1>6 DEF FlagsOK, DeadlinePasses
<1>7. ASSUME FlagsOK, Decide PROVE FlagsOK'
  <2>1. interrupted' \in BOOLEAN
    BY <1>7, Zenon DEF Decide, ShouldStop
  <2> QED
    BY <1>7, <2>1 DEF FlagsOK, Decide
<1>8. ASSUME FlagsOK, InitDisplay PROVE FlagsOK'
  <2>1. half_entered' \in BOOLEAN
    BY <1>8, Zenon
       DEF FlagsOK, InitDisplay, OnTerminal, EnterLiveView, FirstFrameThrows,
           termVars
  <2> QED
    BY <1>8, <2>1
       DEF FlagsOK, InitDisplay, OnTerminal, EnterLiveView, FirstFrameThrows
<1>9. CASE ~ (CleanupFiles \/ CollectFailures \/ AfterRun \/ ClickStop
              \/ CloseWindow \/ DeadlinePasses \/ Decide \/ InitDisplay)
  BY <1>9
     DEF FlagsOK, Next, Main, Worker, Ended, SetupOutputDirectory,
         InitLogging, PrecreateFile, FillSucceeds, OpenFails, FillFails,
         CreateWorker, OnTerminal, Draws, StartAggregator, InstallHandlers, SpawnWorker, LoopTest, AfterSleep,
         UpdateDisplay, DrawFrame, StopWorkers, JoinWorker, BuildResults,
         ShowSummary, LeaveAltScreen, LeaveRun, LeaveDisplay, ShutdownDisplay,
         ExportJson, Export, ExportCsv, Catch, DestroyAggregator,
         DestroyWorker, DestroyFiles, Destroy, DeleteCreated, AggregatorEnds,
         Signal, PassBarrier, Issue, Drain, Finish, FailWorker, StopAll, vars
<1> QED
  BY <1>1, <1>2, <1>3, <1>4, <1>5, <1>6, <1>7, <1>8, <1>9

\* Everything that is not a flag.
LEMMA ShapeTypes == FlagsOK /\ ShapesOK /\ [Next]_vars => ShapesOK'
<1> SUFFICES ASSUME FlagsOK, ShapesOK, [Next]_vars PROVE ShapesOK'
  OBVIOUS
<1> USE RunAssumption
<1> USE DEF aroundRun, givenVars, stopVars, loggingVars, fileVars, prepVars,
            runVars, workerVars, aggregatorVars, scopeVars, outcomeVars,
            termVars, ownVars, othersVars, threadVars
<1>1. ASSUME ShapesOK, SetupOutputDirectory \/ InitLogging \/ CreateWorker
      PROVE  ShapesOK'
  BY <1>1
     DEF ShapesOK, ExportTypeOK, PCs, Phases, SetupOutputDirectory, Throw,
         InitLogging, CreateWorker, NextJob, Jobs
<1>2. ASSUME ShapesOK, InitDisplay \/ StartAggregator \/ InstallHandlers
            \/ SpawnWorker PROVE ShapesOK'
  BY <1>2
     DEF ShapesOK, ExportTypeOK, PCs, Phases, InitDisplay, Throw, OnTerminal,
         EnterLiveView, FirstFrameThrows, Draws, StartAggregator, Unwind,
         InstallHandlers, SpawnWorker, NextJob, Jobs
<1>3. ASSUME ShapesOK, LoopTest \/ AfterSleep \/ UpdateDisplay \/ Decide
            \/ StopWorkers PROVE ShapesOK'
  BY <1>3
     DEF ShapesOK, ExportTypeOK, PCs, Phases, LoopTest, AfterSleep,
         UpdateDisplay, Unwind, OnTerminal, DrawFrame, Draws, Decide,
         ShouldStop, StopWorkers
<1>4. ASSUME ShapesOK, JoinWorker PROVE ShapesOK'
  BY <1>4 DEF ShapesOK, ExportTypeOK, PCs, Phases, JoinWorker, NextJob, Jobs
<1>5. ASSUME ShapesOK, CollectFailures PROVE ShapesOK'
  BY <1>5 DEF ShapesOK, ExportTypeOK, PCs, Phases, CollectFailures, AnyFailed
<1>6. ASSUME FlagsOK, ShapesOK, BuildResults PROVE ShapesOK'
  BY <1>6
     DEF FlagsOK, ShapesOK, ExportTypeOK, PCs, Phases, BuildResults,
         OnTerminal, ShowSummary, LeaveAltScreen, Draws
<1>7. ASSUME ShapesOK, LeaveRun PROVE ShapesOK'
  BY <1>7 DEF ShapesOK, ExportTypeOK, PCs, Phases, LeaveRun
<1>8. ASSUME ShapesOK, LeaveDisplay PROVE ShapesOK'
  BY <1>8
     DEF ShapesOK, ExportTypeOK, PCs, Phases, LeaveDisplay, OnTerminal,
         ShutdownDisplay, LeaveAltScreen
<1>9. ASSUME ShapesOK, ExportJson \/ ExportCsv \/ CleanupFiles \/ Catch
      PROVE  ShapesOK'
  BY <1>9
     DEF ShapesOK, ExportTypeOK, PCs, Phases, ExportJson, Export,
         ExportSucceeds, ExportFails, OutputFiles, Throw, ExportCsv,
         CleanupFiles, Cleanup, DeleteCreated, Catch
<1>10. ASSUME ShapesOK, AfterRun PROVE ShapesOK'
  BY <1>10 DEF ShapesOK, ExportTypeOK, PCs, Phases, AfterRun
<1>11. ASSUME ShapesOK, DestroyAggregator PROVE ShapesOK'
  BY <1>11 DEF ShapesOK, ExportTypeOK, PCs, Phases, DestroyAggregator, Jobs
<1>12. ASSUME ShapesOK, DestroyFiles PROVE ShapesOK'
  BY <1>12
     DEF ShapesOK, ExportTypeOK, PCs, Phases, DestroyFiles, Destroy,
         DeleteCreated
<1>13. ASSUME ShapesOK, AggregatorEnds \/ DeadlinePasses \/ Signal
            \/ ClickStop \/ CloseWindow PROVE ShapesOK'
  BY <1>13
     DEF ShapesOK, ExportTypeOK, PCs, Phases, AggregatorEnds, DeadlinePasses,
         Signal, ClickStop, CloseWindow
<1>14. ASSUME ShapesOK, PrecreateFile PROVE ShapesOK'
  <2>1. file_of[k] \in Files /\ (file_of[k] \in disk) \in BOOLEAN
    BY <1>14 DEF ShapesOK
  <2>2. [path |-> file_of[k], pre_existed |-> file_of[k] \in disk] \in Entry
    BY <2>1 DEF Entry
  <2>3. created' \in Seq(Entry)
    BY <1>14, <2>2
       DEF ShapesOK, PrecreateFile, FillSucceeds, OpenFails, FillFails,
           prepVars
  <2> QED
    BY <1>14, <2>1, <2>3
       DEF ShapesOK, ExportTypeOK, PCs, PrecreateFile, Throw, FillSucceeds,
           OpenFails, FillFails, NextJob, Jobs
<1>15. ASSUME ShapesOK, DestroyWorker PROVE ShapesOK'
  <2>1. in_flight' \in [Jobs -> BOOLEAN]
    BY <1>15 DEF ShapesOK, DestroyWorker
  <2> QED
    BY <1>15, <2>1
       DEF ShapesOK, ExportTypeOK, PCs, Phases, DestroyWorker, NextJob, Jobs
<1>16. ASSUME ShapesOK, NEW j \in Jobs, PassBarrier(j) PROVE ShapesOK'
  BY <1>16 DEF ShapesOK, ExportTypeOK, Phases, PassBarrier
<1>17. ASSUME ShapesOK, NEW j \in Jobs, Issue(j) PROVE ShapesOK'
  BY <1>17 DEF ShapesOK, ExportTypeOK, Phases, Issue
<1>18. ASSUME ShapesOK, NEW j \in Jobs, Drain(j) PROVE ShapesOK'
  BY <1>18 DEF ShapesOK, ExportTypeOK, Phases, Drain
<1>19. ASSUME ShapesOK, NEW j \in Jobs, Finish(j) PROVE ShapesOK'
  BY <1>19 DEF ShapesOK, ExportTypeOK, Phases, Finish
<1>20. ASSUME ShapesOK, NEW j \in Jobs, FailWorker(j) PROVE ShapesOK'
  BY <1>20 DEF ShapesOK, ExportTypeOK, Phases, FailWorker
<1>21. ASSUME ShapesOK, NEW j \in Jobs, StopAll(j) PROVE ShapesOK'
  BY <1>21 DEF ShapesOK, ExportTypeOK, Phases, StopAll
<1>22. ASSUME ShapesOK, UNCHANGED vars PROVE ShapesOK'
  BY <1>22 DEF ShapesOK, ExportTypeOK, vars
<1> QED
  BY <1>1, <1>2, <1>3, <1>4, <1>5, <1>6, <1>7, <1>8, <1>9, <1>10, <1>11,
     <1>12, <1>13, <1>14, <1>15, <1>16, <1>17, <1>18, <1>19, <1>20, <1>21,
     <1>22
     DEF Next, Main, Worker, Ended

\* Every step keeps the type invariant.
LEMMA TypeCorrectStep == TypeOK /\ [Next]_vars => TypeOK'
<1>1. TypeOK' <=> SwitchesOK' /\ FlagsOK' /\ ShapesOK'
  BY DEF TypeOK, PrepTypeOK, TermTypeOK, SwitchesOK, FlagsOK, ShapesOK
<1> QED
  BY <1>1, TypeParts, SwitchTypes, FlagTypes, ShapeTypes

-----------------------------------------------------------------------------
\* The part on files.  Only three steps touch them.
LEMMA FilesStep == TypeOK /\ FilesInv /\ [Next]_vars => FilesInv'
<1> SUFFICES ASSUME TypeOK, FilesInv, [Next]_vars PROVE FilesInv'
  OBVIOUS
<1>0. created \in Seq(Entry) /\ k \in Jobs
  BY DEF TypeOK, PrepTypeOK
<1>1. CASE PrecreateFile
  <2>1. /\ pc = "prepare" /\ ~cleaned /\ pc' \in {"prepare", "create", "catch"}
        /\ UNCHANGED <<cleaned, disk_before>>
        /\ disk \subseteq disk'
    BY <1>1
       DEF PrecreateFile, NextJob, Throw, FillSucceeds, FillFails, OpenFails,
           prepVars, givenVars, FilesInv, Over
  <2>2. CASE created' = created
    BY <1>1, <2>1, <2>2 DEF FilesInv
  <2>3. CASE FillSucceeds(file_of[k])
    <3> DEFINE e == [path |-> file_of[k], pre_existed |-> file_of[k] \in disk]
    <3>1. created' = Append(created, e) /\ disk' = disk \cup {file_of[k]}
      BY <2>3 DEF FillSucceeds
    <3>2. \A i \in DOMAIN created' :
            \/ i \in DOMAIN created /\ created'[i] = created[i]
            \/ created'[i] = e
      BY <1>0, <3>1
    <3>3. e.path \in disk' /\ (~e.pre_existed => e.path \notin disk_before)
      BY <3>1 DEF FilesInv
    <3> QED
      BY <2>1, <3>2, <3>3 DEF FilesInv
  <2> QED
    BY <1>1, <2>2, <2>3
       DEF PrecreateFile, FillFails, OpenFails, prepVars
<1>2. CASE CleanupFiles
  <2>1. /\ pc = "cleanup" /\ pc' = "returned" /\ ~cleaned /\ cleaned'
        /\ UNCHANGED <<created, disk_before, keep_files>>
    BY <1>2 DEF CleanupFiles, Cleanup, FilesInv, Over, givenVars
  <2>2. \A i \in DOMAIN created : created[i].path \in disk
    BY <2>1 DEF FilesInv
  <2>3. CASE keep_files
    BY <1>2, <2>1, <2>2, <2>3 DEF CleanupFiles, Cleanup, FilesInv, Over
  <2>4. CASE ~keep_files
    <3>1. DeleteCreated
      BY <1>2, <2>1, <2>4 DEF CleanupFiles, Cleanup
    <3>2. PICK kept \in SUBSET ToDelete :
            disk' = disk \ (ToDelete \ kept) /\ undeleted' = kept \cap disk
      BY <3>1 DEF DeleteCreated
    <3>3. disk_before \subseteq disk'
      BY <3>2 DEF ToDelete, FilesInv
    <3> QED
      BY <2>1, <2>2, <2>4, <3>2, <3>3 DEF ToDelete, FilesInv, Over
  <2> QED
    BY <2>3, <2>4
<1>3. CASE DestroyFiles
  <2>1. /\ pc = "destroy_files" /\ pc' = "exited"
        /\ UNCHANGED <<created, disk_before, keep_files, cleaned>>
    BY <1>3 DEF DestroyFiles, Destroy, givenVars
  <2>2. CASE cleaned \/ keep_files
    BY <1>3, <2>1, <2>2 DEF DestroyFiles, Destroy, FilesInv, Over
  <2>3. CASE ~cleaned /\ ~keep_files
    <3>1. DeleteCreated /\ \A i \in DOMAIN created : created[i].path \in disk
      BY <1>3, <2>1, <2>3 DEF DestroyFiles, Destroy, FilesInv
    <3> QED
      BY <2>1, <2>3, <3>1 DEF DeleteCreated, ToDelete, FilesInv, Over
  <2> QED
    BY <2>2, <2>3
<1>4. CASE ~ (PrecreateFile \/ CleanupFiles \/ DestroyFiles)
  <2>1. UNCHANGED <<prepVars, disk_before>>
    BY <1>4
       DEF Next, Main, Worker, Ended, vars, SetupOutputDirectory, InitLogging,
           CreateWorker, InitDisplay, StartAggregator, InstallHandlers,
           SpawnWorker, LoopTest, AfterSleep, UpdateDisplay, Decide,
           StopWorkers, JoinWorker, CollectFailures, BuildResults, LeaveRun,
           LeaveDisplay, ExportJson, Export, ExportCsv, Catch, AfterRun,
           DestroyAggregator, DestroyWorker, AggregatorEnds, DeadlinePasses,
           Signal, ClickStop, CloseWindow, PassBarrier, Issue, Drain, Finish,
           FailWorker, StopAll, aroundRun, givenVars, stopVars, loggingVars,
           fileVars, prepVars, runVars, workerVars, aggregatorVars, scopeVars,
           outcomeVars, termVars, ownVars, othersVars, threadVars
  <2>2. (pc = "exited" <=> pc' = "exited") /\ (pc \in Over => pc' \in Over)
    BY <1>4
       DEF Next, Main, Worker, Ended, vars, SetupOutputDirectory, Throw,
           InitLogging, CreateWorker, NextJob, InitDisplay, StartAggregator,
           Unwind, InstallHandlers, SpawnWorker, LoopTest, AfterSleep,
           UpdateDisplay, Decide, StopWorkers, JoinWorker, CollectFailures,
           BuildResults, LeaveRun, LeaveDisplay, ExportJson, Export,
           ExportCsv, Catch, AfterRun, DestroyAggregator, DestroyWorker,
           AggregatorEnds, DeadlinePasses, Signal, ClickStop, CloseWindow,
           PassBarrier, Issue, Drain, Finish, FailWorker, StopAll, aroundRun,
           givenVars, stopVars, loggingVars, fileVars, prepVars, runVars,
           workerVars, aggregatorVars, scopeVars, outcomeVars, termVars,
           ownVars, othersVars, threadVars, Over, Alive
  <2> QED
    BY <2>1, <2>2 DEF FilesInv, prepVars
<1> QED
  BY <1>1, <1>2, <1>3, <1>4

-----------------------------------------------------------------------------
\* The part on threads: each loop over the workers, and who is joined when.
LEMMA ThreadsStep == TypeOK /\ ThreadsInv /\ [Next]_vars => ThreadsInv'
<1> SUFFICES ASSUME TypeOK, ThreadsInv, [Next]_vars PROVE ThreadsInv'
  OBVIOUS
<1> USE RunAssumption
<1> USE DEF aroundRun, givenVars, stopVars, loggingVars, fileVars, prepVars,
            runVars, workerVars, aggregatorVars, scopeVars, outcomeVars,
            termVars, ownVars, othersVars, threadVars
<1>0. /\ k \in 1 .. N
      /\ phase \in [Jobs -> Phases] /\ in_flight \in [Jobs -> BOOLEAN]
  BY DEF TypeOK, Jobs
<1>1. CASE SetupOutputDirectory \/ InitLogging \/ PrecreateFile
            \/ CreateWorker
  BY <1>0, <1>1
     DEF ThreadsInv, Starting, Looping, Jobs, SetupOutputDirectory, Throw,
         InitLogging, PrecreateFile, NextJob, CreateWorker
<1>2. CASE InitDisplay \/ StartAggregator \/ InstallHandlers \/ SpawnWorker
  BY <1>0, <1>2
     DEF ThreadsInv, Starting, Looping, Jobs, InitDisplay, Throw,
         StartAggregator, Unwind, InstallHandlers, SpawnWorker, NextJob
<1>3. CASE LoopTest \/ AfterSleep \/ UpdateDisplay \/ Decide \/ StopWorkers
  BY <1>0, <1>3
     DEF ThreadsInv, Starting, Looping, Jobs, LoopTest, AfterSleep,
         UpdateDisplay, Unwind, Decide, StopWorkers
<1>4. CASE JoinWorker \/ CollectFailures \/ BuildResults \/ LeaveRun
            \/ LeaveDisplay
  BY <1>0, <1>4
     DEF ThreadsInv, Starting, Looping, Jobs, JoinWorker, NextJob,
         CollectFailures, BuildResults, LeaveRun, LeaveDisplay
<1>5. CASE ExportJson \/ ExportCsv \/ CleanupFiles \/ Catch
  BY <1>0, <1>5
     DEF ThreadsInv, Starting, Looping, Jobs, ExportJson, Export, Throw,
         ExportCsv, CleanupFiles, Catch
<1>6. CASE AfterRun
  BY <1>0, <1>6 DEF ThreadsInv, Starting, Looping, Jobs, AfterRun
<1>7. CASE DestroyAggregator
  BY <1>0, <1>7 DEF ThreadsInv, Starting, Looping, Jobs, DestroyAggregator
<1>8. CASE DestroyWorker
  BY <1>0, <1>8
     DEF ThreadsInv, Starting, Looping, Jobs, DestroyWorker, NextJob
<1>9. CASE DestroyFiles
  BY <1>0, <1>9 DEF ThreadsInv, Starting, Looping, Jobs, DestroyFiles
<1>10. CASE AggregatorEnds \/ DeadlinePasses \/ Signal \/ ClickStop
            \/ CloseWindow
  BY <1>0, <1>10
     DEF ThreadsInv, Starting, Looping, Jobs, AggregatorEnds, DeadlinePasses,
         Signal, ClickStop, CloseWindow
<1>11. ASSUME NEW j \in Jobs, Worker(j) PROVE ThreadsInv'
  BY <1>0, <1>11
     DEF ThreadsInv, Starting, Looping, Worker, PassBarrier, Issue, Drain,
         Finish, FailWorker, StopAll
<1>12. CASE UNCHANGED vars
  BY <1>12 DEF ThreadsInv, vars
<1> QED
  BY <1>1, <1>2, <1>3, <1>4, <1>5, <1>6, <1>7, <1>8, <1>9, <1>10, <1>11, <1>12
     DEF Next, Main, Ended

\* The part on the logger.
LEMMA LoggerStep ==
  TypeOK /\ ThreadsInv /\ LoggerInv /\ [Next]_vars => LoggerInv'
<1> SUFFICES ASSUME TypeOK, ThreadsInv, LoggerInv, [Next]_vars
             PROVE  LoggerInv'
  OBVIOUS
<1> USE RunAssumption
<1> USE DEF aroundRun, givenVars, stopVars, loggingVars, fileVars, prepVars,
            runVars, workerVars, aggregatorVars, scopeVars, outcomeVars,
            termVars, ownVars, othersVars, threadVars
<1>0. /\ k \in Jobs
      /\ phase \in [Jobs -> Phases] /\ in_flight \in [Jobs -> BOOLEAN]
  BY DEF TypeOK
<1>1. CASE SetupOutputDirectory \/ InitLogging \/ PrecreateFile
            \/ CreateWorker
  BY <1>0, <1>1
     DEF LoggerInv, ThreadsInv, Over, Starting, SetupOutputDirectory, Throw,
         InitLogging, PrecreateFile, NextJob, CreateWorker
<1>2. CASE InitDisplay \/ StartAggregator \/ InstallHandlers \/ SpawnWorker
  BY <1>0, <1>2
     DEF LoggerInv, ThreadsInv, Over, Starting, InitDisplay, Throw,
         StartAggregator, Unwind, InstallHandlers, SpawnWorker, NextJob
<1>3. CASE LoopTest \/ AfterSleep \/ UpdateDisplay \/ Decide \/ StopWorkers
  BY <1>0, <1>3
     DEF LoggerInv, ThreadsInv, Over, Starting, LoopTest, AfterSleep,
         UpdateDisplay, Unwind, Decide, StopWorkers
<1>4. CASE JoinWorker \/ CollectFailures \/ BuildResults \/ LeaveRun
            \/ LeaveDisplay
  BY <1>0, <1>4
     DEF LoggerInv, ThreadsInv, Over, Starting, JoinWorker, NextJob,
         CollectFailures, BuildResults, LeaveRun, LeaveDisplay
<1>5. CASE ExportJson \/ ExportCsv \/ CleanupFiles \/ Catch
  BY <1>0, <1>5
     DEF LoggerInv, ThreadsInv, Over, Starting, ExportJson, Export, Throw,
         ExportCsv, CleanupFiles, Catch
<1>6. CASE AfterRun
  BY <1>0, <1>6 DEF LoggerInv, ThreadsInv, Over, Starting, AfterRun
<1>7. CASE DestroyAggregator
  BY <1>0, <1>7 DEF LoggerInv, ThreadsInv, Over, Starting, DestroyAggregator
<1>8. CASE DestroyWorker
  BY <1>0, <1>8
     DEF LoggerInv, ThreadsInv, Over, Starting, DestroyWorker, NextJob
<1>9. CASE DestroyFiles
  BY <1>0, <1>9 DEF LoggerInv, ThreadsInv, Over, Starting, DestroyFiles
<1>10. CASE AggregatorEnds \/ DeadlinePasses \/ Signal \/ ClickStop
            \/ CloseWindow
  BY <1>0, <1>10
     DEF LoggerInv, ThreadsInv, Over, Starting, AggregatorEnds,
         DeadlinePasses, Signal, ClickStop, CloseWindow
<1>11. ASSUME NEW j \in Jobs, Worker(j) PROVE LoggerInv'
  BY <1>0, <1>11
     DEF LoggerInv, ThreadsInv, Over, Starting, Worker, PassBarrier, Issue,
         Drain, Finish, FailWorker, StopAll
<1>12. CASE UNCHANGED vars
  BY <1>12 DEF LoggerInv, vars
<1> QED
  BY <1>1, <1>2, <1>3, <1>4, <1>5, <1>6, <1>7, <1>8, <1>9, <1>10, <1>11, <1>12
     DEF Next, Main, Ended

\* The part on the terminal.
LEMMA TerminalStep ==
  TypeOK /\ ResultsInv /\ TerminalInv /\ [Next]_vars => TerminalInv'
<1> SUFFICES ASSUME TypeOK, ResultsInv, TerminalInv, [Next]_vars
             PROVE  TerminalInv'
  OBVIOUS
<1> USE RunAssumption
<1> USE DEF aroundRun, givenVars, stopVars, loggingVars, fileVars, prepVars,
            runVars, workerVars, aggregatorVars, scopeVars, outcomeVars,
            termVars, ownVars, othersVars, threadVars
<1>0. screen \in {"normal", "alt"} /\ ui \in {"terminal", "qt"}
  BY DEF TypeOK, TermTypeOK
<1>1. CASE SetupOutputDirectory \/ InitLogging \/ PrecreateFile
            \/ CreateWorker
  BY <1>0, <1>1
     DEF TerminalInv, ResultsInv, InLiveView, Looping, Starting, Measuring,
         Over, SetupOutputDirectory, Throw, InitLogging, PrecreateFile,
         NextJob, CreateWorker
<1>2. CASE InitDisplay \/ StartAggregator \/ InstallHandlers \/ SpawnWorker
  BY <1>0, <1>2
     DEF TerminalInv, ResultsInv, InLiveView, Looping, Starting, Measuring,
         Over, InitDisplay, Throw, OnTerminal, EnterLiveView,
         FirstFrameThrows, Draws, StartAggregator, Unwind, InstallHandlers, SpawnWorker, NextJob
<1>3. CASE LoopTest \/ AfterSleep \/ UpdateDisplay \/ Decide \/ StopWorkers
  BY <1>0, <1>3
     DEF TerminalInv, ResultsInv, InLiveView, Looping, Starting, Measuring,
         Over, LoopTest, AfterSleep, UpdateDisplay, Unwind, OnTerminal,
         DrawFrame, Draws, Decide, StopWorkers
<1>4. CASE JoinWorker \/ CollectFailures
  BY <1>0, <1>4
     DEF TerminalInv, ResultsInv, InLiveView, Looping, Starting, Measuring,
         Over, JoinWorker, NextJob, CollectFailures
<1>5. CASE BuildResults
  BY <1>0, <1>5
     DEF TerminalInv, ResultsInv, InLiveView, Looping, Starting, Measuring,
         Over, BuildResults, OnTerminal, ShowSummary, LeaveAltScreen, Draws
<1>6. CASE LeaveRun
  BY <1>0, <1>6
     DEF TerminalInv, ResultsInv, InLiveView, Looping, Starting, Measuring,
         Over, LeaveRun
<1>7. CASE LeaveDisplay
  BY <1>0, <1>7
     DEF TerminalInv, ResultsInv, InLiveView, Looping, Starting, Measuring,
         Over, LeaveDisplay, OnTerminal, ShutdownDisplay, LeaveAltScreen
<1>8. CASE ExportJson \/ ExportCsv \/ CleanupFiles \/ Catch
  BY <1>0, <1>8
     DEF TerminalInv, ResultsInv, InLiveView, Looping, Starting, Measuring,
         Over, ExportJson, Export, Throw, ExportCsv, CleanupFiles, Catch
<1>9. CASE AfterRun
  BY <1>0, <1>9
     DEF TerminalInv, ResultsInv, InLiveView, Looping, Starting, Measuring,
         Over, AfterRun
<1>10. CASE DestroyAggregator
  BY <1>0, <1>10
     DEF TerminalInv, ResultsInv, InLiveView, Looping, Starting, Measuring,
         Over, DestroyAggregator
<1>11. CASE DestroyWorker
  BY <1>0, <1>11
     DEF TerminalInv, ResultsInv, InLiveView, Looping, Starting, Measuring,
         Over, DestroyWorker, NextJob
<1>12. CASE DestroyFiles
  BY <1>0, <1>12
     DEF TerminalInv, ResultsInv, InLiveView, Looping, Starting, Measuring,
         Over, DestroyFiles
<1>13. CASE AggregatorEnds \/ DeadlinePasses \/ Signal \/ ClickStop
            \/ CloseWindow
  BY <1>0, <1>13
     DEF TerminalInv, ResultsInv, InLiveView, Looping, Starting, Measuring,
         Over, AggregatorEnds, DeadlinePasses, Signal, ClickStop, CloseWindow
<1>14. ASSUME NEW j \in Jobs, Worker(j) PROVE TerminalInv'
  BY <1>0, <1>14
     DEF TerminalInv, ResultsInv, InLiveView, Looping, Starting, Measuring,
         Over, Worker, PassBarrier, Issue, Drain, Finish, FailWorker, StopAll
<1>15. CASE UNCHANGED vars
  BY <1>15 DEF TerminalInv, vars
<1> QED
  BY <1>1, <1>2, <1>3, <1>4, <1>5, <1>6, <1>7, <1>8, <1>9, <1>10, <1>11,
     <1>12, <1>13, <1>14, <1>15
     DEF Next, Main, Ended

\* The part on the reason for the stop.
LEMMA StopStep == TypeOK /\ StopInv /\ [Next]_vars => StopInv'
<1> SUFFICES ASSUME TypeOK, StopInv, [Next]_vars PROVE StopInv'
  OBVIOUS
<1> USE RunAssumption
<1> USE DEF aroundRun, givenVars, stopVars, loggingVars, fileVars, prepVars,
            runVars, workerVars, aggregatorVars, scopeVars, outcomeVars,
            termVars, ownVars, othersVars, threadVars
<1>0. /\ signals \in Nat
      /\ phase \in [Jobs -> Phases] /\ failed \in [Jobs -> BOOLEAN]
  BY DEF TypeOK
<1>1. CASE SetupOutputDirectory \/ InitLogging \/ PrecreateFile
            \/ CreateWorker
  BY <1>0, <1>1
     DEF StopInv, AnyFailed, ShouldStop, Looping, Starting,
         SetupOutputDirectory, Throw, InitLogging, PrecreateFile, NextJob,
         CreateWorker
<1>2. CASE InitDisplay \/ StartAggregator \/ InstallHandlers \/ SpawnWorker
  BY <1>0, <1>2
     DEF StopInv, AnyFailed, ShouldStop, Looping, Starting, InitDisplay,
         Throw, StartAggregator, Unwind, InstallHandlers, SpawnWorker, NextJob
<1>3. CASE LoopTest
  BY <1>0, <1>3
     DEF StopInv, AnyFailed, ShouldStop, Looping, Starting, LoopTest,
         ShouldStop
<1>4. CASE AfterSleep
  BY <1>0, <1>4
     DEF StopInv, AnyFailed, ShouldStop, Looping, Starting, AfterSleep,
         ShouldStop
<1>5. CASE UpdateDisplay
  BY <1>0, <1>5
     DEF StopInv, AnyFailed, ShouldStop, Looping, Starting, UpdateDisplay,
         Unwind
<1>6. CASE Decide
  BY <1>0, <1>6
     DEF StopInv, AnyFailed, ShouldStop, Looping, Starting, Decide, ShouldStop
<1>7. CASE StopWorkers
  BY <1>0, <1>7
     DEF StopInv, AnyFailed, ShouldStop, Looping, Starting, StopWorkers
<1>8. CASE JoinWorker
  BY <1>0, <1>8
     DEF StopInv, AnyFailed, ShouldStop, Looping, Starting, JoinWorker,
         NextJob
<1>9. CASE CollectFailures
  BY <1>0, <1>9
     DEF StopInv, AnyFailed, ShouldStop, Looping, Starting, CollectFailures
<1>10. CASE BuildResults
  BY <1>0, <1>10
     DEF StopInv, AnyFailed, ShouldStop, Looping, Starting, BuildResults
<1>11. CASE LeaveRun
  BY <1>0, <1>11
     DEF StopInv, AnyFailed, ShouldStop, Looping, Starting, LeaveRun
<1>12. CASE LeaveDisplay
  BY <1>0, <1>12
     DEF StopInv, AnyFailed, ShouldStop, Looping, Starting, LeaveDisplay
<1>13. CASE ExportJson \/ ExportCsv \/ CleanupFiles \/ Catch
  BY <1>0, <1>13
     DEF StopInv, AnyFailed, ShouldStop, Looping, Starting, ExportJson,
         Export, Throw, ExportCsv, CleanupFiles, Catch
<1>14. CASE AfterRun
  BY <1>0, <1>14
     DEF StopInv, AnyFailed, ShouldStop, Looping, Starting, AfterRun
<1>15. CASE DestroyAggregator
  BY <1>0, <1>15
     DEF StopInv, AnyFailed, ShouldStop, Looping, Starting, DestroyAggregator
<1>16. CASE DestroyWorker
  BY <1>0, <1>16
     DEF StopInv, AnyFailed, ShouldStop, Looping, Starting, DestroyWorker,
         NextJob
<1>17. CASE DestroyFiles
  BY <1>0, <1>17
     DEF StopInv, AnyFailed, ShouldStop, Looping, Starting, DestroyFiles
<1>18. CASE AggregatorEnds \/ DeadlinePasses \/ Signal \/ ClickStop
            \/ CloseWindow
  BY <1>0, <1>18
     DEF StopInv, AnyFailed, ShouldStop, Looping, Starting, AggregatorEnds,
         DeadlinePasses, Signal, ClickStop, CloseWindow
<1>19. ASSUME NEW j \in Jobs, Worker(j) PROVE StopInv'
  BY <1>0, <1>19
     DEF StopInv, AnyFailed, ShouldStop, Looping, Starting, Worker,
         PassBarrier, Issue, Drain, Finish, FailWorker, StopAll
<1>20. CASE UNCHANGED vars
  BY <1>20 DEF StopInv, vars, AnyFailed, ShouldStop
<1> QED
  BY <1>1, <1>2, <1>3, <1>4, <1>5, <1>6, <1>7, <1>8, <1>9, <1>10, <1>11,
     <1>12, <1>13, <1>14, <1>15, <1>16, <1>17, <1>18, <1>19, <1>20
     DEF Next, Main, Ended

\* The part on results, files and the exit code.
LEMMA ResultsStep ==
  TypeOK /\ ThreadsInv /\ StopInv /\ ResultsInv /\ [Next]_vars => ResultsInv'
<1> SUFFICES ASSUME TypeOK, ThreadsInv, StopInv, ResultsInv, [Next]_vars
             PROVE  ResultsInv'
  OBVIOUS
<1> USE RunAssumption
<1> USE DEF aroundRun, givenVars, stopVars, loggingVars, fileVars, prepVars,
            runVars, workerVars, aggregatorVars, scopeVars, outcomeVars,
            termVars, ownVars, othersVars, threadVars
<1>0. /\ k \in Jobs /\ rc \in {"none", "success", "failure"}
      /\ phase \in [Jobs -> Phases] /\ failed \in [Jobs -> BOOLEAN]
      /\ output \in [{"summary", "timeseries"} ->
                       {"untouched", "partial", "complete"}]
  BY DEF TypeOK, ExportTypeOK, OutputFiles
<1>1. CASE SetupOutputDirectory \/ InitLogging \/ PrecreateFile
            \/ CreateWorker
  BY <1>0, <1>1
     DEF ResultsInv, ThreadsInv, StopInv, AnyFailed, Looping, Starting,
         Measuring, Over, OutputFiles, SetupOutputDirectory, Throw,
         InitLogging, PrecreateFile, NextJob, CreateWorker
<1>2. CASE InitDisplay \/ StartAggregator \/ InstallHandlers \/ SpawnWorker
  BY <1>0, <1>2
     DEF ResultsInv, ThreadsInv, StopInv, AnyFailed, Looping, Starting,
         Measuring, Over, OutputFiles, InitDisplay, Throw, StartAggregator,
         Unwind, InstallHandlers, SpawnWorker, NextJob
<1>3. CASE LoopTest \/ AfterSleep \/ UpdateDisplay \/ Decide \/ StopWorkers
  BY <1>0, <1>3
     DEF ResultsInv, ThreadsInv, StopInv, AnyFailed, Looping, Starting,
         Measuring, Over, OutputFiles, LoopTest, AfterSleep, UpdateDisplay,
         Unwind, Decide, StopWorkers
<1>4. CASE JoinWorker
  BY <1>0, <1>4
     DEF ResultsInv, ThreadsInv, StopInv, AnyFailed, Looping, Starting,
         Measuring, Over, OutputFiles, JoinWorker, NextJob
<1>5. CASE CollectFailures
  BY <1>0, <1>5
     DEF ResultsInv, ThreadsInv, StopInv, AnyFailed, Looping, Starting,
         Measuring, Over, OutputFiles, CollectFailures
<1>6. CASE BuildResults
  BY <1>0, <1>6
     DEF ResultsInv, ThreadsInv, StopInv, AnyFailed, Looping, Starting,
         Measuring, Over, OutputFiles, BuildResults
<1>7. CASE LeaveRun \/ LeaveDisplay
  BY <1>0, <1>7, ZenonT(60)
     DEF ResultsInv, ThreadsInv, StopInv, AnyFailed, Looping, Starting,
         Measuring, Over, OutputFiles, LeaveRun, LeaveDisplay
<1>8. CASE ExportJson
  BY <1>0, <1>8
     DEF ResultsInv, ThreadsInv, StopInv, AnyFailed, Looping, Starting,
         Measuring, Over, OutputFiles, ExportJson, Export, Throw,
         ExportSucceeds, ExportFails
<1>9. CASE ExportCsv
  BY <1>0, <1>9, ZenonT(60)
     DEF ResultsInv, ThreadsInv, StopInv, AnyFailed, Looping, Starting,
         Measuring, Over, OutputFiles, ExportCsv, Export, Throw,
         ExportSucceeds, ExportFails
<1>10. CASE CleanupFiles
  BY <1>0, <1>10
     DEF ResultsInv, ThreadsInv, StopInv, AnyFailed, Looping, Starting,
         Measuring, Over, OutputFiles, CleanupFiles
<1>11. CASE Catch
  BY <1>0, <1>11
     DEF ResultsInv, ThreadsInv, StopInv, AnyFailed, Looping, Starting,
         Measuring, Over, OutputFiles, Catch
<1>12. CASE AfterRun
  BY <1>0, <1>12
     DEF ResultsInv, ThreadsInv, StopInv, AnyFailed, Looping, Starting,
         Measuring, Over, OutputFiles, AfterRun
<1>13. CASE DestroyAggregator
  BY <1>0, <1>13
     DEF ResultsInv, ThreadsInv, StopInv, AnyFailed, Looping, Starting,
         Measuring, Over, OutputFiles, DestroyAggregator
<1>14. CASE DestroyWorker
  BY <1>0, <1>14
     DEF ResultsInv, ThreadsInv, StopInv, AnyFailed, Looping, Starting,
         Measuring, Over, OutputFiles, DestroyWorker, NextJob
<1>15. CASE DestroyFiles
  BY <1>0, <1>15
     DEF ResultsInv, ThreadsInv, StopInv, AnyFailed, Looping, Starting,
         Measuring, Over, OutputFiles, DestroyFiles
<1>16. CASE AggregatorEnds
  BY <1>0, <1>16
     DEF ResultsInv, ThreadsInv, StopInv, AnyFailed, Looping, Starting,
         Measuring, Over, OutputFiles, AggregatorEnds
<1>17. CASE DeadlinePasses
  BY <1>0, <1>17
     DEF ResultsInv, ThreadsInv, StopInv, AnyFailed, Looping, Starting,
         Measuring, Over, OutputFiles, DeadlinePasses
<1>18. CASE Signal
  BY <1>0, <1>18
     DEF ResultsInv, ThreadsInv, StopInv, AnyFailed, Looping, Starting,
         Measuring, Over, OutputFiles, Signal
<1>19. CASE ClickStop \/ CloseWindow
  <2>1. UNCHANGED <<pc, thrown, rc, phase, failed, aggregator, results,
                    interrupted, deadline, any_worker_failed, output>>
    BY <1>19 DEF ClickStop, CloseWindow
  <2> QED
    BY <2>1 DEF ResultsInv, AnyFailed
<1>20. ASSUME NEW j \in Jobs, Worker(j) PROVE ResultsInv'
  BY <1>0, <1>20
     DEF ResultsInv, ThreadsInv, StopInv, AnyFailed, Looping, Starting,
         Measuring, Over, OutputFiles, Worker, PassBarrier, Issue, Drain,
         Finish, FailWorker, StopAll
<1>21. CASE UNCHANGED vars
  BY <1>21 DEF ResultsInv, vars, AnyFailed
<1> QED
  BY <1>1, <1>2, <1>3, <1>4, <1>5, <1>6, <1>7, <1>8, <1>9, <1>10, <1>11,
     <1>12, <1>13, <1>14, <1>15, <1>16, <1>17, <1>18, <1>19, <1>20, <1>21
     DEF Next, Main, Ended

-----------------------------------------------------------------------------
\* The invariant holds in every state of every run.

\* The orchestrator that was just constructed.
LEMMA InitIInv == Init => IInv
<1> SUFFICES ASSUME Init PROVE IInv
  OBVIOUS
<1>1. FilesInv
  BY DEF Init, PrepInit, FilesInv, Over
<1>2. ThreadsInv
  BY DEF Init, ThreadsInv, Starting, Looping
<1>3. LoggerInv
  BY DEF Init, LoggerInv
<1>4. TerminalInv
  BY DEF Init, TermInit, TerminalInv, InLiveView, Looping
<1>5. StopInv
  BY DEF Init, StopInv
<1>6. ResultsInv
  BY DEF Init, ExportInit, ResultsInv, OutputFiles
<1> QED
  BY TypeInit, <1>1, <1>2, <1>3, <1>4, <1>5, <1>6 DEF IInv

\* Every step of main, of a thread and of the environment keeps IInv.
LEMMA NextIInv == IInv /\ [Next]_vars => IInv'
<1>1. TypeOK /\ [Next]_vars => TypeOK'
  BY TypeCorrectStep
<1> QED
  BY <1>1, FilesStep, ThreadsStep, LoggerStep, TerminalStep, StopStep,
     ResultsStep DEF IInv

\* Type correctness and all the parts, in every state of every run, whatever
\* fails and whoever stops it.
THEOREM Invariance == Spec => []IInv
BY InitIInv, NextIInv, PTL DEF Spec

\* Every variable of a run keeps its type, the display's, the exporter's and
\* the preparator's included, on every way out of Run.
THEOREM TypeCorrect == Spec => []TypeOK
<1>1. IInv => TypeOK
  BY DEF IInv
<1> QED
  BY <1>1, Invariance, PTL

\* What is read, summarised and exported describes a run that is over
\* (RunBenchmark joins the workers and the aggregator before BuildResults).
THEOREM ResultsComeAfterRun == Spec => []ResultsAfterRun
<1>1. IInv => ResultsAfterRun
  BY DEF IInv, ResultsInv, ResultsAfterRun
<1> QED
  BY <1>1, Invariance, PTL

\* The exit code, the label of the summary and the two files agree with what
\* happened, in whatever order failures, signals and the deadline came.
THEOREM OutcomeIsTruthful == Spec => []OutcomeTruthful
<1>1. IInv => OutcomeTruthful
  <2> SUFFICES ASSUME IInv PROVE OutcomeTruthful
    OBVIOUS
  <2>1. rc = "success" =>
          /\ \A file \in OutputFiles : output[file] = "complete"
          /\ \A j \in Jobs : ~failed[j]
    BY DEF IInv, ResultsInv, AnyFailed
  <2>2. ASSUME NEW r \in results
        PROVE  /\ StopLabel(r) = "" => deadline
               /\ StopLabel(r) = "interrupted" =>
                    signals > 0 \/ stop_requested
               /\ StopLabel(r) = "aborted" <=> \E j \in Jobs : failed[j]
    <3>1. /\ r.failed = {j \in Jobs : failed[j]}
          /\ r.interrupted = interrupted
          /\ interrupted \/ deadline
      BY <2>2 DEF IInv, ResultsInv
    <3>2. interrupted => signals > 0 \/ stop_requested \/ AnyFailed
      BY DEF IInv, StopInv
    <3>3. r.failed # {} <=> AnyFailed
      BY <3>1 DEF AnyFailed
    <3>4. (StopLabel(r) = "" => ~AnyFailed /\ ~interrupted)
          /\ (StopLabel(r) = "interrupted" => ~AnyFailed /\ interrupted)
          /\ (StopLabel(r) = "aborted" <=> AnyFailed)
      BY <3>1, <3>3 DEF StopLabel
    <3> QED
      BY <3>1, <3>2, <3>4 DEF AnyFailed
  <2>3. output["timeseries"] # "untouched" =>
          results # {} /\ output["summary"] = "complete"
    BY DEF IInv, ResultsInv
  <2> QED
    BY <2>1, <2>2, <2>3 DEF OutcomeTruthful
<1> QED
  BY <1>1, Invariance, PTL

\* Run() ends in the alternate screen exactly when the first frame threw
\* inside TerminalDisplay::Init; on every other way out, exceptions included,
\* the terminal is back on its normal screen, with the summary of a run that
\* has results and nothing else.
THEOREM TerminalIsRestored == Spec => []TerminalRestored
<1>1. IInv => TerminalRestored
  BY DEF IInv, TerminalInv, TerminalRestored
<1> QED
  BY <1>1, Invariance, PTL

\* FilePreparator never deletes a file that was there before the run, also
\* when several jobs name it.
THEOREM UserFilesAreKept == Spec => []UserFilesKept
<1>1. IInv => UserFilesKept
  BY DEF IInv, FilesInv, UserFilesKept
<1> QED
  BY <1>1, Invariance, PTL

\* When the process ends, the files it recorded as created are gone, or kept
\* on request, through Cleanup or through the destructor.
THEOREM TestFilesAreAsAsked == Spec => []TestFilesAsAsked
<1>1. IInv => TestFilesAsAsked
  BY DEF IInv, FilesInv, TestFilesAsAsked
<1> QED
  BY <1>1, Invariance, PTL

\* No worker is destroyed while the aggregator reads workers, and nothing
\* runs when the orchestrator is gone.
THEOREM ThreadsAreJoinedFirst == Spec => []ThreadsJoinedFirst
<1>1. IInv => ThreadsJoinedFirst
  BY DEF IInv, ThreadsInv, ThreadsJoinedFirst
<1> QED
  BY <1>1, Invariance, PTL

\* Behind a window no destructor throws: the logger is still there whenever
\* an engine with requests in flight is closed.
THEOREM WindowRunsEndCleanly == Spec => []WindowRunEndsCleanly
<1>1. IInv => WindowRunEndsCleanly
  BY DEF IInv, LoggerInv, WindowRunEndsCleanly
<1> QED
  BY <1>1, Invariance, PTL
=============================================================================
