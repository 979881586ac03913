---------------------------- MODULE QtMainWindow ----------------------------
(***************************************************************************)
(* A run behind the window: cfio::RunQtGui (display/qt/qt_app_runner.cpp), *)
(* cfio::QtDisplay and cfio::QtMainWindow, on the mailbox of RunMailbox.   *)
(*                                                                         *)
(* The benchmark's thread is BenchmarkOrchestrator::Run reduced to its     *)
(* calls of the display; the GUI's thread is its event loop, in which a    *)
(* timer tick polls the mailbox, call by call, and the user clicks Stop or *)
(* closes the window between ticks.                                        *)
(***************************************************************************)
EXTENDS RunMailbox

VARIABLES
  run_pc,               \* where the benchmark's thread is
  updates,              \* snapshots published
  published,            \* history: the results PublishResults was given
  gui_pc,               \* where the GUI's thread is
  tick_phase,           \* OnTick's local phase
  tick_sequence,        \* OnTick's local sequence
  sample,               \* OnTick's copy of the latest snapshot
  last_sequence,        \* last_sequence_
  history,              \* history_
  header,               \* the header shows the run's own context
  clock,                \* clock_ is valid
  progress,             \* what UpdateProgress shows
  summary,              \* what the status line says of the end of the run
  stop_button           \* "stop", "disabled" or "close"

runVars == <<run_pc, updates, published>>
tickVars == <<tick_phase, tick_sequence, sample>>
windowVars == <<last_sequence, history, header, clock, progress, summary,
                stop_button>>
guiVars == <<mailboxVars, runVars, gui_pc, tickVars, windowVars>>

WindowInit ==
  /\ MailboxInit
  /\ run_pc = "preparing" /\ updates = 0 /\ published = NoResults
  /\ gui_pc = "events"
  /\ tick_phase = "idle" /\ tick_sequence = 0 /\ sample = 0
  /\ last_sequence = 0 /\ history = <<>> /\ header = FALSE /\ clock = FALSE
  /\ progress = "preparing" /\ summary = "none" /\ stop_button = "stop"

\* finished_: MarkFinished has run.
finished == stop_button = "close"

-----------------------------------------------------------------------------
\* Faulty variants of steps below.

\* RunQtGui's thread ends with Run
RunReturnsUnmarked ==
  /\ run_pc = "returned"
  /\ run_pc' = "ended"
  /\ UNCHANGED <<mailboxVars, updates, published, gui_pc, tickVars, windowVars>>

\* the end of a tick asks the mailbox for the phase again
TickFinishRereads ==
  /\ gui_pc = "finish"
  /\ ~locked
  /\ IF phase # "finished"
       THEN UNCHANGED <<mailboxVars, history, summary, stop_button>>
       ELSE /\ TakeResults
            /\ summary' = IF results.published THEN "results" ELSE "no_results"
            /\ history' = IF results.time_series # <<>> THEN results.time_series
                                                        ELSE history
            /\ stop_button' = "close"
  /\ gui_pc' = "events"
  /\ UNCHANGED <<runVars, tickVars, last_sequence, header, clock, progress>>

-----------------------------------------------------------------------------
\* The benchmark's thread.

\* Setup: the display is created and initialised, or Run returns early.
RunPrepares ==
  /\ run_pc = "preparing"
  /\ \/ run_pc' = "returned" /\ UNCHANGED mailboxVars
     \/ run_pc' = "init" /\ PublishContext
  /\ UNCHANGED <<updates, published, gui_pc, tickVars, windowVars>>

RunInits ==
  /\ run_pc = "init"
  /\ SetRuntime
  /\ run_pc' = "loop"
  /\ UNCHANGED <<updates, published, gui_pc, tickVars, windowVars>>

\* The main loop goes on, or ends by the deadline or the stop request.
RunUpdates ==
  /\ run_pc = "loop"
  /\ ~stop_requested /\ updates < MaxUpdates
  /\ StoreSnapshot(updates + 1)
  /\ updates' = updates + 1
  /\ run_pc' = "bump"
  /\ UNCHANGED <<published, gui_pc, tickVars, windowVars>>

RunLeavesLoop ==
  /\ run_pc = "loop"
  /\ run_pc' = "summary"
  /\ UNCHANGED <<mailboxVars, updates, published, gui_pc, tickVars, windowVars>>

\* ShowSummary.
RunSummarises ==
  /\ run_pc = "summary"
  /\ \E r \in SomeResults : StoreResults(r) /\ published' = r
  /\ run_pc' = "bump_last"
  /\ UNCHANGED <<updates, gui_pc, tickVars, windowVars>>

RunBumps ==
  /\ run_pc \in {"bump", "bump_last"}
  /\ BumpSequence
  /\ run_pc' = IF run_pc = "bump" THEN "loop" ELSE "shutdown"
  /\ UNCHANGED <<updates, published, gui_pc, tickVars, windowVars>>

\* An exception in RunBenchmark leaves it through the display's scope.
RunThrows ==
  /\ run_pc \in {"init", "loop", "summary"}
  /\ run_pc' = "shutdown"
  /\ UNCHANGED <<mailboxVars, updates, published, gui_pc, tickVars, windowVars>>

\* DisplayScope: Shutdown.
RunShutsDown ==
  /\ run_pc = "shutdown"
  /\ MarkShutdown
  /\ run_pc' = "returned"
  /\ UNCHANGED <<updates, published, gui_pc, tickVars, windowVars>>

\* RunQtGui's thread marks the end whatever Run did.
RunReturns ==
  /\ run_pc = "returned"
  /\ MarkShutdown
  /\ run_pc' = "ended"
  /\ UNCHANGED <<updates, published, gui_pc, tickVars, windowVars>>

Run == \/ RunPrepares \/ RunInits \/ RunUpdates \/ RunLeavesLoop
       \/ RunSummarises \/ RunBumps \/ RunThrows \/ RunShutsDown \/ RunReturns

-----------------------------------------------------------------------------
\* OnTick, one mailbox call at a time.

\* The timer runs until MarkFinished.
TickPhase ==
  /\ gui_pc = "events" /\ ~finished
  /\ ~locked
  /\ tick_phase' = phase
  /\ clock' = (clock \/ phase # "idle")
  /\ gui_pc' = "context"
  /\ UNCHANGED <<mailboxVars, runVars, tick_sequence, sample, last_sequence,
                 history, header, progress, summary, stop_button>>

TickContext ==
  /\ gui_pc = "context"
  /\ ~locked
  /\ IF context THEN TakeContext /\ header' = TRUE
                ELSE UNCHANGED <<mailboxVars, header>>
  /\ gui_pc' = "progress"
  /\ UNCHANGED <<runVars, tickVars, last_sequence, history, clock, progress,
                 summary, stop_button>>

\* UpdateProgress asks for the phase a second time; a run that began since
\* the tick did is shown at zero until the next one.
TickProgress ==
  /\ gui_pc = "progress"
  /\ ~locked
  /\ progress' = IF phase = "idle" THEN "preparing"
                 ELSE IF clock /\ runtime_seconds THEN "elapsed" ELSE "zero"
  /\ gui_pc' = "sequence"
  /\ UNCHANGED <<mailboxVars, runVars, tickVars, last_sequence, history, header,
                 clock, summary, stop_button>>

TickSequence ==
  /\ gui_pc = "sequence"
  /\ tick_sequence' = sequence
  /\ gui_pc' = IF sequence # last_sequence THEN "copy" ELSE "finish"
  /\ UNCHANGED <<mailboxVars, runVars, tick_phase, sample, windowVars>>

TickCopy ==
  /\ gui_pc = "copy"
  /\ ~locked
  /\ sample' = latest
  /\ gui_pc' = "apply"
  /\ UNCHANGED <<mailboxVars, runVars, tick_phase, tick_sequence, windowVars>>

ApplySnapshot ==
  /\ gui_pc = "apply"
  /\ last_sequence' = tick_sequence
  /\ history' = Append(history, sample)
  /\ gui_pc' = "finish"
  /\ UNCHANGED <<mailboxVars, runVars, tickVars, header, clock, progress,
                 summary, stop_button>>

\* The phase of the start of the tick decides; ApplyResults and MarkFinished.
TickFinish ==
  /\ gui_pc = "finish"
  /\ IF tick_phase # "finished"
       THEN UNCHANGED <<mailboxVars, history, summary, stop_button>>
       ELSE /\ TakeResults
            /\ summary' = IF results.published THEN "results" ELSE "no_results"
            /\ history' = IF results.time_series # <<>> THEN results.time_series
                                                        ELSE history
            /\ stop_button' = "close"
  /\ gui_pc' = "events"
  /\ UNCHANGED <<runVars, tickVars, last_sequence, header, clock, progress>>

OnTick == TickPhase \/ TickContext \/ TickProgress \/ TickSequence \/ TickCopy
          \/ ApplySnapshot \/ TickFinish

\* The button: Stop, or Close once the run is over.
OnStopClicked ==
  /\ gui_pc = "events" /\ stop_button = "stop"
  /\ RequestStop
  /\ stop_button' = "disabled"
  /\ UNCHANGED <<runVars, gui_pc, tickVars, last_sequence, history, header,
                 clock, progress, summary>>

\* closeEvent; the last window's closing ends the event loop, after which
\* RunQtGui asks for a stop once more and joins.
CloseEvent ==
  /\ gui_pc = "events"
  /\ RequestStop
  /\ gui_pc' = "join"
  /\ UNCHANGED <<runVars, tickVars, windowVars>>

JoinRun ==
  /\ gui_pc = "join"
  /\ run_pc = "ended"
  /\ gui_pc' = "exited"
  /\ UNCHANGED <<mailboxVars, runVars, tickVars, windowVars>>

\* Nothing more happens: the process is over, or the window waits for a click.
WindowGone ==
  /\ run_pc = "ended" /\ (gui_pc = "exited" \/ (gui_pc = "events" /\ finished))
  /\ UNCHANGED guiVars

WindowNext == \/ Run \/ OnTick \/ OnStopClicked \/ CloseEvent \/ JoinRun
              \/ WindowGone

WindowSpec == WindowInit /\ [][WindowNext]_guiVars

\* Both threads run and the timer fires; clicks are never owed.
WindowFairness == WF_guiVars(Run) /\ WF_guiVars(OnTick) /\ WF_guiVars(JoinRun)

FairWindowSpec == WindowSpec /\ WindowFairness

-----------------------------------------------------------------------------
\* Properties.

WindowTypeOK ==
  /\ MailboxTypeOK
  /\ run_pc \in {"preparing", "init", "loop", "bump", "summary", "bump_last",
                 "shutdown", "returned", "ended"}
  /\ updates \in 0 .. MaxUpdates
  /\ published \in SomeResults \cup {NoResults}
  /\ gui_pc \in {"events", "context", "progress", "sequence", "copy", "apply",
                 "finish", "join", "exited"}
  /\ tick_phase \in Phases /\ tick_sequence \in 0 .. MaxUpdates + 1
  /\ sample \in Snapshots
  /\ last_sequence \in 0 .. MaxUpdates + 1
  /\ history \in Seq(Snapshots \cup SeriesRows)
  /\ Len(history) <= MaxUpdates + 2
  /\ header \in BOOLEAN /\ clock \in BOOLEAN
  /\ progress \in {"preparing", "zero", "elapsed"}
  /\ summary \in {"none", "results", "no_results"}
  /\ stop_button \in {"stop", "disabled", "close"}

\* The window never says that a run ended without results when it had
\* published some, however ShowSummary, Shutdown and the tick interleave, and
\* it shows exactly those.
ResultsShown ==
  finished =>
    /\ summary = IF published.published THEN "results" ELSE "no_results"
    /\ published.time_series # <<>> => history = published.time_series

\* No publication is lost on the window.  One counts as rendered only when
\* that snapshot or a newer one is in the history, so that a sample is late by
\* at most one tick; a window that is finished has rendered the last one, and
\* its header is the run's if the run published one.  This needs the sequence
\* to be read before the snapshot and the phase before everything else.
NothingMissed ==
  /\ summary = "none" =>
       \A n \in 1 .. updates : n <= last_sequence => history[Len(history)] >= n
  /\ finished => /\ last_sequence = sequence
                 /\ runtime_seconds => header

\* A run that has ended, also one that never reached the display, is shown as
\* ended, unless the window is closed first.
WindowLearns == run_pc = "ended" ~> finished \/ gui_pc \in {"join", "exited"}
=============================================================================
