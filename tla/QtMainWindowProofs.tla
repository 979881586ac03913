-------------------------- MODULE QtMainWindowProofs --------------------------
(***************************************************************************)
(* The window of a run shows its results and misses no publication, for    *)
(* every number of snapshots and every interleaving of the benchmark's     *)
(* thread, the ticks and the clicks.                                       *)
(*                                                                         *)
(* The argument has two halves.  Of the mailbox: the sequence number lags  *)
(* the snapshots by the publication that holds the mutex, and the phase is *)
(* "finished" only when the results, if any, are there.  Of the tick: what *)
(* it read at one step still says something at the next - a sequence read  *)
(* earlier is not newer than the snapshot copied later, and a phase read   *)
(* as finished means that the sequence, the context and the results read   *)
(* later are the last ones.                                                *)
(***************************************************************************)
EXTENDS QtMainWindow, TLAPS

\* The benchmark's thread will publish nothing more.
Quiet == run_pc \in {"shutdown", "returned", "ended"}

\* The mailbox against the thread that fills it.
MailboxInv ==
  /\ locked <=> run_pc \in {"bump", "bump_last"}
  /\ latest = updates
  /\ run_pc = "bump" => sequence = updates - 1
  /\ run_pc \in {"preparing", "init", "loop", "summary", "bump_last"} =>
       sequence = updates
  /\ Quiet => sequence \in {updates, updates + 1}
  /\ run_pc \notin {"bump_last", "shutdown", "returned", "ended"} =>
       published = NoResults /\ phase # "finished"
  /\ run_pc = "preparing" => ~runtime_seconds
  /\ run_pc = "init" \/ runtime_seconds => context \/ header
  /\ ~finished => results = published

\* The tick against the mailbox it reads.
TickInv ==
  /\ finished <=> summary # "none"
  /\ finished => gui_pc \in {"events", "join", "exited"}
  /\ finished => tick_phase = "finished"
  /\ tick_phase = "finished" => Quiet /\ phase = "finished"
  /\ tick_phase = "finished" /\ gui_pc \in {"copy", "apply"} =>
       tick_sequence = sequence
  /\ (tick_phase = "finished" /\ gui_pc = "finish") \/ finished =>
       last_sequence = sequence
  /\ \/ tick_phase = "finished"
        /\ gui_pc \in {"progress", "sequence", "copy", "apply", "finish"}
     \/ finished
     => (runtime_seconds => header)
  /\ tick_sequence <= sequence /\ last_sequence <= sequence
  /\ gui_pc \in {"copy", "apply"} => last_sequence < tick_sequence
  /\ Len(history) <= last_sequence \/ (finished /\ Len(history) = 2)
  /\ gui_pc = "apply" =>
       \A n \in 1 .. updates : n <= tick_sequence => sample >= n


-----------------------------------------------------------------------------
\* Typing, the flags apart.

FlagsOK == /\ locked \in BOOLEAN /\ context \in BOOLEAN
           /\ runtime_seconds \in BOOLEAN /\ stop_requested \in BOOLEAN
           /\ header \in BOOLEAN /\ clock \in BOOLEAN

ShapesOK ==
  /\ latest \in Snapshots /\ sample \in Snapshots
  /\ results \in SomeResults \cup {NoResults}
  /\ published \in SomeResults \cup {NoResults}
  /\ phase \in Phases /\ tick_phase \in Phases
  /\ sequence \in Nat /\ tick_sequence \in Nat /\ last_sequence \in Nat
  /\ updates \in 0 .. MaxUpdates
  /\ run_pc \in {"preparing", "init", "loop", "bump", "summary", "bump_last",
                 "shutdown", "returned", "ended"}
  /\ gui_pc \in {"events", "context", "progress", "sequence", "copy", "apply",
                 "finish", "join", "exited"}
  /\ history \in Seq(Snapshots \cup SeriesRows)
  /\ progress \in {"preparing", "zero", "elapsed"}
  /\ summary \in {"none", "results", "no_results"}
  /\ stop_button \in {"stop", "disabled", "close"}

IInv == /\ FlagsOK /\ ShapesOK /\ MailboxInv /\ TickInv
        /\ ResultsShown /\ NothingMissed

\* Every step keeps the flags Boolean.
LEMMA FlagTypes ==
  FlagsOK /\ [WindowNext]_guiVars => FlagsOK'
<1> SUFFICES ASSUME FlagsOK, [WindowNext]_guiVars
             PROVE  FlagsOK'
  OBVIOUS
<1> USE MailboxAssumption DEF mailboxVars, runVars, tickVars, windowVars
<1>1. CASE RunPrepares
  BY <1>1 DEF FlagsOK, RunPrepares, PublishContext
<1>2. CASE RunInits
  BY <1>2 DEF FlagsOK, RunInits, SetRuntime
<1>3. CASE RunUpdates
  BY <1>3 DEF FlagsOK, RunUpdates, StoreSnapshot
<1>4. CASE RunLeavesLoop
  BY <1>4 DEF FlagsOK, RunLeavesLoop
<1>5. CASE RunSummarises
  BY <1>5 DEF FlagsOK, RunSummarises, StoreResults
<1>6. CASE RunBumps
  BY <1>6 DEF FlagsOK, RunBumps, BumpSequence
<1>7. CASE RunThrows
  BY <1>7 DEF FlagsOK, RunThrows
<1>8. CASE RunShutsDown
  BY <1>8 DEF FlagsOK, RunShutsDown, MarkShutdown
<1>9. CASE RunReturns
  BY <1>9 DEF FlagsOK, RunReturns, MarkShutdown
<1>10. CASE TickPhase
  BY <1>10 DEF FlagsOK, TickPhase
<1>11. CASE TickContext
  BY <1>11 DEF FlagsOK, TickContext, TakeContext
<1>12. CASE TickProgress
  BY <1>12 DEF FlagsOK, TickProgress
<1>13. CASE TickSequence
  BY <1>13 DEF FlagsOK, TickSequence
<1>14. CASE TickCopy
  BY <1>14 DEF FlagsOK, TickCopy
<1>15. CASE ApplySnapshot
  BY <1>15 DEF FlagsOK, ApplySnapshot
<1>16. CASE TickFinish
  BY <1>16 DEF FlagsOK, TickFinish, TakeResults
<1>17. CASE OnStopClicked
  BY <1>17 DEF FlagsOK, OnStopClicked, RequestStop
<1>18. CASE CloseEvent
  BY <1>18 DEF FlagsOK, CloseEvent, RequestStop
<1>19. CASE JoinRun
  BY <1>19 DEF FlagsOK, JoinRun
<1>20. CASE UNCHANGED guiVars
  BY <1>20 DEF FlagsOK, guiVars
<1> QED
  BY <1>1, <1>2, <1>3, <1>4, <1>5, <1>6, <1>7, <1>8, <1>9, <1>10, <1>11,
     <1>12, <1>13, <1>14, <1>15, <1>16, <1>17, <1>18, <1>19, <1>20
     DEF WindowNext, Run, OnTick, WindowGone

\* The results that may be published hold a sequence of rows.
LEMMA ResultsHoldRows ==
  ASSUME NEW r \in SomeResults \cup {NoResults}
  PROVE  /\ r.time_series \in Seq(Snapshots \cup SeriesRows)
         /\ r.time_series # <<>> => Len(r.time_series) = 2
<1> DEFINE Rows == Snapshots \cup SeriesRows
           series == [i \in 1 .. 2 |-> MaxUpdates + i]
<1>1. series \in Seq(Rows)
  <2>1. \A i \in 1 .. 2 : MaxUpdates + i \in Rows
    BY MailboxAssumption DEF SeriesRows
  <2> QED
    BY <2>1
<1>2. Len(series) = 2
  OBVIOUS
<1>3. <<>> \in Seq(Rows)
  OBVIOUS
<1>4. r.time_series \in {<<>>, series}
  BY DEF SomeResults, NoResults
<1> QED
  BY <1>1, <1>2, <1>3, <1>4

\* Every step keeps everything else well typed.
LEMMA ShapeTypes ==
  ShapesOK /\ [WindowNext]_guiVars => ShapesOK'
<1> SUFFICES ASSUME ShapesOK, [WindowNext]_guiVars
             PROVE  ShapesOK'
  OBVIOUS
<1> USE MailboxAssumption DEF mailboxVars, runVars, tickVars, windowVars
<1>1. CASE RunPrepares
  BY <1>1 DEF ShapesOK, Phases, RunPrepares, PublishContext
<1>2. CASE RunInits
  BY <1>2 DEF ShapesOK, Phases, RunInits, SetRuntime
<1>3. CASE RunUpdates
  <2>1. updates' \in 0 .. MaxUpdates /\ latest' \in Snapshots
    BY <1>3 DEF ShapesOK, RunUpdates, StoreSnapshot, Snapshots
  <2> QED
    BY <1>3, <2>1 DEF ShapesOK, RunUpdates, StoreSnapshot
<1>4. CASE RunLeavesLoop
  BY <1>4 DEF ShapesOK, Phases, RunLeavesLoop
<1>5. CASE RunSummarises
  BY <1>5 DEF ShapesOK, Phases, RunSummarises, StoreResults
<1>6. CASE RunBumps
  BY <1>6 DEF ShapesOK, RunBumps, BumpSequence
<1>7. CASE RunThrows
  BY <1>7 DEF ShapesOK, Phases, RunThrows
<1>8. CASE RunShutsDown
  BY <1>8 DEF ShapesOK, Phases, RunShutsDown, MarkShutdown
<1>9. CASE RunReturns
  BY <1>9 DEF ShapesOK, Phases, RunReturns, MarkShutdown
<1>10. CASE TickPhase
  BY <1>10 DEF ShapesOK, Phases, TickPhase
<1>11. CASE TickContext
  BY <1>11 DEF ShapesOK, Phases, TickContext, TakeContext
<1>12. CASE TickProgress
  BY <1>12 DEF ShapesOK, Phases, TickProgress
<1>13. CASE TickSequence
  BY <1>13 DEF ShapesOK, Phases, TickSequence
<1>14. CASE TickCopy
  BY <1>14 DEF ShapesOK, Phases, TickCopy
<1>15. CASE ApplySnapshot
  <2>1. history' \in Seq(Snapshots \cup SeriesRows)
    BY <1>15 DEF ShapesOK, ApplySnapshot
  <2> QED
    BY <1>15, <2>1 DEF ShapesOK, ApplySnapshot
<1>16. CASE TickFinish
  <2>1. history' \in Seq(Snapshots \cup SeriesRows)
    BY <1>16, ResultsHoldRows DEF ShapesOK, TickFinish
  <2> QED
    BY <1>16, <2>1 DEF ShapesOK, TickFinish, TakeResults
<1>17. CASE OnStopClicked
  BY <1>17 DEF ShapesOK, Phases, OnStopClicked, RequestStop
<1>18. CASE CloseEvent
  BY <1>18 DEF ShapesOK, Phases, CloseEvent, RequestStop
<1>19. CASE JoinRun
  BY <1>19 DEF ShapesOK, Phases, JoinRun
<1>20. CASE UNCHANGED guiVars
  BY <1>20 DEF ShapesOK, Phases, guiVars
<1> QED
  BY <1>1, <1>2, <1>3, <1>4, <1>5, <1>6, <1>7, <1>8, <1>9, <1>10, <1>11,
     <1>12, <1>13, <1>14, <1>15, <1>16, <1>17, <1>18, <1>19, <1>20
     DEF WindowNext, Run, OnTick, WindowGone

\* The mailbox: a step of either thread keeps what it says of the run.
LEMMA MailboxStep ==
  ShapesOK /\ MailboxInv /\ TickInv /\ [WindowNext]_guiVars => MailboxInv'
<1> SUFFICES ASSUME ShapesOK, MailboxInv, TickInv, [WindowNext]_guiVars
             PROVE  MailboxInv'
  OBVIOUS
<1> USE MailboxAssumption DEF mailboxVars, runVars, tickVars, windowVars
<1>0. /\ updates \in Nat /\ latest \in Nat /\ sample \in Nat
      /\ sequence \in Nat /\ tick_sequence \in Nat /\ last_sequence \in Nat
  BY DEF ShapesOK, Snapshots
<1>1. CASE RunPrepares
  BY <1>0, <1>1
     DEF MailboxInv, TickInv, Quiet, finished, RunPrepares, PublishContext
<1>2. CASE RunInits
  BY <1>0, <1>2 DEF MailboxInv, TickInv, Quiet, finished, RunInits, SetRuntime
<1>3. CASE RunUpdates
  BY <1>0, <1>3
     DEF MailboxInv, TickInv, Quiet, finished, RunUpdates, StoreSnapshot
<1>4. CASE RunLeavesLoop
  BY <1>0, <1>4 DEF MailboxInv, TickInv, Quiet, finished, RunLeavesLoop
<1>5. CASE RunSummarises
  BY <1>0, <1>5
     DEF MailboxInv, TickInv, Quiet, finished, RunSummarises, StoreResults
<1>6. CASE RunBumps
  BY <1>0, <1>6
     DEF MailboxInv, TickInv, Quiet, finished, RunBumps, BumpSequence
<1>7. CASE RunThrows
  BY <1>0, <1>7 DEF MailboxInv, TickInv, Quiet, finished, RunThrows
<1>8. CASE RunShutsDown
  BY <1>0, <1>8
     DEF MailboxInv, TickInv, Quiet, finished, RunShutsDown, MarkShutdown
<1>9. CASE RunReturns
  BY <1>0, <1>9
     DEF MailboxInv, TickInv, Quiet, finished, RunReturns, MarkShutdown
<1>10. CASE TickPhase
  BY <1>0, <1>10 DEF MailboxInv, TickInv, Quiet, finished, TickPhase
<1>11. CASE TickContext
  BY <1>0, <1>11
     DEF MailboxInv, TickInv, Quiet, finished, TickContext, TakeContext
<1>12. CASE TickProgress
  BY <1>0, <1>12 DEF MailboxInv, TickInv, Quiet, finished, TickProgress
<1>13. CASE TickSequence
  BY <1>0, <1>13 DEF MailboxInv, TickInv, Quiet, finished, TickSequence
<1>14. CASE TickCopy
  BY <1>0, <1>14 DEF MailboxInv, TickInv, Quiet, finished, TickCopy
<1>15. CASE ApplySnapshot
  BY <1>0, <1>15 DEF MailboxInv, TickInv, Quiet, finished, ApplySnapshot
<1>16. CASE TickFinish
  BY <1>0, <1>16
     DEF MailboxInv, TickInv, Quiet, finished, TickFinish, TakeResults
<1>17. CASE OnStopClicked
  BY <1>0, <1>17
     DEF MailboxInv, TickInv, Quiet, finished, OnStopClicked, RequestStop
<1>18. CASE CloseEvent
  BY <1>0, <1>18
     DEF MailboxInv, TickInv, Quiet, finished, CloseEvent, RequestStop
<1>19. CASE JoinRun
  BY <1>0, <1>19 DEF MailboxInv, TickInv, Quiet, finished, JoinRun
<1>20. CASE UNCHANGED guiVars
  BY <1>0, <1>20 DEF MailboxInv, TickInv, Quiet, finished, guiVars
<1> QED
  BY <1>1, <1>2, <1>3, <1>4, <1>5, <1>6, <1>7, <1>8, <1>9, <1>10, <1>11,
     <1>12, <1>13, <1>14, <1>15, <1>16, <1>17, <1>18, <1>19, <1>20
     DEF WindowNext, Run, OnTick, WindowGone

\* The tick: what it read stays true of the mailbox as far as it is needed.
LEMMA TickStep ==
  ShapesOK /\ MailboxInv /\ TickInv /\ [WindowNext]_guiVars => TickInv'
<1> SUFFICES ASSUME ShapesOK, MailboxInv, TickInv, [WindowNext]_guiVars
             PROVE  TickInv'
  OBVIOUS
<1> USE MailboxAssumption DEF mailboxVars, runVars, tickVars, windowVars
<1>0. /\ updates \in Nat /\ latest \in Nat /\ sample \in Nat
      /\ sequence \in Nat /\ tick_sequence \in Nat /\ last_sequence \in Nat
  BY DEF ShapesOK, Snapshots
<1>1. CASE RunPrepares
  BY <1>0, <1>1
     DEF MailboxInv, TickInv, Quiet, finished, RunPrepares, PublishContext
<1>2. CASE RunInits
  BY <1>0, <1>2 DEF MailboxInv, TickInv, Quiet, finished, RunInits, SetRuntime
<1>3. CASE RunUpdates
  BY <1>0, <1>3
     DEF MailboxInv, TickInv, Quiet, finished, RunUpdates, StoreSnapshot
<1>4. CASE RunLeavesLoop
  BY <1>0, <1>4 DEF MailboxInv, TickInv, Quiet, finished, RunLeavesLoop
<1>5. CASE RunSummarises
  BY <1>0, <1>5
     DEF MailboxInv, TickInv, Quiet, finished, RunSummarises, StoreResults
<1>6. CASE RunBumps
  BY <1>0, <1>6
     DEF MailboxInv, TickInv, Quiet, finished, RunBumps, BumpSequence
<1>7. CASE RunThrows
  BY <1>0, <1>7 DEF MailboxInv, TickInv, Quiet, finished, RunThrows
<1>8. CASE RunShutsDown
  BY <1>0, <1>8
     DEF MailboxInv, TickInv, Quiet, finished, RunShutsDown, MarkShutdown
<1>9. CASE RunReturns
  BY <1>0, <1>9
     DEF MailboxInv, TickInv, Quiet, finished, RunReturns, MarkShutdown
<1>10. CASE TickPhase
  BY <1>0, <1>10 DEF MailboxInv, TickInv, Quiet, finished, TickPhase
<1>11. CASE TickContext
  BY <1>0, <1>11
     DEF MailboxInv, TickInv, Quiet, finished, TickContext, TakeContext
<1>12. CASE TickProgress
  BY <1>0, <1>12 DEF MailboxInv, TickInv, Quiet, finished, TickProgress
<1>13. CASE TickSequence
  BY <1>0, <1>13 DEF MailboxInv, TickInv, Quiet, finished, TickSequence
<1>14. CASE TickCopy
  BY <1>0, <1>14 DEF MailboxInv, TickInv, Quiet, finished, TickCopy
<1>15. CASE ApplySnapshot
  <2>1. history' = Append(history, sample) /\ Len(history') = Len(history) + 1
    BY <1>15 DEF ShapesOK, ApplySnapshot
  <2> QED
    BY <1>0, <1>15, <2>1 DEF MailboxInv, TickInv, Quiet, finished, ApplySnapshot
<1>16. CASE TickFinish
  <2>1. results.time_series # <<>> => Len(results.time_series) = 2
    BY ResultsHoldRows DEF ShapesOK
  <2> QED
    BY <1>0, <1>16, <2>1
       DEF MailboxInv, TickInv, Quiet, finished, TickFinish, TakeResults
<1>17. CASE OnStopClicked
  BY <1>0, <1>17
     DEF MailboxInv, TickInv, Quiet, finished, OnStopClicked, RequestStop
<1>18. CASE CloseEvent
  BY <1>0, <1>18
     DEF MailboxInv, TickInv, Quiet, finished, CloseEvent, RequestStop
<1>19. CASE JoinRun
  BY <1>0, <1>19 DEF MailboxInv, TickInv, Quiet, finished, JoinRun
<1>20. CASE UNCHANGED guiVars
  BY <1>0, <1>20 DEF MailboxInv, TickInv, Quiet, finished, guiVars
<1> QED
  BY <1>1, <1>2, <1>3, <1>4, <1>5, <1>6, <1>7, <1>8, <1>9, <1>10, <1>11,
     <1>12, <1>13, <1>14, <1>15, <1>16, <1>17, <1>18, <1>19, <1>20
     DEF WindowNext, Run, OnTick, WindowGone

\* The end of the run as the window shows it.
LEMMA ResultsShownStep ==
  ShapesOK /\ MailboxInv /\ TickInv /\ ResultsShown /\ [WindowNext]_guiVars => ResultsShown'
<1> SUFFICES ASSUME ShapesOK, MailboxInv, TickInv, ResultsShown, [WindowNext]_guiVars
             PROVE  ResultsShown'
  OBVIOUS
<1> USE MailboxAssumption DEF mailboxVars, runVars, tickVars, windowVars
<1>0. /\ updates \in Nat /\ latest \in Nat /\ sample \in Nat
      /\ sequence \in Nat /\ tick_sequence \in Nat /\ last_sequence \in Nat
  BY DEF ShapesOK, Snapshots
<1>1. CASE RunPrepares
  BY <1>0, <1>1
     DEF MailboxInv, TickInv, Quiet, finished, ResultsShown, RunPrepares,
         PublishContext
<1>2. CASE RunInits
  BY <1>0, <1>2
     DEF MailboxInv, TickInv, Quiet, finished, ResultsShown, RunInits,
         SetRuntime
<1>3. CASE RunUpdates
  BY <1>0, <1>3
     DEF MailboxInv, TickInv, Quiet, finished, ResultsShown, RunUpdates,
         StoreSnapshot
<1>4. CASE RunLeavesLoop
  BY <1>0, <1>4
     DEF MailboxInv, TickInv, Quiet, finished, ResultsShown, RunLeavesLoop
<1>5. CASE RunSummarises
  BY <1>0, <1>5
     DEF MailboxInv, TickInv, Quiet, finished, ResultsShown, RunSummarises,
         StoreResults
<1>6. CASE RunBumps
  BY <1>0, <1>6
     DEF MailboxInv, TickInv, Quiet, finished, ResultsShown, RunBumps,
         BumpSequence
<1>7. CASE RunThrows
  BY <1>0, <1>7
     DEF MailboxInv, TickInv, Quiet, finished, ResultsShown, RunThrows
<1>8. CASE RunShutsDown
  BY <1>0, <1>8
     DEF MailboxInv, TickInv, Quiet, finished, ResultsShown, RunShutsDown,
         MarkShutdown
<1>9. CASE RunReturns
  BY <1>0, <1>9
     DEF MailboxInv, TickInv, Quiet, finished, ResultsShown, RunReturns,
         MarkShutdown
<1>10. CASE TickPhase
  BY <1>0, <1>10
     DEF MailboxInv, TickInv, Quiet, finished, ResultsShown, TickPhase
<1>11. CASE TickContext
  BY <1>0, <1>11
     DEF MailboxInv, TickInv, Quiet, finished, ResultsShown, TickContext,
         TakeContext
<1>12. CASE TickProgress
  BY <1>0, <1>12
     DEF MailboxInv, TickInv, Quiet, finished, ResultsShown, TickProgress
<1>13. CASE TickSequence
  BY <1>0, <1>13
     DEF MailboxInv, TickInv, Quiet, finished, ResultsShown, TickSequence
<1>14. CASE TickCopy
  BY <1>0, <1>14
     DEF MailboxInv, TickInv, Quiet, finished, ResultsShown, TickCopy
<1>15. CASE ApplySnapshot
  BY <1>0, <1>15
     DEF MailboxInv, TickInv, Quiet, finished, ResultsShown, ApplySnapshot
<1>16. CASE TickFinish
  BY <1>0, <1>16
     DEF MailboxInv, TickInv, Quiet, finished, ResultsShown, TickFinish,
         TakeResults
<1>17. CASE OnStopClicked
  BY <1>0, <1>17
     DEF MailboxInv, TickInv, Quiet, finished, ResultsShown, OnStopClicked,
         RequestStop
<1>18. CASE CloseEvent
  BY <1>0, <1>18
     DEF MailboxInv, TickInv, Quiet, finished, ResultsShown, CloseEvent,
         RequestStop
<1>19. CASE JoinRun
  BY <1>0, <1>19
     DEF MailboxInv, TickInv, Quiet, finished, ResultsShown, JoinRun
<1>20. CASE UNCHANGED guiVars
  BY <1>0, <1>20 DEF MailboxInv, TickInv, Quiet, finished, ResultsShown, guiVars
<1> QED
  BY <1>1, <1>2, <1>3, <1>4, <1>5, <1>6, <1>7, <1>8, <1>9, <1>10, <1>11,
     <1>12, <1>13, <1>14, <1>15, <1>16, <1>17, <1>18, <1>19, <1>20
     DEF WindowNext, Run, OnTick, WindowGone

\* The history the window draws.
LEMMA NothingMissedStep ==
  ShapesOK /\ MailboxInv /\ TickInv /\ NothingMissed /\ [WindowNext]_guiVars => NothingMissed'
<1> SUFFICES ASSUME ShapesOK, MailboxInv, TickInv, NothingMissed, [WindowNext]_guiVars
             PROVE  NothingMissed'
  OBVIOUS
<1> USE MailboxAssumption DEF mailboxVars, runVars, tickVars, windowVars
<1>0. /\ updates \in Nat /\ latest \in Nat /\ sample \in Nat
      /\ sequence \in Nat /\ tick_sequence \in Nat /\ last_sequence \in Nat
  BY DEF ShapesOK, Snapshots
<1>1. CASE RunPrepares
  BY <1>0, <1>1
     DEF MailboxInv, TickInv, Quiet, finished, NothingMissed, RunPrepares,
         PublishContext
<1>2. CASE RunInits
  BY <1>0, <1>2
     DEF MailboxInv, TickInv, Quiet, finished, NothingMissed, RunInits,
         SetRuntime
<1>3. CASE RunUpdates
  BY <1>0, <1>3
     DEF MailboxInv, TickInv, Quiet, finished, NothingMissed, RunUpdates,
         StoreSnapshot
<1>4. CASE RunLeavesLoop
  BY <1>0, <1>4
     DEF MailboxInv, TickInv, Quiet, finished, NothingMissed, RunLeavesLoop
<1>5. CASE RunSummarises
  BY <1>0, <1>5
     DEF MailboxInv, TickInv, Quiet, finished, NothingMissed, RunSummarises,
         StoreResults
<1>6. CASE RunBumps
  BY <1>0, <1>6
     DEF MailboxInv, TickInv, Quiet, finished, NothingMissed, RunBumps,
         BumpSequence
<1>7. CASE RunThrows
  BY <1>0, <1>7
     DEF MailboxInv, TickInv, Quiet, finished, NothingMissed, RunThrows
<1>8. CASE RunShutsDown
  BY <1>0, <1>8
     DEF MailboxInv, TickInv, Quiet, finished, NothingMissed, RunShutsDown,
         MarkShutdown
<1>9. CASE RunReturns
  BY <1>0, <1>9
     DEF MailboxInv, TickInv, Quiet, finished, NothingMissed, RunReturns,
         MarkShutdown
<1>10. CASE TickPhase
  BY <1>0, <1>10
     DEF MailboxInv, TickInv, Quiet, finished, NothingMissed, TickPhase
<1>11. CASE TickContext
  BY <1>0, <1>11
     DEF MailboxInv, TickInv, Quiet, finished, NothingMissed, TickContext,
         TakeContext
<1>12. CASE TickProgress
  BY <1>0, <1>12
     DEF MailboxInv, TickInv, Quiet, finished, NothingMissed, TickProgress
<1>13. CASE TickSequence
  BY <1>0, <1>13
     DEF MailboxInv, TickInv, Quiet, finished, NothingMissed, TickSequence
<1>14. CASE TickCopy
  BY <1>0, <1>14
     DEF MailboxInv, TickInv, Quiet, finished, NothingMissed, TickCopy
<1>15. CASE ApplySnapshot
  BY <1>0, <1>15
     DEF MailboxInv, TickInv, Quiet, finished, NothingMissed, ApplySnapshot
<1>16. CASE TickFinish
  BY <1>0, <1>16
     DEF MailboxInv, TickInv, Quiet, finished, NothingMissed, TickFinish,
         TakeResults
<1>17. CASE OnStopClicked
  BY <1>0, <1>17
     DEF MailboxInv, TickInv, Quiet, finished, NothingMissed, OnStopClicked,
         RequestStop
<1>18. CASE CloseEvent
  BY <1>0, <1>18
     DEF MailboxInv, TickInv, Quiet, finished, NothingMissed, CloseEvent,
         RequestStop
<1>19. CASE JoinRun
  BY <1>0, <1>19
     DEF MailboxInv, TickInv, Quiet, finished, NothingMissed, JoinRun
<1>20. CASE UNCHANGED guiVars
  BY <1>0, <1>20 DEF MailboxInv, TickInv, Quiet, finished, NothingMissed, guiVars
<1> QED
  BY <1>1, <1>2, <1>3, <1>4, <1>5, <1>6, <1>7, <1>8, <1>9, <1>10, <1>11,
     <1>12, <1>13, <1>14, <1>15, <1>16, <1>17, <1>18, <1>19, <1>20
     DEF WindowNext, Run, OnTick, WindowGone

-----------------------------------------------------------------------------
\* The invariant in every state, and the two properties.

\* The invariant holds before the window is shown.
LEMMA InitIInv == WindowInit => IInv
<1> SUFFICES ASSUME WindowInit PROVE IInv
  OBVIOUS
<1> USE MailboxAssumption DEF WindowInit, MailboxInit
<1>1. FlagsOK
  BY Zenon DEF FlagsOK
<1>2. ShapesOK
  BY DEF ShapesOK, Snapshots, Phases
<1>3. MailboxInv
  BY DEF MailboxInv, Quiet, finished
<1>4. TickInv
  BY DEF TickInv, Quiet, finished
<1>5. ResultsShown
  BY DEF ResultsShown, finished
<1>6. NothingMissed
  BY DEF NothingMissed, finished
<1> QED
  BY <1>1, <1>2, <1>3, <1>4, <1>5, <1>6 DEF IInv

\* Every step of the benchmark's thread, the timer and the user keeps IInv.
LEMMA NextIInv == IInv /\ [WindowNext]_guiVars => IInv'
BY FlagTypes, ShapeTypes, MailboxStep, TickStep, ResultsShownStep,
   NothingMissedStep DEF IInv

\* The mailbox and the tick agree in every state.
THEOREM Invariance == WindowSpec => []IInv
BY InitIInv, NextIInv, PTL DEF WindowSpec

\* The counters stay within the bounds of the type invariant: the window keeps
\* at most one sample per publication until the rows of the results replace
\* them (QtMainWindow::ApplySnapshot appends, ApplyResults replaces).
LEMMA IInvTypeOK == IInv => WindowTypeOK
<1> SUFFICES ASSUME IInv PROVE WindowTypeOK
  OBVIOUS
<1>1. FlagsOK /\ ShapesOK /\ MailboxInv /\ TickInv
  BY DEF IInv
<1>2. /\ updates \in 0 .. MaxUpdates /\ sequence \in Nat
      /\ tick_sequence \in Nat /\ last_sequence \in Nat
  BY <1>1 DEF ShapesOK
<1>3. sequence \in 0 .. MaxUpdates + 1
  BY <1>1, <1>2, MailboxAssumption DEF MailboxInv, Quiet, ShapesOK
<1>4. /\ tick_sequence \in 0 .. MaxUpdates + 1
      /\ last_sequence \in 0 .. MaxUpdates + 1
  BY <1>1, <1>2, <1>3, MailboxAssumption DEF TickInv
<1>5. Len(history) <= MaxUpdates + 2
  <2> DEFINE n == Len(history)
  <2>1. n \in Nat
    BY <1>1 DEF ShapesOK
  <2>2. n <= last_sequence \/ n = 2
    BY <1>1 DEF TickInv
  <2> HIDE DEF n
  <2>3. n <= MaxUpdates + 2
    BY <1>4, <2>1, <2>2, MailboxAssumption
  <2> QED
    BY <2>3 DEF n
<1> QED
  BY <1>1, <1>2, <1>3, <1>4, <1>5
     DEF WindowTypeOK, MailboxTypeOK, FlagsOK, ShapesOK

\* The window, its flags and its mailbox stay what their types say, for every
\* bound on the updates.
THEOREM TypeCorrect == WindowSpec => []WindowTypeOK
BY Invariance, IInvTypeOK, PTL

\* A run that published results is shown with exactly those, whatever the
\* order of ShowSummary, Shutdown and the tick (QtMainWindow::OnTick).
THEOREM ResultsAreShown == WindowSpec => []ResultsShown
<1>1. IInv => ResultsShown
  BY DEF IInv
<1> QED
  BY <1>1, Invariance, PTL

\* No publication is lost: a sequence number that was rendered stands for that
\* snapshot or a newer one, and a finished window has rendered the last.
THEOREM NothingIsMissed == WindowSpec => []NothingMissed
<1>1. IInv => NothingMissed
  BY DEF IInv
<1> QED
  BY <1>1, Invariance, PTL
=============================================================================
