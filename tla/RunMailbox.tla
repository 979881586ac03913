----------------------------- MODULE RunMailbox -----------------------------
(***************************************************************************)
(* cfio::RunMailbox (display/qt/run_mailbox.{h,cpp}): the cell through     *)
(* which the thread that runs the benchmark hands its data to the GUI's    *)
(* thread.  Everything is behind one mutex except the sequence number and  *)
(* the stop request, which are read without it; a publication is therefore *)
(* two steps, the store that takes the mutex and the bump that ends with   *)
(* its release.  An operation under the mutex that touches no atomic is    *)
(* one step.  The operations are used by QtMainWindow.                     *)
(***************************************************************************)
EXTENDS Integers, Sequences

CONSTANT MaxUpdates     \* bound: snapshots published

ASSUME MailboxAssumption == MaxUpdates \in Nat

Phases == {"idle", "running", "finished"}

\* A snapshot is its number, 0 the default-constructed one; the rows of the
\* results have numbers of their own.
Snapshots == 0 .. MaxUpdates
SeriesRows == MaxUpdates + 1 .. MaxUpdates + 2
NoResults == [published |-> FALSE, time_series |-> <<>>]
SomeResults == {[published |-> TRUE, time_series |-> s] :
                  s \in {<<>>, [i \in 1 .. 2 |-> MaxUpdates + i]}}

VARIABLES
  locked,               \* the benchmark's thread holds mutex_
  latest,               \* latest_
  context,              \* context_ has a value
  results,              \* results_, or NoResults
  phase,                \* phase_
  runtime_seconds,      \* runtime_seconds_ is set
  sequence,             \* sequence_
  stop_requested        \* stop_requested_

mailboxVars == <<locked, latest, context, results, phase, runtime_seconds,
                 sequence, stop_requested>>

MailboxTypeOK ==
  /\ locked \in BOOLEAN
  /\ latest \in Snapshots
  /\ context \in BOOLEAN
  /\ results \in SomeResults \cup {NoResults}
  /\ phase \in Phases
  /\ runtime_seconds \in BOOLEAN
  /\ sequence \in 0 .. MaxUpdates + 1
  /\ stop_requested \in BOOLEAN

MailboxInit ==
  /\ locked = FALSE /\ latest = 0 /\ context = FALSE /\ results = NoResults
  /\ phase = "idle" /\ runtime_seconds = FALSE /\ sequence = 0
  /\ stop_requested = FALSE

-----------------------------------------------------------------------------
\* Faulty variant: MarkShutdown drops results nobody has taken yet
MarkShutdownResets ==
  /\ ~locked
  /\ phase' = "finished" /\ results' = NoResults
  /\ UNCHANGED <<locked, latest, context, runtime_seconds, sequence,
                 stop_requested>>

-----------------------------------------------------------------------------
\* The benchmark's thread.

PublishContext ==
  /\ ~locked
  /\ context' = TRUE
  /\ UNCHANGED <<locked, latest, results, phase, runtime_seconds, sequence,
                 stop_requested>>

SetRuntime ==
  /\ ~locked
  /\ runtime_seconds' = TRUE /\ phase' = "running"
  /\ UNCHANGED <<locked, latest, context, results, sequence, stop_requested>>

StoreSnapshot(s) ==
  /\ ~locked /\ locked' = TRUE
  /\ latest' = s
  /\ UNCHANGED <<context, results, phase, runtime_seconds, sequence,
                 stop_requested>>

StoreResults(r) ==
  /\ ~locked /\ locked' = TRUE
  /\ results' = r /\ phase' = "finished"
  /\ UNCHANGED <<latest, context, runtime_seconds, sequence, stop_requested>>

\* The end of PublishSnapshot and PublishResults.
BumpSequence ==
  /\ sequence' = sequence + 1
  /\ locked' = FALSE
  /\ UNCHANGED <<latest, context, results, phase, runtime_seconds,
                 stop_requested>>

MarkShutdown ==
  /\ ~locked
  /\ phase' = "finished"
  /\ UNCHANGED <<locked, latest, context, results, runtime_seconds, sequence,
                 stop_requested>>

-----------------------------------------------------------------------------
\* The GUI's thread.

TakeContext ==
  /\ ~locked
  /\ context' = FALSE
  /\ UNCHANGED <<locked, latest, results, phase, runtime_seconds, sequence,
                 stop_requested>>

TakeResults ==
  /\ ~locked
  /\ results' = NoResults
  /\ UNCHANGED <<locked, latest, context, phase, runtime_seconds, sequence,
                 stop_requested>>

RequestStop ==
  /\ stop_requested' = TRUE
  /\ UNCHANGED <<locked, latest, context, results, phase, runtime_seconds,
                 sequence>>
=============================================================================
