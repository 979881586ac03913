---------------------------- MODULE EngineState ----------------------------
(***************************************************************************)
(* What the I/O engines (engine/*_engine.cpp) have in common: the requests *)
(* an engine has in flight, the kernel that performs them, and the worker  *)
(* that owns the engine and calls it from one thread.  The worker is the   *)
(* one of module WorkerThread: it submits while the queue has room, polls  *)
(* for at least one completion when something is in flight, consumes the   *)
(* whole batch before it polls again, and after an exception only closes.  *)
(* The kernel performs what it was given in any order and reports each     *)
(* request once; it is external to the code.                               *)
(*                                                                         *)
(* LibaioEngine, IoUringEngine and SyncEngine add the calls.               *)
(***************************************************************************)
EXTENDS EngineFile, Integers, Sequences, FiniteSets, SequencesExt

CONSTANTS Ids,          \* request ids in use
          Depth,        \* iodepth
          BlockSize     \* length of every request

ASSUME EngineAssumption == /\ IsFiniteSet(Ids)
                           /\ Depth \in Nat \ {0}
                           /\ BlockSize \in Nat \ {0}

VARIABLES kind,         \* "libaio", "io_uring" or "sync" (sync and psync)
          call,         \* the call the engine is in
          in_flight,    \* in_flight_: the direction of each such request
          out,          \* completions returned and not yet consumed
          kernel,       \* requests the kernel is performing
          events        \* their completions, as the kernel queued them

queueVars == <<in_flight, out, kernel, events>>
stateVars == <<call, queueVars, fileVars>>

\* Open is "setup" once it has the file; "idle" between calls, "failed" after an
\* exception; Close is "drain" and "destroy", up to "closed".
Calls == {"unopened", "setup", "idle", "poll", "failed", "drain", "destroy", "closed"}

InFlight == {id \in Ids : in_flight[id] # "none"}

IsOpen == call \in {"idle", "poll", "failed"}

Contract == INSTANCE EngineIO WITH
              is_open <- IsOpen,
              outstanding <- IF IsOpen THEN in_flight
                             ELSE [id \in Ids |-> "none"],
              completions <- out

StateTypeOK == /\ FileTypeOK
               /\ call \in Calls
               /\ in_flight \in [Ids -> Contract!Directions \cup {"none"}]
               /\ out \in [Ids -> Contract!Completion
                                    \cup {Contract!NoCompletion}]
               /\ kernel \subseteq Ids
               /\ events \in Seq(Ids)

StateInit == /\ FileInit
             /\ call = "unopened"
             /\ in_flight = [id \in Ids |-> "none"]
             /\ out = [id \in Ids |-> Contract!NoCompletion]
             /\ kernel = {}
             /\ events = <<>>

-----------------------------------------------------------------------------
\* Open opens the file, or throws: the worker is not constructed.
OpensFile(next) ==
  /\ call = "unopened"
  /\ \/ OpenFile /\ call' = next
     \/ UNCHANGED fileVars /\ call' = "closed"
  /\ UNCHANGED queueVars

\* The kernel has no queue to give: Open closes the file again and throws.
SetupThrows ==
  /\ call = "setup"
  /\ CloseFile
  /\ call' = "closed"
  /\ UNCHANGED queueVars

\* What the kernel answers: an errno, or the bytes it moved.
KernelResult == {-1} \cup 0 .. BlockSize

\* faulty variant: any answer that is not an errno is a success
ToCompletionShortIsFine(direction, res) ==
  [direction |-> direction,
   bytes |-> IF res < 0 THEN 0 ELSE res,
   success |-> res >= 0]

\* How every engine turns the kernel's answer into a completion.
ToCompletion(direction, res) ==
  [direction |-> direction,
   bytes |-> IF res < 0 THEN 0 ELSE res,
   success |-> res = BlockSize]

\* The requests without those in ids.
Erase(ids) == [id \in Ids |-> IF id \in ids THEN "none" ELSE in_flight[id]]

\* The first n queued events are taken.
Taken(n) == {events[i] : i \in 1 .. n}
Rest(n) == SubSeq(events, n + 1, Len(events))

\* EffectiveIODepth: a synchronous engine is given one request at a time.
EffectiveDepth == IF kind = "sync" THEN 1 ELSE Depth

\* A request the worker may submit: there is room, and its buffer is neither
\* in flight nor still being recorded.
Submittable(id) == /\ call = "idle"
                   /\ id \notin InFlight
                   /\ out[id] = Contract!NoCompletion
                   /\ Cardinality(InFlight) < EffectiveDepth

\* PollCompletions(1, iodepth, out) is entered, and blocks until a completion
\* is there.
BeginPoll == /\ call = "idle"
             /\ InFlight # {}
             /\ \A id \in Ids : out[id] = Contract!NoCompletion
             /\ call' = "poll"
             /\ UNCHANGED <<fileVars, queueVars>>

\* The worker has recorded a completion.
Consume(id) == /\ call = "idle"
               /\ UNCHANGED <<fileVars, call, in_flight, kernel, events>>
               /\ Contract!Consume(id)

\* The kernel finishes a request.
KernelCompletes ==
  \E id \in kernel :
    /\ kernel' = kernel \ {id}
    /\ events' = IF call = "closed" THEN events ELSE Append(events, id)
    /\ UNCHANGED <<fileVars, call, in_flight, out>>
=============================================================================
