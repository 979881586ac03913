------------------------------ MODULE Engines ------------------------------
(***************************************************************************)
(* One job's engine of any kind (engine_factory.cpp), with its worker and  *)
(* the kernel, and what a worker may rely on whichever it was given.       *)
(***************************************************************************)
EXTENDS LibaioEngine, IoUringEngine, SyncEngine

vars == <<stateVars, libaioVars, uringVars, syncVars, kind>>

-----------------------------------------------------------------------------
Init == /\ StateInit /\ LibaioInit /\ UringInit /\ SyncInit
        /\ kind \in {"libaio", "io_uring", "sync"}

Libaio == /\ kind = "libaio"
          /\ LibaioNext
          /\ UNCHANGED <<uringVars, syncVars, kind>>

Uring == /\ kind = "io_uring"
         /\ UringNext
         /\ UNCHANGED <<libaioVars, syncVars, kind>>

Sync == /\ kind = "sync"
        /\ SyncNext
        /\ UNCHANGED <<libaioVars, uringVars, kind>>

Caller == /\ BeginPoll \/ \E id \in Ids : Consume(id)
          /\ UNCHANGED <<libaioVars, uringVars, syncVars, kind>>

Kernel == /\ KernelCompletes
          /\ UNCHANGED <<libaioVars, uringVars, syncVars, kind>>

Next == Libaio \/ Uring \/ Sync \/ Caller \/ Kernel

Spec == Init /\ [][Next]_vars

\* A call of the engine in progress makes the step it can make.
Returns == \/ Libaio /\ LibaioReturns
           \/ Uring /\ UringReturns
           \/ Sync /\ SyncPoll

\* The kernel finishes what it was given, and the thread is scheduled.
FairSpec == Spec /\ WF_vars(Returns) /\ WF_vars(Kernel)

-----------------------------------------------------------------------------
\* Properties.

TypeOK == /\ StateTypeOK /\ LibaioTypeOK /\ UringTypeOK /\ SyncTypeOK
          /\ kind \in {"libaio", "io_uring", "sync"}

\* The kernel touches only buffers of requests that are in flight, also in
\* the middle of Close, and none once Close has returned (unless io_uring
\* could not wait): the worker frees the buffers next.
KernelOnlyInFlight ==
  /\ kernel \cup ToSet(events) \subseteq InFlight \/ call = "closed"
  /\ call = "closed" /\ ~drain_failed => kernel = {}

\* What the results say of direct I/O is how the file was opened: the flag is
\* set exactly when O_DIRECT was asked for and granted, and no descriptor
\* stays open behind an engine that was refused its queue, or is closed.
DirectAsGranted ==
  /\ direct_effective <=> open_as = "direct"
  /\ open_as = "direct" => direct
  /\ IsOpen => open_as # "closed"
  /\ call = "closed" => open_as = "closed"

\* A submission within the effective depth never meets the engine's own limits
\* ("iodepth contract violated", "previous completion not yet polled"): there
\* is a free iocb the kernel does not hold, room in the submission ring, or,
\* in a synchronous engine, no completion that was kept and not polled.
LegalSubmitsFit ==
  \A id \in Ids : Submittable(id) =>
    /\ kind = "libaio" => /\ free_iocbs # <<>>
                          /\ \A i \in kernel : iocb_of[i] # Last(free_iocbs)
    /\ kind = "io_uring" => Len(sq) < SqEntries
    /\ kind = "sync" => ~has_completion

\* A call returns, provided every request in flight was handed to the kernel:
\* a poll gets its completion, Close ends with or without the drain.
EngineReturns ==
  /\ call \in {"poll", "drain", "destroy"}
  /\ InFlight \cap ToSet(sq) = {}
  ~> call \in {"idle", "failed", "closed"}

\* Every engine keeps the contract the worker is written against (module
\* EngineIO): each accepted request is returned at most once, with its own
\* direction, success only for a full transfer, nothing invented or lost.
ImplementsEngineIO == Contract!EngineSpec
=============================================================================
