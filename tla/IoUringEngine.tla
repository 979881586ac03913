--------------------------- MODULE IoUringEngine ---------------------------
(***************************************************************************)
(* cfio::IoUringEngine.  A request is an entry (SQE) of the submission     *)
(* ring until io_uring_submit hands it to the kernel.  An entry the kernel *)
(* did not take stays in the ring and is handed over by a later call.      *)
(***************************************************************************)
EXTENDS EngineState

CONSTANT SqEntries      \* entries of the submission ring

\* io_uring_queue_init rounds iodepth up to a power of two (external).
ASSUME RingAssumption == SqEntries \in Nat /\ SqEntries >= Depth

VARIABLES sq,           \* entries not handed over yet, oldest first
          drain_failed  \* history: Close gave up waiting for completions

uringVars == <<sq, drain_failed>>

UringTypeOK == sq \in Seq(Ids) /\ drain_failed \in BOOLEAN

UringInit == sq = <<>> /\ drain_failed = FALSE

UringOpen == OpensFile("setup") /\ UNCHANGED uringVars

UringSetup ==
  /\ \/ /\ call = "setup"
        /\ call' = "idle"
        /\ UNCHANGED <<fileVars, queueVars>>
     \/ SetupThrows
  /\ UNCHANGED uringVars

-----------------------------------------------------------------------------
\* io_uring_submit takes the n oldest entries; with n = 0 the engine warns
\* that the request is buffered.
UringSubmit(id, direction) ==
  /\ Submittable(id)
  /\ Len(sq) < SqEntries
  /\ in_flight' = [in_flight EXCEPT ![id] = direction]
  /\ \E n \in 0 .. Len(sq) + 1 :
       LET ring == Append(sq, id) IN
       /\ kernel' = kernel \cup {ring[i] : i \in 1 .. n}
       /\ sq' = SubSeq(ring, n + 1, Len(ring))
  /\ UNCHANGED <<fileVars, call, out, events, drain_failed>>

\* io_uring_submit fails: the request is forgotten, its entry stays behind.
UringSubmitFails(id) ==
  /\ Submittable(id)
  /\ Len(sq) < SqEntries
  /\ sq' = Append(sq, id)
  /\ call' = "failed"
  /\ UNCHANGED <<fileVars, queueVars, drain_failed>>

-----------------------------------------------------------------------------
\* The wait was for one completion; the batch is what the ring holds then.
\* A completion nobody asked for is skipped.
UringReap ==
  /\ call = "poll"
  /\ \E n \in 1 .. Len(events) :
       LET known == Taken(n) \cap InFlight IN
       /\ \E res \in [known -> KernelResult] :
            out' = [id \in Ids |->
                     IF id \in known THEN ToCompletion(in_flight[id], res[id])
                     ELSE out[id]]
       /\ in_flight' = Erase(known)
       /\ events' = Rest(n)
  /\ call' = "idle"
  /\ UNCHANGED <<fileVars, kernel, uringVars>>

UringPollFails ==
  /\ call = "poll"
  /\ call' = "failed"
  /\ UNCHANGED <<fileVars, queueVars, uringVars>>

-----------------------------------------------------------------------------
\* faulty variants: Close does not drain; the drain leaves the request where
\* it is
UringCloseNoDrain ==
  /\ call \in {"idle", "failed"}
  /\ call' = "destroy"
  /\ UNCHANGED <<fileVars, queueVars, uringVars>>

UringDrainKeepsRequest ==
  /\ call = "drain"
  /\ events # <<>>
  /\ events' = Tail(events)
  /\ UNCHANGED <<fileVars, call, in_flight, out, kernel, uringVars>>

UringClose ==
  /\ call \in {"idle", "failed"}
  /\ call' = IF InFlight = {} THEN "destroy" ELSE "drain"
  /\ UNCHANGED <<fileVars, queueVars, uringVars>>

UringDrain ==
  /\ call = "drain"
  /\ events # <<>>
  /\ in_flight' = Erase({Head(events)})
  /\ events' = Tail(events)
  /\ call' = IF InFlight = {Head(events)} THEN "destroy" ELSE "drain"
  /\ UNCHANGED <<fileVars, out, kernel, uringVars>>

UringDrainFails ==
  /\ call = "drain"
  /\ call' = "destroy"
  /\ drain_failed' = TRUE
  /\ UNCHANGED <<fileVars, queueVars, sq>>

\* io_uring_queue_exit waits for nothing.
UringQueueExit ==
  /\ call = "destroy"
  /\ call' = "closed"
  /\ CloseFile
  /\ in_flight' = Erase(Ids)
  /\ events' = <<>>
  /\ sq' = <<>>
  /\ UNCHANGED <<out, kernel, drain_failed>>

\* What a call in progress does when it is due; a wait may also fail.
UringReturns == UringReap \/ UringDrain \/ UringQueueExit

UringNext == \/ UringOpen \/ UringSetup
             \/ \E id \in Ids, d \in Contract!Directions : UringSubmit(id, d)
             \/ \E id \in Ids : UringSubmitFails(id)
             \/ UringClose
             \/ UringReturns
             \/ UringPollFails \/ UringDrainFails
=============================================================================
