---------------------------- MODULE LibaioEngine ----------------------------
(***************************************************************************)
(* cfio::LibaioEngine: Linux AIO.  A request borrows an iocb from a pool   *)
(* of iodepth, which comes back with its event.                            *)
(***************************************************************************)
EXTENDS EngineState

VARIABLES free_iocbs,   \* free_iocbs_, a stack
          iocb_of       \* the iocb of each submitted request, 0 without one

libaioVars == <<free_iocbs, iocb_of>>

Iocbs == 1 .. Depth

LibaioTypeOK == /\ free_iocbs \in Seq(Iocbs)
                /\ iocb_of \in [Ids -> Iocbs \cup {0}]

LibaioInit == free_iocbs = <<>> /\ iocb_of = [id \in Ids |-> 0]

LibaioOpen == OpensFile("setup") /\ UNCHANGED libaioVars

LibaioSetup ==
  \/ /\ call = "setup"
     /\ call' = "idle"
     /\ free_iocbs' = [i \in Iocbs |-> i]
     /\ UNCHANGED <<fileVars, queueVars, iocb_of>>
  \/ SetupThrows /\ UNCHANGED libaioVars

-----------------------------------------------------------------------------
LibaioSubmit(id, direction) ==
  /\ Submittable(id)
  /\ free_iocbs # <<>>
  /\ free_iocbs' = Front(free_iocbs)
  /\ iocb_of' = [iocb_of EXCEPT ![id] = Last(free_iocbs)]
  /\ in_flight' = [in_flight EXCEPT ![id] = direction]
  /\ kernel' = kernel \cup {id}
  /\ UNCHANGED <<fileVars, call, out, events>>

\* io_submit did not take the request: the iocb and the entry are taken back
\* before the exception.  An empty pool is a logic_error.
LibaioSubmitFails(id) ==
  /\ Submittable(id)
  /\ call' = "failed"
  /\ UNCHANGED <<fileVars, queueVars, libaioVars>>

-----------------------------------------------------------------------------
\* faulty variant: a completed request keeps its iocb
IocbsLost(n) == <<>>

\* The iocbs given back by the first n events.
IocbsOf(n) == [i \in 1 .. n |-> iocb_of[events[i]]]

\* io_getevents returns n >= 1 events (min_events is cut to the number of
\* requests in flight).  A nonzero res2 makes any result a failure.
LibaioReap ==
  /\ call = "poll"
  /\ \E n \in 1 .. Len(events) :
       LET known == Taken(n) \cap InFlight IN
       /\ \E res \in [known -> KernelResult], res2 \in [known -> {0, 1}] :
            out' = [id \in Ids |->
                     IF id \notin known THEN out[id]
                     ELSE LET c == ToCompletion(in_flight[id], res[id])
                          IN [c EXCEPT !.success = @ /\ res2[id] = 0]]
       /\ in_flight' = Erase(known)
       /\ free_iocbs' = free_iocbs \o IocbsOf(n)
       /\ iocb_of' = [id \in Ids |-> IF id \in Taken(n) THEN 0
                                     ELSE iocb_of[id]]
       /\ events' = Rest(n)
  /\ call' = "idle"
  /\ UNCHANGED <<fileVars, kernel>>

LibaioPollFails ==
  /\ call = "poll"
  /\ call' = "failed"
  /\ UNCHANGED <<fileVars, queueVars, libaioVars>>

-----------------------------------------------------------------------------
LibaioClose ==
  /\ call \in {"idle", "failed"}
  /\ call' = IF InFlight = {} THEN "destroy" ELSE "drain"
  /\ UNCHANGED <<fileVars, queueVars, libaioVars>>

LibaioDrain ==
  /\ call = "drain"
  /\ \E n \in 1 .. Len(events) :
       /\ in_flight' = Erase(Taken(n))
       /\ events' = Rest(n)
  /\ call' = IF \A id \in Ids : in_flight'[id] = "none" THEN "destroy"
                                                        ELSE "drain"
  /\ UNCHANGED <<fileVars, out, kernel, libaioVars>>

\* Five seconds are over, or io_getevents fails: the rest is cancelled, which
\* at most makes the kernel finish it sooner.
LibaioDrainGivesUp ==
  /\ call = "drain"
  /\ call' = "destroy"
  /\ UNCHANGED <<fileVars, queueVars, libaioVars>>

\* io_destroy returns when the kernel has finished every request of the
\* context (external); then everything is cleared.
LibaioDestroy ==
  /\ call = "destroy"
  /\ kernel = {}
  /\ call' = "closed"
  /\ CloseFile
  /\ in_flight' = Erase(Ids)
  /\ events' = <<>>
  /\ free_iocbs' = <<>>
  /\ iocb_of' = [id \in Ids |-> 0]
  /\ UNCHANGED <<out, kernel>>

\* What a call in progress does when it is due; it may also fail.
LibaioReturns == \/ LibaioReap
                 \/ LibaioDrain \/ LibaioDrainGivesUp \/ LibaioDestroy

LibaioNext == \/ LibaioOpen \/ LibaioSetup
              \/ \E id \in Ids, d \in Contract!Directions : LibaioSubmit(id, d)
              \/ \E id \in Ids : LibaioSubmitFails(id)
              \/ LibaioClose
              \/ LibaioReturns
              \/ LibaioPollFails
=============================================================================
