----------------------------- MODULE SyncEngine -----------------------------
(***************************************************************************)
(* cfio::SyncEngine and cfio::PsyncEngine: SubmitIO performs the call and  *)
(* keeps its completion in the only place there is for PollCompletions.    *)
(***************************************************************************)
EXTENDS EngineState

VARIABLES has_completion,       \* has_completion_
          last_completion       \* last_completion_

syncVars == <<has_completion, last_completion>>

SyncTypeOK == /\ has_completion \in BOOLEAN
              /\ last_completion \in Contract!Completion
                                       \cup {Contract!NoCompletion}

SyncInit == has_completion = FALSE /\ last_completion = Contract!NoCompletion

SyncOpen == OpensFile("idle") /\ UNCHANGED syncVars

\* A failed lseek, an errno, a short transfer or all of it; interrupted calls
\* are repeated.
SyncPerforms(id, direction) ==
  /\ has_completion' = TRUE
  /\ \E res \in KernelResult : last_completion' = ToCompletion(direction, res)
  /\ in_flight' = [in_flight EXCEPT ![id] = direction]
  /\ UNCHANGED <<fileVars, call, out, kernel, events>>

\* "previous completion not yet polled" is a logic_error.
SyncSubmitThrows ==
  /\ call' = "failed"
  /\ UNCHANGED <<fileVars, queueVars, syncVars>>

SyncSubmit(id, direction) ==
  /\ Submittable(id)
  /\ IF has_completion THEN SyncSubmitThrows ELSE SyncPerforms(id, direction)

\* Without a completion the poll returns nothing.
SyncPoll ==
  /\ call = "poll"
  /\ out' = [id \in Ids |-> IF id \in InFlight /\ has_completion
                              THEN last_completion ELSE out[id]]
  /\ in_flight' = IF has_completion THEN Erase(Ids) ELSE in_flight
  /\ has_completion' = FALSE
  /\ call' = "idle"
  /\ UNCHANGED <<fileVars, kernel, events, last_completion>>

SyncClose ==
  /\ call \in {"idle", "failed"}
  /\ in_flight' = Erase(Ids)
  /\ has_completion' = FALSE
  /\ call' = "closed"
  /\ CloseFile
  /\ UNCHANGED <<out, kernel, events, last_completion>>

SyncNext == \/ SyncOpen
            \/ \E id \in Ids, d \in Contract!Directions : SyncSubmit(id, d)
            \/ SyncPoll
            \/ SyncClose
=============================================================================
