------------------------------- MODULE JobLoop -------------------------------
(***************************************************************************)
(* What a worker thread promises, as its owner sees it, whatever engine it *)
(* uses: a closed loop that keeps at most Depth requests in flight, issues *)
(* none after the run flag was cleared except one it had already decided   *)
(* on, records every request exactly once, and finishes with an empty      *)
(* window unless it failed.  A failed worker clears the run flag itself,   *)
(* so that the other workers stop too.  WorkerThread is shown to implement *)
(* this machine.                                                           *)
(***************************************************************************)
EXTENDS Integers

CONSTANT Depth          \* the largest window, at least 1

VARIABLES running,      \* the run flag shared by all workers
          window,       \* requests accepted and not yet recorded
          accepted,     \* requests accepted so far
          recorded,     \* requests recorded so far
          late,         \* requests accepted after the flag was cleared
          phase         \* "waiting", "issuing", "failed" or "finished"

vars == <<running, window, accepted, recorded, late, phase>>

Init == /\ running = TRUE
        /\ window = 0
        /\ accepted = 0
        /\ recorded = 0
        /\ late = 0
        /\ phase = "waiting"

Begin == /\ phase = "waiting"
         /\ phase' = "issuing"
         /\ UNCHANGED <<running, window, accepted, recorded, late>>

Issue == /\ phase = "issuing"
         /\ window < Depth
         /\ running \/ late = 0
         /\ window' = window + 1
         /\ accepted' = accepted + 1
         /\ late' = IF running THEN late ELSE late + 1
         /\ UNCHANGED <<running, recorded, phase>>

Record == /\ phase = "issuing"
          /\ window > 0
          /\ window' = window - 1
          /\ recorded' = recorded + 1
          /\ UNCHANGED <<running, accepted, late, phase>>

Stop == /\ running
        /\ running' = FALSE
        /\ UNCHANGED <<window, accepted, recorded, late, phase>>

\* Draining: only an empty window ends a loop that has been told to stop.
Finish == /\ phase = "issuing"
          /\ ~running
          /\ window = 0
          /\ phase' = "finished"
          /\ UNCHANGED <<running, window, accepted, recorded, late>>

Fail == /\ phase = "issuing"
        /\ phase' = "failed"
        /\ UNCHANGED <<running, window, accepted, recorded, late>>

\* The failed worker abandons its window and stops everybody.
GiveUp == /\ phase = "failed"
          /\ phase' = "finished"
          /\ running' = FALSE
          /\ UNCHANGED <<window, accepted, recorded, late>>

Next == Begin \/ Issue \/ Record \/ Stop \/ Finish \/ Fail \/ GiveUp

Spec == Init /\ [][Next]_vars
=============================================================================
