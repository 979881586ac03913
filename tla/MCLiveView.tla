----------------------------- MODULE MCLiveView -----------------------------
(***************************************************************************)
(* The two ends of the live view in one run of TLC: the thread that        *)
(* samples (MetricsAggregator) or the window that polls (QtMainWindow).    *)
(* They meet in the snapshot the benchmark's thread hands over, which both *)
(* keep atomic; each behaviour is of one end, the other stays at its start.*)
(***************************************************************************)
EXTENDS MetricsAggregator, QtMainWindow

VARIABLE end            \* the end that runs

MCInit == Init /\ WindowInit /\ end \in {"sampling", "window"}

MCNext == /\ \/ end = "sampling" /\ Next /\ UNCHANGED guiVars
             \/ end = "window" /\ WindowNext /\ UNCHANGED vars
          /\ UNCHANGED end

\* Each end's own fairness, while it is the one that runs.
MCFairness ==
  /\ WF_vars(end = "sampling" /\ \E w \in Workers : CountOutcome(w))
  /\ WF_vars(end = "sampling" /\ Sampler)
  /\ WF_vars(end = "sampling" /\ Main)
  /\ WF_guiVars(end = "window" /\ Run)
  /\ WF_guiVars(end = "window" /\ OnTick)
  /\ WF_guiVars(end = "window" /\ JoinRun)

MCSpec == MCInit /\ [][MCNext]_<<vars, guiVars, end>> /\ MCFairness
=============================================================================
