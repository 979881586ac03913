--------------------------- MODULE MCCalculations ---------------------------
(***************************************************************************)
(* The three parts of the program that compute and share nothing, in one   *)
(* run of TLC: a job's setup, the histograms and a sub plot.  Each         *)
(* behaviour is of one of them, the others stay at their start.            *)
(***************************************************************************)
EXTENDS MCJobSetup, MCGraph, Log2Histogram

VARIABLE part           \* the part that runs

\* The start of a part that does not run, one of its initial states.
NoJobFile == /\ format = "json" /\ texts = <<>>
             /\ engine_override = {} /\ direct_override = {}
NoChart == kind = "iops" /\ size = CHOOSE s \in Sizes : TRUE

MCInit == /\ \/ part = "chart" /\ NoJobFile
             \/ part = "histogram" /\ NoChart /\ NoJobFile
             \/ part = "job" /\ NoChart
          /\ HistogramInit /\ GraphInit /\ Init

MCNext ==
  /\ \/ part = "job" /\ Next /\ UNCHANGED <<histogramVars, graphVars>>
     \/ part = "histogram" /\ HistogramNext /\ UNCHANGED <<vars, graphVars>>
     \/ part = "chart" /\ GraphNext /\ UNCHANGED <<vars, histogramVars>>
  /\ UNCHANGED part

MCSpec == MCInit /\ [][MCNext]_<<vars, histogramVars, graphVars, part>>
=============================================================================
