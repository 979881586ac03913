--------------------------- MODULE ResultsExporter ---------------------------
(***************************************************************************)
(* cfio::ResultsExporter (reporting/results_exporter.{h,cpp}): the two     *)
(* files a run leaves in its output directory, known by how much of this   *)
(* run they hold.  "untouched" is a file that is not there or that an      *)
(* earlier run left in the same --output-dir; opening truncates it.        *)
(* The operations are used by BenchmarkOrchestrator.                       *)
(***************************************************************************)

VARIABLE output         \* per file: "untouched", "partial" or "complete"

OutputFiles == {"summary", "timeseries"}

ExportTypeOK ==
  output \in [OutputFiles -> {"untouched", "partial", "complete"}]

ExportInit == output = [file \in OutputFiles |-> "untouched"]

\* Open, write, flush: the stream is good at the end.
ExportSucceeds(file) == output' = [output EXCEPT ![file] = "complete"]

\* The open fails, or the state of the stream after the flush tells of a
\* write that did.
ExportFails(file) ==
  output' \in {output, [output EXCEPT ![file] = "partial"]}
=============================================================================
