\* Two jobs, in the terminal or behind a window with Stop and close; every
\* step may fail, starting a thread, updating the display and deleting a file
\* included.  A second signal would at most kill the process.  A run whose workers
\* an exception stranded stops for ever.
SPECIFICATION FairSpec
CONSTANTS Files = {f1, f2}
          N = 2
          UIs = {"terminal", "qt"}
          MayFail = {"setup", "logging", "prepare", "create", "display",
                     "first_frame", "aggregator", "spawn", "update", "export", "worker"}
          MaxSignals = 1
          RemoveMayFail = TRUE
INVARIANTS ResultsAfterRun OutcomeTruthful TerminalRestored UserFilesKept
           TestFilesAsAsked ThreadsJoinedFirst WindowRunEndsCleanly
PROPERTIES RunEndsOrStrands
CHECK_DEADLOCK FALSE
