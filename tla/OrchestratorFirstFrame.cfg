\* The first frame of the live view throws.
SPECIFICATION FairSpec
CONSTANTS Files = {f1}
          N = 1
          UIs = {"terminal"}
          MayFail = {"first_frame"}
          MaxSignals = 0
          RemoveMayFail = FALSE
INVARIANTS TerminalReleased
CHECK_DEADLOCK FALSE
