\* A thread cannot be created while another worker waits.
SPECIFICATION FairSpec
CONSTANTS Files = {f1, f2}
          N = 2
          UIs = {"terminal"}
          MayFail = {"spawn"}
          MaxSignals = 0
          RemoveMayFail = FALSE
PROPERTIES RunEnds
CHECK_DEADLOCK FALSE
