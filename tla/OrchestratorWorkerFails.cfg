\* A worker fails with requests in flight.
SPECIFICATION Spec
CONSTANTS Files = {f1, f2}
          N = 2
          UIs = {"terminal"}
          MayFail = {"worker"}
          MaxSignals = 0
          RemoveMayFail = FALSE
INVARIANTS NeverTerminates
