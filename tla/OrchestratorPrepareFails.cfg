\* Filling a file fails after it was created.
SPECIFICATION Spec
CONSTANTS Files = {f1, f2}
          N = 2
          UIs = {"terminal"}
          MayFail = {"prepare"}
          MaxSignals = 0
          RemoveMayFail = FALSE
INVARIANTS NothingLeftBehind
