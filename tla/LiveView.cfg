\* Two workers, a run long enough for two periodic rows and a last one; three
\* snapshots, with and without results.
SPECIFICATION MCSpec
CONSTANTS Workers = {w1, w2}
          Runtime = 2
          MaxTime = 5
          MaxIOs = 2
          MaxUpdates = 3
INVARIANTS DiffBasisExclusive RowsAddUp SnapshotLag FinalIsExact
           ResultsShown NothingMissed
PROPERTIES DisplayMonotone SamplerEnds WindowLearns
