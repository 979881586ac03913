\* A run of two seconds whose threads are late.
SPECIFICATION FairSpec
CONSTANTS Workers = {w1}
          Runtime = 2
          MaxTime = 8
          MaxIOs = 1
INVARIANTS SeriesAsDocumented
