\* Job files: sizes of five bits, files up to fifteen bytes, a kilobyte is two.
\* Histograms: two jobs, three buckets of three-bit latencies.
\* Charts: a pixel is whole, a MiB has eight bytes, a microsecond ten
\* nanoseconds.
SPECIFICATION MCSpec
CONSTANTS SizeBits = 5
          Kilo = 2
          IntMax = 127
          JobFiles <- MCJobFiles
          EngineOverrides <- MCOverrides
          DirectOverrides = {{}, {FALSE}}
          JobCount = 2
          BucketCount = 3
          Width = 3
          kP50 = 50
          kP95 = 75
          kP99 = 99
          Latencies = {0, 3, 5}
          MaxRecords = 4
          One = 1000
          MaxPower = 6
          BytesPerMiB = 8
          NsPerUs = 10
          Rows <- MCRows
          MaxRows = 2
          Sizes <- MCSizes
          CharWidth = 7
          CharHeight = 15
INVARIANTS ConfigAsWritten AcceptedJobsConstruct RequestsLegal
           ResultsOrdered AxisReadable PointsInPlot
PROPERTIES SequentialSweep PercentileBracketed
