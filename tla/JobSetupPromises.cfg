\* One job, with and without O_DIRECT, its queue depth an integer or a float.
SPECIFICATION Spec
CONSTANTS SizeBits = 5
          Kilo = 2
          IntMax = 127
          JobFiles <- DirectFiles
          EngineOverrides <- MCOverrides
          DirectOverrides = {{}, {FALSE}}
INVARIANTS SetupAsDocumented
