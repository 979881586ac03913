\* Every kind of engine with a queue of three.
\* A poll or a drain of requests that io_uring only buffered stops for ever.
SPECIFICATION FairSpec
CONSTANTS Ids = {r1, r2, r3}
          Depth = 3
          BlockSize = 2
          SqEntries = 4
INVARIANTS KernelOnlyInFlight LegalSubmitsFit DirectAsGranted
PROPERTIES EngineReturns ImplementsEngineIO
CHECK_DEADLOCK FALSE
