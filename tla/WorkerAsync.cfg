\* The asynchronous loop: a queue of three, four requests of two units each.
SPECIFICATION FairSpec
CONSTANTS Capacity = 3
          BlockSize = 2
          MaxIOs = 4
INVARIANTS TypeOK CallsLegal BuffersOwned BuffersOutliveIO DrainedAtEnd
           CountersInOrder
PROPERTIES MessageStable ImplementsJobLoop StopDrains
