\* The synchronous loop: an effective iodepth of one.
SPECIFICATION FairSpec
CONSTANTS Capacity = 1
          BlockSize = 2
          MaxIOs = 4
PROPERTIES ImplementsJobLoop
