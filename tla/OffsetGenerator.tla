--------------------------- MODULE OffsetGenerator ---------------------------
(***************************************************************************)
(* cfio::OffsetGenerator and cfio::IODirectionDecider: where a worker's    *)
(* next request goes and whether it reads or writes.  A generator is its   *)
(* sequential_offset_; a drawn number is a choice.  Sums wrap at size_t's  *)
(* width, and an offset above off_t's range becomes negative.              *)
(***************************************************************************)
EXTENDS JobConfig

ToOff(n) == IF n >= SizeMod \div 2 THEN n - SizeMod ELSE n

\* faulty variant: the last block is never reached
NextSequentialShort(config, offset) ==
  LET moved == (offset + config.block_size) % SizeMod
  IN  IF (moved + config.block_size) % SizeMod >= config.file_size
      THEN 0 ELSE moved

\* Next, sequential: sequential_offset_ after it returned `offset'.
NextSequential(config, offset) ==
  LET moved == (offset + config.block_size) % SizeMod
  IN  IF (moved + config.block_size) % SizeMod > config.file_size
      THEN 0 ELSE moved

\* Next, random: a number drawn up to the last block, aligned downwards.
RandomOffsets(config) ==
  {(raw \div config.alignment) * config.alignment :
     raw \in 0 .. config.file_size - config.block_size}

\* Next of the decider: a mixed mode draws, with the odds of rwmixread.
Directions(config) ==
  IF config.rw_mode \in {"read", "randread"} THEN {"read"}
  ELSE IF config.rw_mode \in {"write", "randwrite"} THEN {"write"}
  ELSE {d \in {"read", "write"} : \/ d = "read" /\ config.rwmixread > 0
                                  \/ d = "write" /\ config.rwmixread < 100}
=============================================================================
