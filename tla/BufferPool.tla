----------------------------- MODULE BufferPool -----------------------------
(***************************************************************************)
(* cfio::BufferPool (telemetry/buffer_pool.{h,cpp}): the fixed set of I/O  *)
(* buffers of one worker.  A slot number is the request id given to the    *)
(* engine, so a slot handed out twice is a duplicate request id and a      *)
(* buffer shared by two I/Os.                                              *)
(*                                                                         *)
(* free_slots_ is a vector used as a stack: Acquire pops its back, Release *)
(* pushes.  in_use_ exists in debug builds only, where the asserts of      *)
(* Acquire and Release read it; it is kept here for every build, because   *)
(* the asserts are what a client must never trip (AcquireOK, ReleaseOK).   *)
(***************************************************************************)
EXTENDS Integers, Sequences

CONSTANT Capacity       \* number of slots: the worker's effective iodepth

ASSUME CapacityAssumption == Capacity \in Nat \ {0}

VARIABLES free_slots,   \* free_slots_: the stack of free slot numbers
          in_use        \* in_use_: per slot, acquired and not yet released

poolVars == <<free_slots, in_use>>

Slots == 0 .. Capacity - 1

\* The constructor pushes the slots in descending order: slot 0 on top.
PoolInit == /\ free_slots = [i \in 1 .. Capacity |-> Capacity - i]
            /\ in_use = [s \in Slots |-> FALSE]

-----------------------------------------------------------------------------
\* The asserts of the two operations.
AcquireOK == free_slots # <<>>
ReleaseOK(slot) == slot \in Slots /\ in_use[slot]

Top == free_slots[Len(free_slots)]

Acquire(slot) ==
  /\ AcquireOK
  /\ slot = Top
  /\ free_slots' = SubSeq(free_slots, 1, Len(free_slots) - 1)
  /\ in_use' = [in_use EXCEPT ![slot] = TRUE]

\* Release of a slot that stays below the slot under it: the free list keeps
\* an entry twice only if a slot is released twice, which ReleaseOK excludes.
Release(slot) ==
  /\ ReleaseOK(slot)
  /\ free_slots' = Append(free_slots, slot)
  /\ in_use' = [in_use EXCEPT ![slot] = FALSE]

PoolNext == \E slot \in Slots : Acquire(slot) \/ Release(slot)

PoolSpec == PoolInit /\ [][PoolNext]_poolVars

-----------------------------------------------------------------------------
PoolTypeOK == /\ free_slots \in Seq(Slots)
              /\ in_use \in [Slots -> BOOLEAN]

\* The free list names each slot at most once, and names exactly the slots
\* that are not in use: no buffer is handed out twice, none is lost.
PoolConsistent ==
  /\ \A i, j \in 1 .. Len(free_slots) :
        free_slots[i] = free_slots[j] => i = j
  /\ \A s \in Slots :
        ~in_use[s] <=> \E i \in 1 .. Len(free_slots) : free_slots[i] = s
=============================================================================
