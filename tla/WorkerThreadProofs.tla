------------------------- MODULE WorkerThreadProofs -------------------------
(***************************************************************************)
(* Theorems about WorkerThread, for every queue depth, block size and      *)
(* length of the run.                                                      *)
(*                                                                         *)
(* CallsLegal and BuffersOutliveIO are not inductive: that Acquire finds a *)
(* slot depends on how many requests are live, which is what the local     *)
(* variable in_flight counts only if every path of the loops keeps it in   *)
(* step.  IInv adds that accounting (Window), what the worker knows at     *)
(* each point of its code (Places), and the lifetime of the engine and of  *)
(* the buffers (Lifetime).                                                 *)
(***************************************************************************)
EXTENDS WorkerThread, SequenceTheorems, FiniteSetTheorems, TLAPS

-----------------------------------------------------------------------------
(***************************************************************************)
(* Facts about the two operations of the buffer pool, for every capacity:  *)
(* they keep the free list free of duplicates and equal to the set of      *)
(* slots that are not in use, and move its length by one.                  *)
(***************************************************************************)

\* The constructor's free list holds every slot once.
LEMMA PoolInitConsistent ==
  PoolInit => PoolTypeOK /\ PoolConsistent /\ Len(free_slots) = Capacity
<1> SUFFICES ASSUME PoolInit
             PROVE  PoolTypeOK /\ PoolConsistent /\ Len(free_slots) = Capacity
  OBVIOUS
<1> USE CapacityAssumption
<1>1. \A i \in 1 .. Capacity : Capacity - i \in Slots
  BY DEF Slots
<1>2. free_slots \in Seq(Slots) /\ Len(free_slots) = Capacity
  BY <1>1 DEF PoolInit
<1>3. \A i \in 1 .. Len(free_slots) : free_slots[i] = Capacity - i
  BY <1>2 DEF PoolInit
<1>4. PoolTypeOK
  BY <1>2 DEF PoolInit, PoolTypeOK
<1>5. \A s \in Slots : Capacity - s \in 1 .. Len(free_slots)
                       /\ free_slots[Capacity - s] = s
  BY <1>2, <1>3 DEF Slots
<1>6. PoolConsistent
  <2>1. \A i, j \in 1 .. Len(free_slots) :
           free_slots[i] = free_slots[j] => i = j
    BY <1>2, <1>3
  <2>2. \A s \in Slots : ~in_use[s]
    BY DEF PoolInit
  <2> QED
    BY <1>5, <2>1, <2>2 DEF PoolConsistent
<1> QED
  BY <1>2, <1>4, <1>6

\* Acquire hands out a slot that was free, and only that one changes state.
LEMMA AcquireConsistent ==
  ASSUME PoolTypeOK, PoolConsistent, NEW slot, Acquire(slot)
  PROVE  /\ slot \in Slots /\ ~in_use[slot]
         /\ PoolTypeOK' /\ PoolConsistent'
         /\ Len(free_slots') = Len(free_slots) - 1
<1> DEFINE n == Len(free_slots)
<1>1. n \in Nat /\ n > 0 /\ slot = free_slots[n]
  BY DEF PoolTypeOK, Acquire, AcquireOK, Top
<1>2. slot \in Slots
  BY <1>1 DEF PoolTypeOK
<1>3. ~in_use[slot]
  BY <1>1, <1>2 DEF PoolConsistent
<1>4. /\ free_slots' \in Seq(Slots)
      /\ Len(free_slots') = n - 1
      /\ \A i \in 1 .. n - 1 : free_slots'[i] = free_slots[i]
  <2>1. \A i \in 1 .. n - 1 : free_slots[i] \in Slots
    BY <1>1 DEF PoolTypeOK
  <2>2. free_slots' = SubSeq(free_slots, 1, n - 1)
    BY DEF Acquire
  <2>3. n - 1 \in Int /\ 1 \in Int
    BY <1>1
  <2>4. /\ SubSeq(free_slots, 1, n - 1) \in Seq(Slots)
        /\ Len(SubSeq(free_slots, 1, n - 1)) =
             IF 1 <= n - 1 THEN (n - 1) - 1 + 1 ELSE 0
        /\ \A i \in 1 .. (n - 1) - 1 + 1 :
              SubSeq(free_slots, 1, n - 1)[i] = free_slots[1 + i - 1]
    BY <2>1, <2>3, SubSeqProperties
  <2>5. (n - 1) - 1 + 1 = n - 1 /\ (~(1 <= n - 1) => n - 1 = 0)
    BY <1>1
  <2>6. \A i \in 1 .. n - 1 : 1 + i - 1 = i
    BY <1>1
  <2> HIDE DEF n
  <2> QED
    BY <2>2, <2>4, <2>5, <2>6
<1>5. PoolTypeOK'
  BY <1>2, <1>4 DEF PoolTypeOK, Acquire
<1>6. \A s \in Slots : in_use'[s] = IF s = slot THEN TRUE ELSE in_use[s]
  BY DEF PoolTypeOK, Acquire
<1>7. ASSUME NEW i \in 1 .. n - 1, NEW j \in 1 .. n - 1,
             free_slots'[i] = free_slots'[j]
      PROVE  i = j
  BY <1>1, <1>4, <1>7 DEF PoolConsistent
<1>8. ASSUME NEW s \in Slots
      PROVE  ~in_use'[s] <=> \E i \in 1 .. n - 1 : free_slots'[i] = s
  <2>1. CASE s = slot
    <3>1. in_use'[s]
      BY <1>6, <2>1
    <3>2. \A i \in 1 .. n - 1 : free_slots'[i] # slot
      BY <1>1, <1>4 DEF PoolConsistent
    <3> QED
      BY <2>1, <3>1, <3>2
  <2>2. CASE s # slot
    <3>1. in_use'[s] = in_use[s]
      BY <1>6, <2>2
    <3>2. \A i \in 1 .. n : free_slots[i] = s => i \in 1 .. n - 1
      BY <1>1, <2>2
    <3>3. (\E i \in 1 .. n : free_slots[i] = s)
            <=> (\E i \in 1 .. n - 1 : free_slots[i] = s)
      BY <1>1, <3>2
    <3>4. ~in_use[s] <=> \E i \in 1 .. n : free_slots[i] = s
      BY DEF PoolConsistent
    <3> QED
      BY <1>4, <3>1, <3>3, <3>4
  <2> QED
    BY <2>1, <2>2
<1>9. PoolConsistent'
  BY <1>4, <1>7, <1>8 DEF PoolConsistent
<1> QED
  BY <1>2, <1>3, <1>4, <1>5, <1>9

\* Release of a slot in use puts it back, once.
LEMMA ReleaseConsistent ==
  ASSUME PoolTypeOK, PoolConsistent, NEW slot, Release(slot)
  PROVE  /\ PoolTypeOK' /\ PoolConsistent'
         /\ Len(free_slots') = Len(free_slots) + 1
<1> DEFINE n == Len(free_slots)
<1>1. n \in Nat /\ slot \in Slots /\ in_use[slot]
  BY DEF PoolTypeOK, Release, ReleaseOK
<1>2. /\ free_slots' \in Seq(Slots)
      /\ Len(free_slots') = n + 1
      /\ \A i \in 1 .. n : free_slots'[i] = free_slots[i]
      /\ free_slots'[n + 1] = slot
  BY <1>1 DEF PoolTypeOK, Release
<1>3. PoolTypeOK'
  BY <1>1, <1>2 DEF PoolTypeOK, Release
<1>4. \A s \in Slots : in_use'[s] = IF s = slot THEN FALSE ELSE in_use[s]
  BY DEF PoolTypeOK, Release
<1>5. \A i \in 1 .. n : free_slots[i] # slot
  BY <1>1 DEF PoolConsistent
<1>6. ASSUME NEW i \in 1 .. n + 1, NEW j \in 1 .. n + 1,
             free_slots'[i] = free_slots'[j]
      PROVE  i = j
  <2>1. i \in 1 .. n \/ i = n + 1
    BY <1>1
  <2>2. j \in 1 .. n \/ j = n + 1
    BY <1>1
  <2> QED
    BY <1>1, <1>2, <1>5, <1>6, <2>1, <2>2 DEF PoolConsistent
<1>7. ASSUME NEW s \in Slots
      PROVE  ~in_use'[s] <=> \E i \in 1 .. n + 1 : free_slots'[i] = s
  <2>1. CASE s = slot
    <3>1. n + 1 \in 1 .. n + 1
      BY <1>1
    <3> QED
      BY <1>2, <1>4, <2>1, <3>1
  <2>2. CASE s # slot
    <3>1. \A i \in 1 .. n + 1 : i \in 1 .. n \/ i = n + 1
      BY <1>1
    <3>2. \A i \in 1 .. n : i \in 1 .. n + 1
      BY <1>1
    <3>3. (\E i \in 1 .. n + 1 : free_slots'[i] = s)
            <=> (\E i \in 1 .. n : free_slots[i] = s)
      BY <1>2, <2>2, <3>1, <3>2
    <3>4. ~in_use[s] <=> \E i \in 1 .. n : free_slots[i] = s
      BY DEF PoolConsistent
    <3> QED
      BY <1>4, <2>2, <3>3, <3>4
  <2> QED
    BY <2>1, <2>2
<1>8. PoolConsistent'
  BY <1>2, <1>6, <1>7 DEF PoolConsistent
<1> QED
  BY <1>2, <1>3, <1>8

\* A pool used only through calls whose asserts hold never loses a buffer and
\* never hands one out twice, for every capacity.
THEOREM PoolCorrect == PoolSpec => [](PoolTypeOK /\ PoolConsistent)
<1>1. PoolInit => PoolTypeOK /\ PoolConsistent
  BY PoolInitConsistent
<1>2. PoolTypeOK /\ PoolConsistent /\ [PoolNext]_poolVars
        => (PoolTypeOK /\ PoolConsistent)'
  <2>1. CASE UNCHANGED poolVars
    BY <2>1 DEF PoolTypeOK, PoolConsistent, poolVars
  <2>2. CASE PoolNext
    BY <2>2, AcquireConsistent, ReleaseConsistent DEF PoolNext
  <2> QED
    BY <2>1, <2>2
<1> QED
  BY <1>1, <1>2, PTL DEF PoolSpec

-----------------------------------------------------------------------------
(***************************************************************************)
(* The worker.                                                             *)
(***************************************************************************)

\* Free slots and in_flight add up to the capacity, and in_flight counts the
\* requests that are live.
Window == /\ Len(free_slots) + in_flight = Capacity
          /\ is_open => in_flight = Cardinality(Live)

Lifetime ==
  /\ pc = "ctor" => storage /\ \A s \in Slots : ~in_use[s]
  /\ pc \in {"ctor", "unopened", "engine_closed", "destroyed"}
       => Outstanding = {} /\ ~is_open
  /\ pc \notin {"ctor", "unopened", "engine_closed", "destroyed"}
       => is_open /\ storage

AsyncPCs == {"fill_test", "fill_submit", "loop_test", "refill_test",
             "refill_submit"}
SyncPCs == {"sync_test", "sync_submit"}

\* What the worker knows at each point of its code.
Places ==
  /\ pc \in AsyncPCs => ~Synchronous
  /\ pc \in SyncPCs => Synchronous /\ in_flight = 0
  /\ pc \in {"barrier", "ctor"} => in_flight = 0
  /\ pc \in {"ctor", "barrier", "fill_test", "fill_submit", "loop_test",
             "sync_test", "sync_submit", "poll"} => Returned = {}
  /\ pc \in SubmitSites \cup {"refill_test"} => in_flight < Capacity
  /\ Recording => cur \in Returned
  /\ pc = "poll" => in_flight > 0
  /\ pc \in {"loop_test", "each"} /\ ~Synchronous /\ g_running => in_flight > 0
  /\ Synchronous /\ (pc = "each" \/ Recording) => Outstanding = {}

IInv == TypeOK /\ BuffersOwned /\ Window /\ Lifetime /\ Places

-----------------------------------------------------------------------------
\* The sets of requests, step by step.

\* The pool has Capacity slots.
LEMMA SlotsFinite == IsFiniteSet(Slots) /\ Cardinality(Slots) = Capacity
BY CapacityAssumption, FS_Interval DEF Slots

\* There are finitely many requests.
LEMMA LiveFinite ==
  ASSUME Outstanding \subseteq Slots, Returned \subseteq Slots
  PROVE  /\ IsFiniteSet(Live) /\ IsFiniteSet(Outstanding)
         /\ Cardinality(Live) \in Nat /\ Cardinality(Outstanding) \in Nat
         /\ Cardinality(Outstanding) <= Cardinality(Live)
<1>1. IsFiniteSet(Live)
  BY SlotsFinite, FS_Subset DEF Live
<1>2. Outstanding \in SUBSET Live
  BY DEF Live
<1> QED
  BY <1>1, <1>2, FS_Subset, FS_CardinalityType

\* They are slots of the pool.
LEMMA RequestSets == Outstanding \subseteq Slots /\ Returned \subseteq Slots
BY DEF Outstanding, Returned, Engine!Outstanding, Engine!Returned

\* A submission makes one more outstanding.
LEMMA SubmitSets ==
  ASSUME Engine!EngineTypeOK, NEW slot \in Slots,
         NEW direction \in Engine!Directions, Engine!SubmitIO(slot, direction)
  PROVE  /\ Engine!EngineTypeOK'
         /\ Outstanding' = Outstanding \cup {slot}
         /\ Returned' = Returned
         /\ is_open' = is_open
<1>1. /\ outstanding' = [outstanding EXCEPT ![slot] = direction]
      /\ is_open' = is_open /\ completions' = completions
  BY DEF Engine!SubmitIO
<1>2. direction \in {"read", "write"}
  BY DEF Engine!Directions
<1>3. \A s \in Slots : outstanding'[s] =
                         IF s = slot THEN direction ELSE outstanding[s]
  BY <1>1 DEF Engine!EngineTypeOK
<1>4. Engine!EngineTypeOK'
  BY <1>1 DEF Engine!EngineTypeOK
<1>5. Outstanding' = Outstanding \cup {slot}
  BY <1>2, <1>3 DEF Outstanding, Engine!Outstanding
<1>6. Returned' = Returned
  BY <1>1 DEF Returned, Engine!Returned, Engine!NoCompletion
<1> QED
  BY <1>1, <1>4, <1>5, <1>6

\* A poll moves requests from the outstanding to the returned ones.
LEMMA PollSets ==
  ASSUME Engine!EngineTypeOK, NEW ids \in SUBSET Outstanding,
         Engine!PollCompletions(ids)
  PROVE  /\ Engine!EngineTypeOK'
         /\ Outstanding' = Outstanding \ ids
         /\ Returned' = Returned \cup ids
         /\ is_open' = is_open
<1>1. PICK result \in [ids -> Engine!Completion] :
         completions' = [id \in Slots |-> IF id \in ids THEN result[id]
                                          ELSE completions[id]]
  BY DEF Engine!PollCompletions
<1>2. /\ outstanding' = [id \in Slots |-> IF id \in ids THEN "none"
                                          ELSE outstanding[id]]
      /\ is_open' = is_open
  BY DEF Engine!PollCompletions
<1>3. ids \subseteq Slots
  BY RequestSets
<1>4. \A id \in ids : result[id] \in Engine!Completion
  BY <1>1
<1>5. \A id \in ids : result[id] # Engine!NoCompletion
  BY <1>4 DEF Engine!Completion, Engine!NoCompletion, Engine!Directions
<1>6. Engine!EngineTypeOK'
  <2>1. completions' \in [Slots -> Engine!Completion \cup {Engine!NoCompletion}]
    BY <1>1, <1>4 DEF Engine!EngineTypeOK
  <2>2. outstanding' \in [Slots -> Engine!Directions \cup {"none"}]
    BY <1>2 DEF Engine!EngineTypeOK
  <2> QED
    BY <1>2, <2>1, <2>2 DEF Engine!EngineTypeOK, Engine!Completion,
                            Engine!NoCompletion, Engine!Directions
<1>7. Outstanding' = Outstanding \ ids
  BY <1>2 DEF Outstanding, Engine!Outstanding
<1>8. Returned' = Returned \cup ids
  BY <1>1, <1>3, <1>5 DEF Returned, Engine!Returned, Engine!NoCompletion
<1> QED
  BY <1>2, <1>6, <1>7, <1>8

\* A completion the worker has read is gone.
LEMMA ConsumeSets ==
  ASSUME Engine!EngineTypeOK, NEW slot \in Slots, Engine!Consume(slot)
  PROVE  /\ Engine!EngineTypeOK'
         /\ slot \in Returned
         /\ Outstanding' = Outstanding
         /\ Returned' = Returned \ {slot}
         /\ is_open' = is_open
<1>1. /\ completions' = [completions EXCEPT ![slot] = Engine!NoCompletion]
      /\ is_open' = is_open /\ outstanding' = outstanding
      /\ slot \in Returned
  BY DEF Engine!Consume, Returned
<1>2. \A s \in Slots : completions'[s] =
                         IF s = slot THEN Engine!NoCompletion ELSE completions[s]
  BY <1>1 DEF Engine!EngineTypeOK
<1>3. Engine!EngineTypeOK'
  BY <1>1 DEF Engine!EngineTypeOK, Engine!Completion, Engine!NoCompletion,
              Engine!Directions
<1>4. Returned' = Returned \ {slot}
  BY <1>2 DEF Returned, Engine!Returned, Engine!NoCompletion
<1>5. Outstanding' = Outstanding
  BY <1>1 DEF Outstanding, Engine!Outstanding
<1> QED
  BY <1>1, <1>3, <1>4, <1>5

-----------------------------------------------------------------------------
\* Steps that touch neither the pool nor the engine.

\* They keep what is said of the pool and the engine.
LEMMA QuietStep ==
  ASSUME IInv, UNCHANGED <<poolVars, engineVars, in_flight>>
  PROVE  /\ PoolTypeOK' /\ Engine!EngineTypeOK'
         /\ Outstanding' = Outstanding /\ Returned' = Returned
         /\ is_open' = is_open /\ in_flight' = in_flight
         /\ in_use' = in_use
         /\ BuffersOwned' /\ Window'
<1>1. /\ free_slots' = free_slots /\ in_use' = in_use
      /\ is_open' = is_open /\ outstanding' = outstanding
      /\ completions' = completions /\ in_flight' = in_flight
  BY DEF poolVars, engineVars
<1>2. PoolTypeOK' /\ Engine!EngineTypeOK'
  BY <1>1 DEF IInv, TypeOK, PoolTypeOK, Engine!EngineTypeOK
<1>3. Outstanding' = Outstanding /\ Returned' = Returned
  BY <1>1 DEF Outstanding, Returned, Engine!Outstanding, Engine!Returned
<1>4. Live' = Live
  BY <1>3 DEF Live
<1>5. BuffersOwned'
  BY <1>1, <1>3, <1>4 DEF IInv, BuffersOwned, PoolConsistent
<1>6. Window'
  BY <1>1, <1>4 DEF IInv, Window
<1> QED
  BY <1>1, <1>2, <1>3, <1>5, <1>6

\* The tests, the barrier, the exceptions and the counters: only the place of
\* the worker changes, and what it knows there follows from the test.
LEMMA ControlStep ==
  ASSUME IInv,
         \/ PassBarrier \/ FillTest \/ LoopTest \/ RefillTest \/ SyncTest
         \/ SubmitRefused \/ PollThrows \/ EndOfBatch
         \/ StopRun \/ UNCHANGED vars
  PROVE  IInv'
<1>1. UNCHANGED <<poolVars, engineVars, in_flight>>
  BY DEF PassBarrier, FillTest, LoopTest, RefillTest, SyncTest,
         SubmitRefused, PollThrows, EndOfBatch, StopRun, vars
<1>2. /\ PoolTypeOK' /\ Engine!EngineTypeOK'
      /\ Outstanding' = Outstanding /\ Returned' = Returned
      /\ is_open' = is_open /\ in_flight' = in_flight /\ in_use' = in_use
      /\ BuffersOwned' /\ Window'
  BY <1>1, QuietStep
<1>3. /\ UNCHANGED <<cur, counters, failure, storage, history>>
      /\ g_running' \in {g_running, FALSE}
  BY DEF PassBarrier, FillTest, LoopTest, RefillTest, SyncTest,
         SubmitRefused, PollThrows, EndOfBatch, StopRun, vars
<1>4. /\ cur' = cur /\ storage' = storage
      /\ recorded' = recorded /\ iops' = iops /\ bytes' = bytes
      /\ read_errors' = read_errors /\ write_errors' = write_errors
      /\ failed' = failed /\ error_message' = error_message
      /\ accepted' = accepted /\ late' = late
  BY <1>3 DEF counters, failure, history
<1>5. TypeOK /\ Places /\ Lifetime /\ Window
  BY DEF IInv
<1>6. pc' \in PCs
  BY <1>5 DEF PassBarrier, FillTest, LoopTest, RefillTest, SyncTest,
              TestRunning, SubmitRefused, PollThrows, EndOfBatch, StopRun,
              vars, TypeOK, PCs, SubmitSites
<1>7. TypeOK'
  BY <1>2, <1>3, <1>4, <1>5, <1>6 DEF TypeOK
<1>8. Outstanding = {} /\ Returned = {} /\ is_open => in_flight = 0
  <2>1. Outstanding = {} /\ Returned = {} => Cardinality(Live) = 0
    BY FS_EmptySet DEF Live
  <2> QED
    BY <1>5, <2>1 DEF Window
<1>9. /\ PassBarrier => /\ pc = "barrier"
                        /\ pc' = IF Synchronous THEN "sync_test" ELSE "fill_test"
      /\ FillTest => /\ pc = "fill_test"
                     /\ \/ pc' = "fill_submit" /\ in_flight < Capacity
                        \/ pc' = "loop_test" /\ (~g_running \/ ~(in_flight < Capacity))
      /\ LoopTest => /\ pc = "loop_test"
                     /\ \/ pc' = "poll" /\ (g_running \/ in_flight > 0)
                        \/ pc' = "done"
      /\ RefillTest => /\ pc = "refill_test"
                       /\ pc' = "refill_submit" \/ (pc' = "each" /\ ~g_running)
      /\ SyncTest => pc = "sync_test" /\ pc' \in {"sync_submit", "done"}
      /\ SubmitRefused => pc \in SubmitSites /\ pc' = "catch"
      /\ PollThrows => pc = "poll" /\ pc' = "catch"
      /\ EndOfBatch => /\ pc = "each" /\ Returned = {}
                       /\ pc' = IF Synchronous THEN "sync_test" ELSE "loop_test"
      /\ StopRun \/ UNCHANGED vars => pc' = pc
  BY DEF PassBarrier, FillTest, LoopTest, RefillTest, SyncTest, TestRunning,
         SubmitRefused, PollThrows, EndOfBatch, StopRun, vars
<1>10. ~g_running => ~g_running'
  BY <1>3
<1>11. /\ in_flight \in Nat
       /\ ~(in_flight < Capacity) => in_flight > 0
       /\ in_flight = 0 => in_flight < Capacity
  <2>1. in_flight \in 0 .. Capacity
    BY <1>5 DEF TypeOK
  <2> QED
    BY <2>1, CapacityAssumption
<1>12. Lifetime'
  BY <1>2, <1>4, <1>5, <1>9 DEF Lifetime, SubmitSites
<1>13. Places'
  <2>1. CASE PassBarrier
    BY <1>2, <1>5, <1>9, <2>1
       DEF Places, AsyncPCs, SyncPCs, SubmitSites, Recording, Synchronous
  <2>2. CASE FillTest
    BY <1>2, <1>5, <1>9, <1>10, <1>11, <2>2
       DEF Places, AsyncPCs, SyncPCs, SubmitSites, Recording, Synchronous
  <2>3. CASE LoopTest
    BY <1>2, <1>5, <1>9, <1>11, <2>3
       DEF Places, AsyncPCs, SyncPCs, SubmitSites, Recording, Synchronous
  <2>4. CASE RefillTest
    BY <1>2, <1>4, <1>5, <1>9, <1>10, <2>4
       DEF Places, AsyncPCs, SyncPCs, SubmitSites, Recording, Synchronous
  <2>5. CASE SyncTest
    BY <1>2, <1>5, <1>9, <1>11, <2>5
       DEF Places, AsyncPCs, SyncPCs, SubmitSites, Recording, Synchronous
  <2>6. CASE SubmitRefused \/ PollThrows
    BY <1>9, <2>6
       DEF Places, AsyncPCs, SyncPCs, SubmitSites, Recording, Synchronous
  <2>7. CASE EndOfBatch
    <3>1. pc = "each" /\ Returned = {}
      BY <1>9, <2>7
    <3>2. Synchronous => in_flight = 0
      BY <1>5, <1>8, <3>1 DEF Places, Lifetime
    <3> QED
      BY <1>2, <1>5, <1>9, <1>10, <2>7, <3>1, <3>2
       DEF Places, AsyncPCs, SyncPCs, SubmitSites, Recording, Synchronous
  <2>8. CASE StopRun \/ UNCHANGED vars
    BY <1>2, <1>4, <1>5, <1>9, <1>10, <2>8
       DEF Places, AsyncPCs, SyncPCs, SubmitSites, Recording, Synchronous
  <2> QED
    BY <2>1, <2>2, <2>3, <2>4, <2>5, <2>6, <2>7, <2>8
<1> QED
  BY <1>2, <1>7, <1>12, <1>13 DEF IInv

\* The updates of RecordCompletion and RecordFailure before their last step.
LEMMA CountingStep ==
  ASSUME IInv,
         \/ RecordLatency \/ CountIO \/ CountBytes \/ CountError
         \/ StoreMessage \/ SetFailed \/ ClearRunning
  PROVE  IInv'
<1>1. UNCHANGED <<poolVars, engineVars, in_flight>>
  BY DEF RecordLatency, CountIO, CountBytes, CountError, StoreMessage,
         SetFailed, ClearRunning
<1>2. /\ PoolTypeOK' /\ Engine!EngineTypeOK'
      /\ Outstanding' = Outstanding /\ Returned' = Returned
      /\ is_open' = is_open /\ in_flight' = in_flight /\ in_use' = in_use
      /\ BuffersOwned' /\ Window'
  BY <1>1, QuietStep
<1>3. TypeOK /\ Places /\ Lifetime
  BY DEF IInv
<1>4. Recording => completions[cur].bytes \in Nat
  <2>1. completions[cur] \in Engine!Completion \cup {Engine!NoCompletion}
    BY <1>3 DEF TypeOK, Engine!EngineTypeOK
  <2>2. \A c \in Engine!Completion : c.bytes \in Nat
    BY WorkerAssumption DEF Engine!Completion
  <2>3. Engine!NoCompletion.bytes \in Nat
    BY DEF Engine!NoCompletion
  <2> QED
    BY <2>1, <2>2, <2>3
<1>5. /\ cur' \in Slots /\ pc' \in PCs /\ storage' = storage
      /\ failed' \in BOOLEAN /\ error_message' \in {"", "what"}
      /\ accepted' = accepted /\ late' = late
      /\ g_running' \in {g_running, FALSE}
  <2>1. CASE RecordLatency \/ CountIO \/ CountBytes \/ CountError
    BY <1>3, <2>1, RequestSets
       DEF RecordLatency, CountIO, CountBytes, CountError, TypeOK, PCs,
           failure, history
  <2>2. CASE StoreMessage \/ SetFailed \/ ClearRunning
    BY <1>3, <2>2 DEF StoreMessage, SetFailed, ClearRunning, TypeOK, PCs,
                      counters, failure, history
  <2> QED
    BY <2>1, <2>2
<1>6. /\ recorded' \in Nat /\ iops' \in Nat /\ bytes' \in Nat
      /\ read_errors' \in Nat /\ write_errors' \in Nat
  <2>1. /\ recorded \in Nat /\ iops \in Nat /\ bytes \in Nat
        /\ read_errors \in Nat /\ write_errors \in Nat
    BY <1>3 DEF TypeOK
  <2>2. /\ recorded' \in {recorded, recorded + 1}
        /\ iops' \in {iops, iops + 1}
        /\ read_errors' \in {read_errors, read_errors + 1}
        /\ write_errors' \in {write_errors, write_errors + 1}
    BY DEF RecordLatency, CountIO, CountBytes, CountError, StoreMessage,
           SetFailed, ClearRunning, counters
  <2>3. bytes' = bytes \/ (Recording /\ bytes' = bytes + completions[cur].bytes)
    BY DEF RecordLatency, CountIO, CountBytes, CountError, StoreMessage,
           SetFailed, ClearRunning, counters, Recording
  <2> QED
    BY <1>4, <2>1, <2>2, <2>3
<1>7. TypeOK'
  BY <1>2, <1>3, <1>5, <1>6 DEF TypeOK
<1>8. /\ RecordLatency => pc = "each" /\ pc' = "count_io" /\ cur' \in Returned
      /\ CountIO \/ CountBytes \/ CountError =>
           Recording /\ pc' \in {"count_bytes", "count_error", "release"} /\ cur' = cur
      /\ StoreMessage \/ SetFailed \/ ClearRunning =>
           /\ pc \in {"catch", "set_failed", "clear_running"}
           /\ pc' \in {"set_failed", "clear_running", "done"}
  BY DEF RecordLatency, CountIO, CountBytes, CountError, StoreMessage,
         SetFailed, ClearRunning, Recording
<1>9. Lifetime'
  BY <1>2, <1>3, <1>5, <1>8 DEF Lifetime, Recording
<1>10. Places'
  <2>1. CASE RecordLatency
    BY <1>2, <1>3, <1>8, <2>1
       DEF Places, AsyncPCs, SyncPCs, SubmitSites, Recording, Synchronous
  <2>2. CASE CountIO \/ CountBytes \/ CountError
    BY <1>2, <1>3, <1>8, <2>2
       DEF Places, AsyncPCs, SyncPCs, SubmitSites, Recording, Synchronous
  <2>3. CASE StoreMessage \/ SetFailed \/ ClearRunning
    BY <1>8, <2>3
       DEF Places, AsyncPCs, SyncPCs, SubmitSites, Recording, Synchronous
  <2> QED
    BY <2>1, <2>2, <2>3
<1> QED
  BY <1>2, <1>7, <1>9, <1>10 DEF IInv

-----------------------------------------------------------------------------
\* Steps that move a request between the pool, the engine and the batch.

\* SubmitOne: the slot leaves the free list and becomes outstanding.
LEMMA SubmitStep ==
  ASSUME IInv, SubmitAccepted
  PROVE  IInv'
<1>1. PICK slot \in Slots, direction \in Engine!Directions :
         Acquire(slot) /\ Engine!SubmitIO(slot, direction)
  BY DEF SubmitAccepted
<1>2. /\ pc \in SubmitSites
      /\ pc' = IF pc = "fill_submit" THEN "fill_test"
               ELSE IF pc = "refill_submit" THEN "each" ELSE "poll"
      /\ in_flight' = in_flight + 1
      /\ accepted' = accepted + 1
      /\ late' \in {late, late + 1}
      /\ g_running' = g_running /\ cur' = cur /\ storage' = storage
  BY DEF SubmitAccepted, SubmitSites, AfterSubmit
<1>3. /\ recorded' = recorded /\ iops' = iops /\ bytes' = bytes
      /\ read_errors' = read_errors /\ write_errors' = write_errors
      /\ failed' = failed /\ error_message' = error_message
  BY DEF SubmitAccepted, counters, failure
<1>4. TypeOK /\ BuffersOwned /\ Window /\ Lifetime /\ Places
  BY DEF IInv
<1>5. /\ ~in_use[slot]
      /\ PoolTypeOK' /\ PoolConsistent'
      /\ Len(free_slots') = Len(free_slots) - 1
      /\ in_use' = [in_use EXCEPT ![slot] = TRUE]
  BY <1>1, <1>4, AcquireConsistent DEF TypeOK, BuffersOwned, Acquire
<1>6. /\ Engine!EngineTypeOK'
      /\ Outstanding' = Outstanding \cup {slot}
      /\ Returned' = Returned /\ is_open' = is_open
  BY <1>1, <1>4, SubmitSets DEF TypeOK
<1>7. is_open /\ storage
  BY <1>2, <1>4 DEF Lifetime, SubmitSites
<1>8. slot \notin Live
  BY <1>4, <1>5, <1>7 DEF BuffersOwned
<1>9. Live' = Live \cup {slot}
  BY <1>6 DEF Live
<1>10. BuffersOwned'
  <2>1. \A s \in Slots : in_use'[s] <=> s \in Live'
    BY <1>4, <1>5, <1>7, <1>9 DEF BuffersOwned, TypeOK, PoolTypeOK
  <2>2. Outstanding' \cap Returned' = {}
    BY <1>4, <1>6, <1>8 DEF BuffersOwned, Live
  <2> QED
    BY <1>5, <2>1, <2>2 DEF BuffersOwned
<1>11. in_flight \in Nat /\ Len(free_slots) \in Nat /\ in_flight < Capacity
  <2>1. in_flight \in Nat
    <3>1. in_flight \in 0 .. Capacity
      BY <1>4 DEF TypeOK
    <3> QED
      BY <3>1, CapacityAssumption
  <2>2. Len(free_slots) \in Nat
    <3>1. free_slots \in Seq(Slots)
      BY <1>4 DEF TypeOK, PoolTypeOK
    <3> QED
      BY <3>1
  <2>3. in_flight < Capacity
    BY <1>2, <1>4 DEF Places
  <2> QED
    BY <2>1, <2>2, <2>3
<1>12. Window'
  <2>1. Cardinality(Live') = Cardinality(Live) + 1
    BY <1>8, <1>9, LiveFinite, RequestSets, FS_AddElement
  <2>2. Len(free_slots) + in_flight = Capacity /\ in_flight = Cardinality(Live)
    BY <1>4, <1>7 DEF Window
  <2>3. Len(free_slots') + in_flight' = Capacity
    BY <1>2, <1>5, <1>11, <2>2
  <2>4. in_flight' = Cardinality(Live')
    BY <1>2, <2>1, <2>2
  <2> QED
    BY <2>3, <2>4 DEF Window
<1>13. TypeOK'
  <2>1. in_flight' \in 0 .. Capacity
    BY <1>2, <1>11, CapacityAssumption
  <2>2. accepted' \in Nat /\ late' \in Nat
    <3>1. accepted \in Nat /\ late \in Nat
      BY <1>4 DEF TypeOK
    <3> QED
      BY <1>2, <3>1
  <2>3. pc' \in PCs
    BY <1>2 DEF PCs
  <2> QED
    BY <1>2, <1>3, <1>4, <1>5, <1>6, <2>1, <2>2, <2>3 DEF TypeOK
<1>14. Lifetime'
  BY <1>2, <1>6, <1>7 DEF Lifetime
<1>15. Places'
  <2>1. in_flight' > 0
    BY <1>2, <1>11
  <2>2. pc \in {"fill_submit", "sync_submit"} => Returned = {}
    BY <1>4 DEF Places
  <2>3. /\ pc \in {"fill_submit", "refill_submit"} => ~Synchronous
        /\ pc = "sync_submit" => Synchronous
    BY <1>4 DEF Places, AsyncPCs, SyncPCs
  <2> QED
    BY <1>2, <1>6, <2>1, <2>2, <2>3
       DEF Places, AsyncPCs, SyncPCs, SubmitSites, Recording, Synchronous
<1> QED
  BY <1>10, <1>12, <1>13, <1>14, <1>15 DEF IInv

\* PollCompletions: some outstanding requests become the current batch.
LEMMA PollStep ==
  ASSUME IInv, Poll
  PROVE  IInv'
<1>1. /\ pc = "poll" /\ pc' = "each"
      /\ g_running' = g_running /\ cur' = cur /\ storage' = storage
      /\ free_slots' = free_slots /\ in_use' = in_use
      /\ in_flight' = in_flight
  BY DEF Poll, poolVars
<1>2. /\ recorded' = recorded /\ iops' = iops /\ bytes' = bytes
      /\ read_errors' = read_errors /\ write_errors' = write_errors
      /\ failed' = failed /\ error_message' = error_message
      /\ accepted' = accepted /\ late' = late
  BY DEF Poll, counters, failure, history
<1>3. TypeOK /\ BuffersOwned /\ Window /\ Lifetime /\ Places
  BY DEF IInv
<1>4. /\ is_open /\ storage /\ Returned = {} /\ in_flight > 0
  BY <1>1, <1>3 DEF Lifetime, Places
<1>5. Outstanding # {}
  <2>1. in_flight = Cardinality(Live)
    BY <1>3, <1>4 DEF Window
  <2>2. Live # {}
    BY <1>4, <2>1, FS_EmptySet
  <2> QED
    BY <1>4, <2>2 DEF Live
<1>6. PICK ids \in SUBSET Outstanding : Engine!PollCompletions(ids)
  BY <1>5 DEF Poll
<1>7. /\ Engine!EngineTypeOK'
      /\ Outstanding' = Outstanding \ ids
      /\ Returned' = Returned \cup ids
      /\ is_open' = is_open
  BY <1>3, <1>6, PollSets DEF TypeOK
<1>8. Live' = Live
  BY <1>6, <1>7 DEF Live
<1>9. BuffersOwned'
  BY <1>1, <1>3, <1>4, <1>7, <1>8 DEF BuffersOwned, PoolConsistent
<1>10. Window'
  BY <1>1, <1>3, <1>7, <1>8 DEF Window
<1>11. TypeOK'
  <2>1. PoolTypeOK'
    BY <1>1, <1>3 DEF TypeOK, PoolTypeOK
  <2>2. pc' \in PCs
    BY <1>1 DEF PCs
  <2> QED
    BY <1>1, <1>2, <1>3, <1>7, <2>1, <2>2 DEF TypeOK
<1>12. Lifetime'
  BY <1>1, <1>4, <1>7 DEF Lifetime
<1>13. Synchronous => Outstanding' = {}
  <2>1. ids # {} /\ ids \subseteq Outstanding /\ Outstanding \subseteq Slots
    BY <1>6, RequestSets DEF Engine!PollCompletions
  <2>2. Synchronous => Slots = {0}
    BY DEF Synchronous, Slots
  <2> QED
    BY <1>7, <2>1, <2>2
<1>14. Places'
  BY <1>1, <1>4, <1>13
     DEF Places, AsyncPCs, SyncPCs, SubmitSites, Recording, Synchronous
<1> QED
  BY <1>9, <1>10, <1>11, <1>12, <1>14 DEF IInv

\* The end of RecordCompletion: the slot goes back to the free list.
LEMMA ReleaseStep ==
  ASSUME IInv, ReleaseBuffer
  PROVE  IInv'
<1>1. /\ pc = "release"
      /\ pc' = IF Synchronous THEN "each" ELSE "refill_test"
      /\ Release(cur) /\ Engine!Consume(cur)
      /\ in_flight' = in_flight - 1
      /\ g_running' = g_running /\ cur' = cur /\ storage' = storage
  BY DEF ReleaseBuffer
<1>2. /\ recorded' = recorded /\ iops' = iops /\ bytes' = bytes
      /\ read_errors' = read_errors /\ write_errors' = write_errors
      /\ failed' = failed /\ error_message' = error_message
      /\ accepted' = accepted /\ late' = late
  BY DEF ReleaseBuffer, counters, failure, history
<1>3. TypeOK /\ BuffersOwned /\ Window /\ Lifetime /\ Places
  BY DEF IInv
<1>4. cur \in Slots
  BY <1>3 DEF TypeOK
<1>5. is_open /\ storage
  BY <1>1, <1>3 DEF Lifetime
<1>6. /\ PoolTypeOK' /\ PoolConsistent'
      /\ Len(free_slots') = Len(free_slots) + 1
      /\ in_use' = [in_use EXCEPT ![cur] = FALSE]
  BY <1>1, <1>3, <1>4, ReleaseConsistent DEF TypeOK, BuffersOwned, Release
<1>7. /\ Engine!EngineTypeOK'
      /\ cur \in Returned
      /\ Outstanding' = Outstanding
      /\ Returned' = Returned \ {cur}
      /\ is_open' = is_open
  BY <1>1, <1>3, <1>4, ConsumeSets DEF TypeOK
<1>8. cur \in Live /\ Live' = Live \ {cur}
  BY <1>3, <1>7 DEF Live, BuffersOwned
<1>9. BuffersOwned'
  <2>1. \A s \in Slots : in_use'[s] <=> s \in Live'
    BY <1>3, <1>5, <1>6, <1>8 DEF BuffersOwned, TypeOK, PoolTypeOK
  <2>2. Outstanding' \cap Returned' = {}
    BY <1>3, <1>7 DEF BuffersOwned
  <2> QED
    BY <1>6, <2>1, <2>2 DEF BuffersOwned
<1>10. /\ Cardinality(Live) \in Nat /\ Cardinality(Live) > 0
       /\ Cardinality(Live') = Cardinality(Live) - 1
  <2>1. IsFiniteSet(Live) /\ Cardinality(Live) \in Nat
    BY LiveFinite, RequestSets
  <2>2. Cardinality(Live') = Cardinality(Live) - 1
    BY <1>8, <2>1, FS_RemoveElement
  <2>3. Cardinality(Live) # 0
    BY <1>8, <2>1, FS_EmptySet
  <2> QED
    BY <2>1, <2>2, <2>3
<1>11. /\ Len(free_slots) \in Nat
       /\ Len(free_slots) + in_flight = Capacity
       /\ in_flight = Cardinality(Live)
  <2>1. free_slots \in Seq(Slots)
    BY <1>3 DEF TypeOK, PoolTypeOK
  <2>2. Len(free_slots) \in Nat
    BY <2>1
  <2> QED
    BY <1>3, <1>5, <2>2 DEF Window
<1>12. Window'
  <2>1. Len(free_slots') + in_flight' = Capacity
    BY <1>1, <1>6, <1>10, <1>11
  <2>2. in_flight' = Cardinality(Live')
    BY <1>1, <1>10, <1>11
  <2> QED
    BY <2>1, <2>2 DEF Window
<1>13. TypeOK'
  <2>1. in_flight' \in 0 .. Capacity
    BY <1>1, <1>10, <1>11, CapacityAssumption
  <2>2. pc' \in PCs
    BY <1>1 DEF PCs
  <2> QED
    BY <1>1, <1>2, <1>3, <1>6, <1>7, <2>1, <2>2 DEF TypeOK
<1>14. Lifetime'
  BY <1>1, <1>5, <1>7 DEF Lifetime
<1>15. Places'
  <2>1. in_flight' < Capacity
    BY <1>1, <1>10, <1>11, CapacityAssumption
  <2>2. Synchronous => Outstanding' = {}
    BY <1>1, <1>3, <1>7 DEF Places, Recording
  <2> QED
    BY <1>1, <2>1, <2>2
       DEF Places, AsyncPCs, SyncPCs, SubmitSites, Recording, Synchronous
<1> QED
  BY <1>9, <1>12, <1>13, <1>14, <1>15 DEF IInv

\* Construction and destruction, in the order the members impose.
LEMMA OwnerStep ==
  ASSUME IInv, Owner
  PROVE  IInv'
<1>1. /\ g_running' = g_running /\ cur' = cur /\ in_flight' = in_flight
      /\ free_slots' = free_slots /\ in_use' = in_use
      /\ completions' = completions
  BY DEF Owner, Construct, CloseEngine, FreeBuffers, poolVars, engineVars,
         Engine!Open, Engine!Close
<1>2. /\ recorded' = recorded /\ iops' = iops /\ bytes' = bytes
      /\ read_errors' = read_errors /\ write_errors' = write_errors
      /\ failed' = failed /\ error_message' = error_message
      /\ accepted' = accepted /\ late' = late
  BY DEF Owner, Construct, CloseEngine, FreeBuffers, counters, failure, history
<1>3. TypeOK /\ BuffersOwned /\ Window /\ Lifetime /\ Places
  BY DEF IInv
<1>4. \/ /\ pc = "ctor" /\ pc' = "barrier"
         /\ is_open' = TRUE /\ outstanding' = outstanding
         /\ storage' = storage
      \/ /\ pc = "ctor" /\ pc' = "unopened"
         /\ is_open' = is_open /\ outstanding' = outstanding
         /\ storage' = FALSE
      \/ /\ pc = "done" /\ pc' = "engine_closed"
         /\ is_open' = FALSE /\ outstanding' = [id \in Slots |-> "none"]
         /\ storage' = storage
      \/ /\ pc = "engine_closed" /\ pc' = "destroyed"
         /\ is_open' = is_open /\ outstanding' = outstanding
         /\ storage' = FALSE
  BY DEF Owner, Construct, CloseEngine, FreeBuffers, engineVars, Engine!Open,
         Engine!Close
<1>5. PoolTypeOK' /\ PoolConsistent'
  BY <1>1, <1>3 DEF TypeOK, PoolTypeOK, BuffersOwned, PoolConsistent
<1>6. Engine!EngineTypeOK'
  BY <1>1, <1>3, <1>4 DEF TypeOK, Engine!EngineTypeOK
<1>7. Returned' = Returned
  BY <1>1 DEF Returned, Engine!Returned
<1>8. outstanding' = outstanding => Outstanding' = Outstanding
  BY DEF Outstanding, Engine!Outstanding
<1>9. TypeOK'
  <2>1. pc' \in PCs /\ storage' \in BOOLEAN
    BY <1>3, <1>4 DEF PCs, TypeOK
  <2> QED
    BY <1>1, <1>2, <1>3, <1>5, <1>6, <2>1 DEF TypeOK
<1>10. pc = "ctor" => /\ Outstanding = {} /\ Returned = {} /\ in_flight = 0
                      /\ ~is_open /\ storage
                      /\ \A s \in Slots : ~in_use[s]
  BY <1>3 DEF Lifetime, Places
<1>11. CASE pc' = "barrier"
  <2>1. /\ pc = "ctor" /\ is_open' = TRUE /\ Outstanding' = Outstanding
        /\ storage' = storage
    BY <1>4, <1>8, <1>11
  <2>2. Live' = {} /\ Cardinality({}) = 0
    BY <1>7, <1>10, <2>1, FS_EmptySet DEF Live
  <2>3. BuffersOwned'
    BY <1>1, <1>5, <1>7, <1>10, <2>1, <2>2 DEF BuffersOwned
  <2>4. Window'
    BY <1>1, <1>3, <1>10, <2>1, <2>2 DEF Window
  <2>5. Lifetime' /\ Places'
    BY <1>1, <1>7, <1>10, <1>11, <2>1
       DEF Lifetime, Places, AsyncPCs, SyncPCs, SubmitSites, Recording
  <2> QED
    BY <1>9, <2>3, <2>4, <2>5 DEF IInv
<1>12. CASE pc' \in {"unopened", "engine_closed", "destroyed"}
  <2>1. ~is_open'
    <3>1. pc = "engine_closed" => ~is_open
      BY <1>3 DEF Lifetime
    <3> QED
      BY <1>4, <1>10, <1>12, <3>1
  <2>2. Outstanding' = {}
    <3>1. pc \in {"ctor", "engine_closed"} => Outstanding = {}
      BY <1>3 DEF Lifetime
    <3>2. pc = "done" => outstanding' = [id \in Slots |-> "none"]
      BY <1>4
    <3>3. outstanding' = [id \in Slots |-> "none"] => Outstanding' = {}
      BY DEF Outstanding, Engine!Outstanding
    <3>4. pc # "done" => pc \in {"ctor", "engine_closed"} /\ outstanding' = outstanding
      BY <1>4
    <3>5. outstanding' = outstanding => Outstanding' = Outstanding
      BY DEF Outstanding, Engine!Outstanding
    <3> QED
      BY <3>1, <3>2, <3>3, <3>4, <3>5
  <2>3. BuffersOwned' /\ Window'
    BY <1>1, <1>3, <1>5, <2>1, <2>2 DEF BuffersOwned, Window
  <2>4. Lifetime' /\ Places'
    BY <1>12, <2>1, <2>2
       DEF Lifetime, Places, AsyncPCs, SyncPCs, SubmitSites, Recording
  <2> QED
    BY <1>9, <2>3, <2>4 DEF IInv
<1> QED
  BY <1>4, <1>11, <1>12

-----------------------------------------------------------------------------
\* The strengthened invariant holds initially and in every step.

\* The invariant holds at the start of the worker.
LEMMA InitIInv == Init => IInv
<1> SUFFICES ASSUME Init PROVE IInv
  OBVIOUS
<1>1. PoolTypeOK /\ PoolConsistent /\ Len(free_slots) = Capacity
  BY PoolInitConsistent DEF Init
<1>2. /\ is_open = FALSE
      /\ outstanding = [id \in Slots |-> "none"]
      /\ completions = [id \in Slots |-> Engine!NoCompletion]
  BY DEF Init, Engine!EngineInit
<1>3. Engine!EngineTypeOK
  BY <1>2 DEF Engine!EngineTypeOK
<1>4. Outstanding = {} /\ Returned = {}
  BY <1>2 DEF Outstanding, Returned, Engine!Outstanding, Engine!Returned
<1>5. /\ pc = "ctor" /\ in_flight = 0 /\ storage = TRUE
      /\ \A s \in Slots : ~in_use[s]
  BY DEF Init, PoolInit
<1>6. TypeOK
  <2>1. 0 \in Slots /\ 0 \in 0 .. Capacity
    BY CapacityAssumption DEF Slots
  <2> QED
    BY <1>1, <1>3, <2>1 DEF Init, TypeOK, PCs
<1>7. BuffersOwned /\ Window
  BY <1>1, <1>2, <1>4, <1>5, CapacityAssumption DEF BuffersOwned, Window
<1>8. Lifetime /\ Places
  BY <1>2, <1>4, <1>5
     DEF Lifetime, Places, AsyncPCs, SyncPCs, SubmitSites, Recording
<1> QED
  BY <1>6, <1>7, <1>8 DEF IInv

\* Every step keeps it.
LEMMA NextIInv == IInv /\ [Next]_vars => IInv'
<1> SUFFICES ASSUME IInv, [Next]_vars PROVE IInv'
  OBVIOUS
<1>1. CASE \/ PassBarrier \/ FillTest \/ LoopTest \/ RefillTest \/ SyncTest
           \/ SubmitRefused \/ PollThrows \/ EndOfBatch
           \/ StopRun \/ UNCHANGED vars
  BY <1>1, ControlStep
<1>2. CASE \/ RecordLatency \/ CountIO \/ CountBytes \/ CountError
           \/ StoreMessage \/ SetFailed \/ ClearRunning
  BY <1>2, CountingStep
<1>3. CASE SubmitAccepted
  BY <1>3, SubmitStep
<1>4. CASE Poll
  BY <1>4, PollStep
<1>5. CASE ReleaseBuffer
  BY <1>5, ReleaseStep
<1>6. CASE Owner
  BY <1>6, OwnerStep
<1> QED
  BY <1>1, <1>2, <1>3, <1>4, <1>5, <1>6 DEF Next, Worker, Terminated

\* It holds in every reachable state.
LEMMA SpecIInv == Spec => []IInv
BY InitIInv, NextIInv, PTL DEF Spec

-----------------------------------------------------------------------------
\* The theorems.

\* Every variable keeps its type; in particular in_flight never leaves the
\* range 0 .. iodepth, however completions and refills interleave.
THEOREM TypeCorrect == Spec => []TypeOK
<1>1. IInv => TypeOK
  BY DEF IInv
<1> QED
  BY <1>1, SpecIInv, PTL

\* No assert of the buffer pool and no logic_error of the engine can be
\* reached, whatever the queue depth: every call of the worker is legal.
THEOREM CallsAreLegal == Spec => []CallsLegal
<1>1. IInv => CallsLegal
  <2> SUFFICES ASSUME IInv PROVE CallsLegal
    OBVIOUS
  <2>1. TypeOK /\ BuffersOwned /\ Window /\ Lifetime /\ Places
    BY DEF IInv
  <2>2. ASSUME pc \in SubmitSites
        PROVE  AcquireOK /\ Engine!SubmitOK(Top)
    <3>1. is_open /\ in_flight < Capacity
      BY <2>1, <2>2 DEF Lifetime, Places, SubmitSites
    <3>2. free_slots \in Seq(Slots) /\ Len(free_slots) \in Nat
      <4>1. free_slots \in Seq(Slots)
        BY <2>1 DEF TypeOK, PoolTypeOK
      <4> QED
        BY <4>1
    <3>3. in_flight \in Nat
      <4>1. in_flight \in 0 .. Capacity
        BY <2>1 DEF TypeOK
      <4> QED
        BY <4>1, CapacityAssumption
    <3>4. Len(free_slots) > 0
      <4>1. Len(free_slots) + in_flight = Capacity
        BY <2>1 DEF Window
      <4> QED
        BY <3>1, <3>2, <3>3, <4>1, CapacityAssumption
    <3>5. AcquireOK /\ Top \in Slots
      BY <3>2, <3>4 DEF AcquireOK, Top
    <3>6. ~in_use[Top]
      <4>1. Len(free_slots) \in 1 .. Len(free_slots)
        BY <3>2, <3>4
      <4> QED
        BY <2>1, <3>5, <4>1 DEF BuffersOwned, PoolConsistent, Top
    <3>7. outstanding[Top] = "none"
      BY <2>1, <3>1, <3>5, <3>6
         DEF BuffersOwned, Live, Outstanding, Engine!Outstanding
    <3>8. Cardinality(Outstanding) < Capacity
      <4>1. /\ Cardinality(Outstanding) <= Cardinality(Live)
            /\ Cardinality(Outstanding) \in Nat /\ Cardinality(Live) \in Nat
        BY LiveFinite, RequestSets
      <4>2. Cardinality(Live) = in_flight
        BY <2>1, <3>1 DEF Window
      <4> QED
        BY <3>1, <3>3, <4>1, <4>2, CapacityAssumption
    <3> QED
      <4>1. Engine!Cardinality(Engine!Outstanding) = Cardinality(Outstanding)
        BY DEF Outstanding, Engine!Cardinality, Cardinality
      <4>2. Engine!SubmitOK(Top)
        BY <3>1, <3>5, <3>7, <3>8, <4>1 DEF Engine!SubmitOK
      <4> QED
        BY <3>5, <4>2
  <2>3. ASSUME pc = "poll"
        PROVE  is_open /\ Outstanding # {}
    <3>1. is_open /\ Returned = {} /\ in_flight > 0
      BY <2>1, <2>3 DEF Lifetime, Places
    <3>2. Live # {}
      BY <2>1, <3>1, FS_EmptySet DEF Window
    <3> QED
      BY <3>1, <3>2 DEF Live
  <2>4. ASSUME pc = "release"
        PROVE  ReleaseOK(cur)
    <3>1. is_open /\ cur \in Returned /\ cur \in Slots
      BY <2>1, <2>4 DEF Lifetime, Places, Recording, TypeOK
    <3> QED
      BY <2>1, <3>1 DEF BuffersOwned, Live, ReleaseOK
  <2> QED
    BY <2>2, <2>3, <2>4 DEF CallsLegal
<1> QED
  BY <1>1, SpecIInv, PTL

\* No buffer is shared, leaked or handed out while the engine may write it.
THEOREM BuffersAlwaysOwned == Spec => []BuffersOwned
<1>1. IInv => BuffersOwned
  BY DEF IInv
<1> QED
  BY <1>1, SpecIInv, PTL

\* The buffers are freed only after the engine was closed, also when a worker
\* failed with a full queue.
THEOREM NoIOIntoFreedMemory == Spec => []BuffersOutliveIO
<1>1. IInv => BuffersOutliveIO
  BY DEF IInv, Lifetime, BuffersOutliveIO
<1> QED
  BY <1>1, SpecIInv, PTL

\* A worker's thread ends only when the run flag is cleared.
THEOREM NoWorkerEndsAlone == Spec => []EndsWithRun
<1>1. Init => EndsWithRun
  BY DEF Init, EndsWithRun, Ended
<1>2. EndsWithRun /\ [Next]_vars => EndsWithRun'
  <2> SUFFICES ASSUME EndsWithRun, [Next]_vars PROVE EndsWithRun'
    OBVIOUS
  <2>1. g_running' = g_running \/ g_running' = FALSE
    BY DEF Next, Worker, Owner, PassBarrier, FillTest, LoopTest, RefillTest,
           SyncTest, SubmitAccepted, SubmitRefused, Poll, PollThrows,
           EndOfBatch, RecordLatency, CountIO, CountBytes, CountError,
           ReleaseBuffer, StoreMessage, SetFailed, ClearRunning, Construct,
           CloseEngine, FreeBuffers, StopRun, Terminated, vars
  <2>2. SubmitAccepted => pc' \in {"fill_test", "each", "poll"}
    BY DEF SubmitAccepted, SubmitSites, AfterSubmit
  <2>3. Ended' => Ended \/ ~g_running \/ g_running' = FALSE
    BY <2>2
       DEF Next, Worker, Owner, PassBarrier, FillTest, LoopTest, RefillTest,
           SyncTest, TestRunning, SubmitRefused, Poll, PollThrows, EndOfBatch, RecordLatency,
           CountIO, CountBytes, CountError, ReleaseBuffer, StoreMessage,
           SetFailed, ClearRunning, Construct, CloseEngine, FreeBuffers,
           StopRun, Terminated, vars, Ended
  <2> QED
    BY <2>1, <2>3 DEF EndsWithRun
<1> QED
  BY <1>1, <1>2, PTL DEF Spec

\* The failure message is final once failed_ is visible to other threads.
FailedPlaces == failed => pc = "clear_running" \/ Ended

\* Every step keeps that, and the message once failed_ is set.
LEMMA FailedStep == FailedPlaces /\ [Next]_vars
                      => FailedPlaces' /\ (failed => UNCHANGED error_message)
<1> SUFFICES ASSUME FailedPlaces, [Next]_vars
             PROVE  FailedPlaces' /\ (failed => UNCHANGED error_message)
  OBVIOUS
<1>1. CASE SetFailed \/ StoreMessage
  <2>1. CASE SetFailed
    BY <2>1 DEF SetFailed, FailedPlaces
  <2>2. CASE StoreMessage
    <3>1. pc = "catch" /\ failed' = failed
      BY <2>2 DEF StoreMessage
    <3>2. ~failed
      BY <3>1 DEF FailedPlaces, Ended
    <3> QED
      BY <3>1, <3>2 DEF FailedPlaces
  <2> QED
    BY <1>1, <2>1, <2>2
<1>2. CASE ~(SetFailed \/ StoreMessage)
  <2>1. failed' = failed /\ error_message' = error_message
    BY <1>2
       DEF Next, Worker, Owner, PassBarrier, FillTest, LoopTest, RefillTest,
           SyncTest, SubmitAccepted, SubmitRefused, Poll, PollThrows,
           EndOfBatch, RecordLatency, CountIO, CountBytes, CountError,
           ReleaseBuffer, ClearRunning, Construct, CloseEngine, FreeBuffers,
           StopRun, Terminated, vars, failure
  <2>2. pc = "clear_running" \/ Ended => pc' = "clear_running" \/ Ended'
    BY <1>2
       DEF Next, Worker, Owner, PassBarrier, FillTest, LoopTest, RefillTest,
           SyncTest, SubmitAccepted, SubmitSites, SubmitRefused, Poll,
           PollThrows, EndOfBatch, RecordLatency, CountIO, CountBytes,
           CountError, ReleaseBuffer, ClearRunning, Construct, CloseEngine,
           FreeBuffers, StopRun, Terminated, vars, Ended
  <2> QED
    BY <2>1, <2>2 DEF FailedPlaces
<1> QED
  BY <1>1, <1>2

\* error_message_ does not change once failed_ is set, so that the orchestrator
\* reads it without a lock (WorkerThread::Run, the catch block).
THEOREM MessageIsStable == Spec => MessageStable
<1>1. Init => FailedPlaces
  BY DEF Init, FailedPlaces
<1>2. FailedPlaces /\ [Next]_vars => FailedPlaces'
  BY FailedStep
<1>3. FailedPlaces /\ [Next]_vars => [failed => UNCHANGED error_message]_vars
  BY FailedStep
<1> QED
  BY <1>1, <1>2, <1>3, PTL DEF Spec, MessageStable

-----------------------------------------------------------------------------
(***************************************************************************)
(* The worker's books, for every queue depth, block size and length of the *)
(* run: the counters another thread reads without a lock are updated in    *)
(* order, and a worker that ends without a failure has recorded every      *)
(* request the engine accepted.                                            *)
(*                                                                         *)
(* Neither is inductive.  Ledger says what each counter owes to the others *)
(* at each place of RecordCompletion (CountsOrdered), where an accepted    *)
(* request is (Balance), and why the loops end (Settled); it is preserved  *)
(* in the states of IInv.                                                  *)
(*                                                                         *)
(* A worker thus implements the closed loop its owner relies on (JobLoop). *)
(* The window of the abstract loop is accepted - recorded: outside of      *)
(* RecordCompletion it is in_flight, which IInv keeps below the depth at   *)
(* every submission.  OneLate says why at most one request is issued after *)
(* the stop: only a worker that saw the run flag set is at a submission,   *)
(* and after that submission it tests the flag again.                      *)
(***************************************************************************)

Errors == read_errors + write_errors

\* A request was counted and its bytes, or its error, are still to come.
Owing == pc \in {"count_bytes", "count_error"}

CountsOrdered ==
  /\ recorded = IF pc = "count_io" THEN iops + 1 ELSE iops
  /\ Errors <= IF Owing THEN iops - 1 ELSE iops
  /\ bytes <= BlockSize * (IF pc = "count_bytes" THEN iops - 1 ELSE iops)
  /\ bytes + BlockSize * (IF Owing THEN Errors + 1 ELSE Errors)
       >= BlockSize * iops

\* Every accepted request is in the histogram or in flight; the one being
\* recorded is in both.
Balance == accepted + (IF Recording THEN 1 ELSE 0) = recorded + in_flight

Settled ==
  /\ pc = "clear_running" => failed
  /\ Ended /\ ~failed => in_flight = 0 /\ Live = {}

Ledger == CountsOrdered /\ Balance /\ Settled

-----------------------------------------------------------------------------
\* Multiples of the block size, the only products the counters need.
LEMMA Blocks ==
  ASSUME NEW n \in Nat
  PROVE  /\ BlockSize * n \in Nat
         /\ BlockSize * (n + 1) = BlockSize * n + BlockSize
BY WorkerAssumption, SMTT(30)

\* The types of the variables the books are about.
LEMMA BookTypes ==
  ASSUME IInv
  PROVE  /\ recorded \in Nat /\ iops \in Nat /\ bytes \in Nat
         /\ read_errors \in Nat /\ write_errors \in Nat
         /\ accepted \in Nat /\ in_flight \in Nat /\ Errors \in Nat
         /\ Len(free_slots) \in Nat
<1>1. TypeOK
  BY DEF IInv
<1>2. /\ recorded \in Nat /\ iops \in Nat /\ bytes \in Nat
      /\ read_errors \in Nat /\ write_errors \in Nat
      /\ accepted \in Nat /\ in_flight \in 0 .. Capacity
      /\ free_slots \in Seq(Slots)
  BY <1>1 DEF TypeOK, PoolTypeOK
<1>3. Errors \in Nat
  BY <1>2 DEF Errors
<1>4. in_flight \in Nat
  BY <1>2, CapacityAssumption
<1>5. Len(free_slots) \in Nat
  BY <1>2
<1> QED
  BY <1>2, <1>3, <1>4, <1>5

\* What a completion being recorded may have transferred.
LEMMA Transferred ==
  ASSUME IInv, Recording
  PROVE  /\ completions[cur].bytes \in 0 .. BlockSize
         /\ completions[cur].success => completions[cur].bytes = BlockSize
<1>1. completions[cur] \in Engine!Completion
  <2>1. cur \in Slots /\ completions[cur] # Engine!NoCompletion
    BY DEF IInv, Places, Returned, Engine!Returned
  <2>2. completions[cur] \in Engine!Completion \cup {Engine!NoCompletion}
    BY <2>1 DEF IInv, TypeOK, Engine!EngineTypeOK
  <2> QED
    BY <2>1, <2>2
<1> QED
  BY <1>1 DEF Engine!Completion

\* The steps that touch no counter start and end outside RecordCompletion, or
\* leave it from its last place.
LEMMA Untouched ==
  ASSUME IInv, [Next]_vars,
         ~(RecordLatency \/ CountIO \/ CountBytes \/ CountError)
  PROVE  /\ recorded' = recorded /\ iops' = iops /\ bytes' = bytes
         /\ read_errors' = read_errors /\ write_errors' = write_errors
         /\ \/ pc' = pc
            \/ /\ pc \notin {"count_io", "count_bytes", "count_error"}
               /\ pc' \notin {"count_io", "count_bytes", "count_error", "release"}
<1>1. SubmitAccepted => /\ pc \in SubmitSites
                        /\ pc' \in {"fill_test", "each", "poll"}
  BY DEF SubmitAccepted, SubmitSites, AfterSubmit
<1>2. UNCHANGED counters
  BY DEF Next, Worker, Owner, PassBarrier, FillTest, LoopTest, RefillTest,
         SyncTest, SubmitAccepted, SubmitRefused, Poll, PollThrows,
         EndOfBatch, ReleaseBuffer, StoreMessage, SetFailed, ClearRunning,
         Construct, CloseEngine, FreeBuffers, StopRun, Terminated, vars
<1>3. \/ pc' = pc
      \/ /\ pc \notin {"count_io", "count_bytes", "count_error"}
         /\ pc' \notin {"count_io", "count_bytes", "count_error", "release"}
  BY <1>1
     DEF Next, Worker, Owner, PassBarrier, FillTest, LoopTest, RefillTest,
         SyncTest, TestRunning, SubmitSites, SubmitRefused, Poll, PollThrows,
         EndOfBatch, ReleaseBuffer, StoreMessage, SetFailed, ClearRunning,
         Construct, CloseEngine, FreeBuffers, StopRun, Terminated, vars
<1> QED
  BY <1>2, <1>3 DEF counters

-----------------------------------------------------------------------------
\* Every step keeps the counters in order.
LEMMA CountsStep == IInv /\ CountsOrdered /\ [Next]_vars => CountsOrdered'
<1> SUFFICES ASSUME IInv, CountsOrdered, [Next]_vars
             PROVE  CountsOrdered'
  OBVIOUS
<1>1. /\ recorded \in Nat /\ iops \in Nat /\ bytes \in Nat
      /\ read_errors \in Nat /\ write_errors \in Nat /\ Errors \in Nat
  BY BookTypes
<1>2. /\ BlockSize \in Nat
      /\ BlockSize * iops \in Nat /\ BlockSize * Errors \in Nat
      /\ BlockSize * (iops + 1) = BlockSize * iops + BlockSize
      /\ BlockSize * (Errors + 1) = BlockSize * Errors + BlockSize
  BY <1>1, Blocks, WorkerAssumption
<1>3. CASE RecordLatency
  <2>1. /\ pc = "each" /\ pc' = "count_io" /\ recorded' = recorded + 1
        /\ iops' = iops /\ bytes' = bytes /\ Errors' = Errors
    BY <1>3 DEF RecordLatency, Errors
  <2> QED
    BY <1>1, <2>1 DEF CountsOrdered, Owing
<1>4. CASE CountIO
  <2>1. /\ pc = "count_io" /\ pc' = "count_bytes" /\ iops' = iops + 1
        /\ recorded' = recorded /\ bytes' = bytes /\ Errors' = Errors
    BY <1>4 DEF CountIO, Errors
  <2>2. /\ recorded = iops + 1 /\ Errors <= iops /\ bytes <= BlockSize * iops
        /\ bytes + BlockSize * Errors >= BlockSize * iops
    BY <2>1 DEF CountsOrdered, Owing
  <2>3. iops' - 1 = iops
    BY <1>1, <2>1
  <2>4. bytes + BlockSize * (Errors + 1) >= BlockSize * (iops + 1)
    BY <1>1, <1>2, <2>2
  <2> QED
    BY <1>1, <2>1, <2>2, <2>3, <2>4 DEF CountsOrdered, Owing
<1>5. CASE CountBytes
  <2>1. /\ pc = "count_bytes"
        /\ pc' = IF completions[cur].success THEN "release" ELSE "count_error"
        /\ bytes' = bytes + completions[cur].bytes
        /\ recorded' = recorded /\ iops' = iops /\ Errors' = Errors
    BY <1>5 DEF CountBytes, Errors
  <2>2. /\ recorded = iops /\ Errors <= iops - 1
        /\ bytes <= BlockSize * (iops - 1)
        /\ bytes + BlockSize * (Errors + 1) >= BlockSize * iops
    BY <2>1 DEF CountsOrdered, Owing
  <2>3. /\ completions[cur].bytes \in 0 .. BlockSize
        /\ completions[cur].success => completions[cur].bytes = BlockSize
    BY <2>1, Transferred DEF Recording
  <2>4. /\ BlockSize * (iops - 1) \in Nat
        /\ BlockSize * iops = BlockSize * (iops - 1) + BlockSize
    <3>1. iops - 1 \in Nat /\ (iops - 1) + 1 = iops
      BY <1>1, <2>2
    <3> QED
      BY <3>1, Blocks
  <2>5. bytes' <= BlockSize * iops
    BY <1>1, <1>2, <2>1, <2>2, <2>3, <2>4
  <2>6. /\ completions[cur].success
             => bytes' + BlockSize * Errors >= BlockSize * iops
        /\ bytes' + BlockSize * (Errors + 1) >= BlockSize * iops
    BY <1>1, <1>2, <2>1, <2>2, <2>3
  <2>7. Errors <= iops
    BY <1>1, <2>2
  <2>8. CASE completions[cur].success
    BY <2>1, <2>2, <2>5, <2>6, <2>7, <2>8 DEF CountsOrdered, Owing
  <2>9. CASE ~completions[cur].success
    BY <2>1, <2>2, <2>5, <2>6, <2>9 DEF CountsOrdered, Owing
  <2> QED
    BY <2>8, <2>9
<1>6. CASE CountError
  <2>1. /\ pc = "count_error" /\ pc' = "release" /\ Errors' = Errors + 1
        /\ recorded' = recorded /\ iops' = iops /\ bytes' = bytes
    BY <1>1, <1>6 DEF CountError, Errors
  <2>2. /\ recorded = iops /\ Errors <= iops - 1 /\ bytes <= BlockSize * iops
        /\ bytes + BlockSize * (Errors + 1) >= BlockSize * iops
    BY <2>1 DEF CountsOrdered, Owing
  <2>3. Errors + 1 <= iops
    BY <1>1, <2>2
  <2> QED
    BY <2>1, <2>2, <2>3 DEF CountsOrdered, Owing
<1>7. CASE ~(RecordLatency \/ CountIO \/ CountBytes \/ CountError)
  <2>1. /\ recorded' = recorded /\ iops' = iops /\ bytes' = bytes
        /\ Errors' = Errors
        /\ \/ pc' = pc
           \/ /\ pc \notin {"count_io", "count_bytes", "count_error"}
              /\ pc' \notin {"count_io", "count_bytes", "count_error"}
    BY <1>7, Untouched DEF Errors
  <2> QED
    BY <2>1 DEF CountsOrdered, Owing
<1> QED
  BY <1>3, <1>4, <1>5, <1>6, <1>7

\* Only a submission and RecordLatency start an entry, only the release of the
\* buffer closes one.
LEMMA BalanceStep == IInv /\ Balance /\ [Next]_vars => Balance'
<1> SUFFICES ASSUME IInv, Balance, [Next]_vars
             PROVE  Balance'
  OBVIOUS
<1>1. recorded \in Nat /\ accepted \in Nat /\ in_flight \in Nat
  BY BookTypes
<1>2. CASE SubmitAccepted
  <2>1. /\ pc \in SubmitSites /\ pc' \in {"fill_test", "each", "poll"}
        /\ accepted' = accepted + 1 /\ in_flight' = in_flight + 1
        /\ recorded' = recorded
    BY <1>2 DEF SubmitAccepted, SubmitSites, AfterSubmit, counters
  <2> QED
    BY <1>1, <2>1 DEF Balance, Recording, SubmitSites
<1>3. CASE RecordLatency
  <2>1. /\ pc = "each" /\ pc' = "count_io" /\ recorded' = recorded + 1
        /\ accepted' = accepted /\ in_flight' = in_flight
    BY <1>3 DEF RecordLatency, history
  <2> QED
    BY <1>1, <2>1 DEF Balance, Recording
<1>4. CASE CountIO \/ CountBytes \/ CountError
  <2>1. /\ Recording /\ Recording'
        /\ recorded' = recorded /\ accepted' = accepted
        /\ in_flight' = in_flight
    BY <1>4 DEF CountIO, CountBytes, CountError, history, Recording
  <2> QED
    BY <2>1 DEF Balance
<1>5. CASE ReleaseBuffer
  <2>1. /\ pc = "release" /\ pc' \in {"each", "refill_test"}
        /\ in_flight' = in_flight - 1
        /\ recorded' = recorded /\ accepted' = accepted
    BY <1>5 DEF ReleaseBuffer, counters, history
  <2> QED
    BY <1>1, <2>1 DEF Balance, Recording
<1>6. CASE ~(\/ SubmitAccepted \/ RecordLatency \/ CountIO \/ CountBytes
             \/ CountError \/ ReleaseBuffer)
  <2>1. in_flight' = in_flight /\ accepted' = accepted
    BY <1>6
       DEF Next, Worker, Owner, PassBarrier, FillTest, LoopTest, RefillTest,
           SyncTest, SubmitRefused, Poll, PollThrows, EndOfBatch,
           StoreMessage, SetFailed, ClearRunning, Construct, CloseEngine,
           FreeBuffers, StopRun, Terminated, vars, history
  <2>2. recorded' = recorded
    BY <1>6, Untouched
  <2>3. Recording' <=> Recording
    BY <1>6
       DEF Next, Worker, Owner, PassBarrier, FillTest, LoopTest, RefillTest,
           SyncTest, TestRunning, SubmitSites, SubmitRefused, Poll,
           PollThrows, EndOfBatch, StoreMessage, SetFailed, ClearRunning,
           Construct, CloseEngine, FreeBuffers, StopRun, Terminated, vars,
           Recording
  <2> QED
    BY <2>1, <2>2, <2>3 DEF Balance
<1> QED
  BY <1>2, <1>3, <1>4, <1>5, <1>6

\* The loops are left with nothing in flight, or through RecordFailure; the
\* owner's steps after that leave the books alone.
LEMMA SettledStep == IInv /\ Settled /\ [Next]_vars => Settled'
<1> SUFFICES ASSUME IInv, Settled, [Next]_vars
             PROVE  Settled'
  OBVIOUS
<1>1. TypeOK /\ Window /\ Lifetime /\ Places
  BY DEF IInv
<1>2. is_open /\ in_flight = 0 => Live = {}
  BY <1>1, LiveFinite, RequestSets, FS_EmptySet DEF Window
<1>3. CASE LoopTest \/ SyncTest
  <2>1. /\ pc \in {"loop_test", "sync_test"} /\ pc' # "clear_running"
        /\ pc' = "done" => pc = "sync_test" \/ ~(in_flight > 0)
        /\ pc' \notin {"engine_closed", "destroyed"}
    BY <1>3 DEF LoopTest, SyncTest, TestRunning
  <2>2. UNCHANGED <<poolVars, engineVars, in_flight>>
    BY <1>3 DEF LoopTest, SyncTest
  <2>3. in_flight' = in_flight /\ Live' = Live
    BY <2>2, QuietStep DEF Live
  <2>4. pc' = "done" => in_flight = 0
    <3>1. in_flight \in Nat
      BY BookTypes
    <3>2. pc = "sync_test" => in_flight = 0
      BY <1>1 DEF Places, SyncPCs
    <3> QED
      BY <2>1, <3>1, <3>2
  <2>5. is_open
    BY <1>1, <2>1 DEF Lifetime
  <2> QED
    BY <1>2, <2>1, <2>3, <2>4, <2>5 DEF Settled, Ended
<1>4. CASE SetFailed
  BY <1>4 DEF SetFailed, Settled, Ended
<1>5. CASE ClearRunning
  <2>1. pc = "clear_running" /\ pc' = "done" /\ failed' = failed
    BY <1>5 DEF ClearRunning, failure
  <2> QED
    BY <2>1 DEF Settled
<1>6. CASE CloseEngine \/ FreeBuffers
  <2>1. /\ Ended /\ pc' # "clear_running" /\ failed' = failed
        /\ in_flight' = in_flight
        /\ completions' = completions
        /\ \/ outstanding' = outstanding
           \/ outstanding' = [id \in Slots |-> "none"]
    BY <1>6 DEF CloseEngine, FreeBuffers, Ended, failure, engineVars,
                Engine!Close
  <2>2. Returned' = Returned
    BY <2>1 DEF Returned, Engine!Returned
  <2>3. Outstanding' = Outstanding \/ Outstanding' = {}
    BY <2>1 DEF Outstanding, Engine!Outstanding
  <2>4. Live = {} => Live' = {}
    BY <2>2, <2>3 DEF Live
  <2> QED
    BY <2>1, <2>4 DEF Settled
<1>7. CASE \/ PassBarrier \/ FillTest \/ RefillTest \/ SubmitRefused
           \/ PollThrows \/ EndOfBatch \/ RecordLatency \/ CountIO
           \/ CountBytes \/ CountError \/ StoreMessage \/ SubmitAccepted
           \/ Poll \/ ReleaseBuffer \/ Construct
  <2>1. SubmitAccepted => pc' \in {"fill_test", "each", "poll"}
    BY DEF SubmitAccepted, SubmitSites, AfterSubmit
  <2>2. pc' # "clear_running" /\ ~Ended'
    BY <1>7, <2>1
       DEF PassBarrier, FillTest, RefillTest, TestRunning, SubmitRefused,
           PollThrows, EndOfBatch, RecordLatency, CountIO, CountBytes,
           CountError, StoreMessage, Poll, ReleaseBuffer, Construct, Ended
  <2> QED
    BY <2>2 DEF Settled
<1>8. CASE StopRun \/ UNCHANGED vars
  <2>1. UNCHANGED <<poolVars, engineVars, in_flight>>
    BY <1>8 DEF StopRun, vars
  <2>2. in_flight' = in_flight /\ Live' = Live
    BY <2>1, QuietStep DEF Live
  <2>3. pc' = pc /\ failed' = failed
    BY <1>8 DEF StopRun, vars, failure
  <2> QED
    BY <2>2, <2>3 DEF Settled, Ended
<1> QED
  BY <1>3, <1>4, <1>5, <1>6, <1>7, <1>8
     DEF Next, Worker, Owner, Terminated

\* The ledger holds at the start of the worker.
LEMMA InitLedger == Init => Ledger
<1> SUFFICES ASSUME Init PROVE Ledger
  OBVIOUS
<1>1. /\ pc = "ctor" /\ in_flight = 0 /\ accepted = 0
      /\ recorded = 0 /\ iops = 0 /\ bytes = 0
      /\ read_errors = 0 /\ write_errors = 0
  BY DEF Init
<1>2. BlockSize * 0 = 0
  BY WorkerAssumption
<1>3. CountsOrdered
  <2>1. Errors = 0
    BY <1>1 DEF Errors
  <2> QED
    BY <1>1, <1>2, <2>1 DEF CountsOrdered, Owing
<1>4. Balance /\ Settled
  BY <1>1 DEF Balance, Recording, Settled, Ended
<1> QED
  BY <1>3, <1>4 DEF Ledger

\* It holds in every reachable state.
LEMMA SpecLedger == Spec => [](IInv /\ Ledger)
<1>1. IInv /\ Ledger /\ [Next]_vars => Ledger'
  BY CountsStep, BalanceStep, SettledStep DEF Ledger
<1> QED
  BY <1>1, InitLedger, SpecIInv, PTL DEF Spec

-----------------------------------------------------------------------------
\* The theorems.

\* The updates of RecordCompletion stay in order at every moment the
\* aggregator may read the counters: no error before its request, no bytes
\* before their count, at most one request between two counters.
THEOREM CountersAlwaysInOrder == Spec => []CountersInOrder
<1>1. IInv /\ Ledger => CountersInOrder
  <2> SUFFICES ASSUME IInv, CountsOrdered PROVE CountersInOrder
    BY DEF Ledger
  <2>1. /\ iops \in Nat /\ bytes \in Nat
        /\ read_errors + write_errors \in Nat
    BY BookTypes
  <2>2. /\ BlockSize \in Nat
        /\ BlockSize * iops \in Nat
        /\ BlockSize * (read_errors + write_errors) \in Nat
        /\ BlockSize * (read_errors + write_errors + 1)
             = BlockSize * (read_errors + write_errors) + BlockSize
    BY <2>1, Blocks, WorkerAssumption
  <2>3. recorded \in {iops, iops + 1} /\ read_errors + write_errors <= iops
    BY <2>1 DEF CountsOrdered, Owing, Errors
  <2>4. bytes <= BlockSize * iops
    <3>1. CASE pc = "count_bytes"
      <4>1. /\ bytes <= BlockSize * (iops - 1)
            /\ iops - 1 \in Nat /\ (iops - 1) + 1 = iops
        BY <2>1, <3>1 DEF CountsOrdered, Owing, Errors
      <4>2. BlockSize * iops = BlockSize * (iops - 1) + BlockSize
            /\ BlockSize * (iops - 1) \in Nat
        BY <4>1, Blocks
      <4> QED
        BY <2>1, <2>2, <4>1, <4>2
    <3>2. CASE pc # "count_bytes"
      BY <3>2 DEF CountsOrdered
    <3> QED
      BY <3>1, <3>2
  <2>5. \/ bytes + BlockSize * (read_errors + write_errors) >= BlockSize * iops
        \/ bytes + BlockSize * (read_errors + write_errors + 1)
             >= BlockSize * iops
    BY DEF CountsOrdered, Errors
  <2>6. bytes + BlockSize * (read_errors + write_errors + 1)
          >= BlockSize * iops
    BY <2>1, <2>2, <2>5
  <2> QED
    BY <2>3, <2>4, <2>6 DEF CountersInOrder
<1> QED
  BY <1>1, SpecLedger, PTL

\* RunAsyncLoop and RunSyncLoop drain: a worker that ended without a failure
\* has every accepted request in its histogram and its counters, and every
\* buffer back in the pool.
THEOREM EndsDrained == Spec => []DrainedAtEnd
<1>1. IInv /\ Ledger => DrainedAtEnd
  <2> SUFFICES ASSUME IInv, Ledger, Ended, ~failed
               PROVE  /\ Live = {}
                      /\ recorded = accepted /\ iops = accepted
                      /\ bytes + BlockSize * (read_errors + write_errors)
                           >= BlockSize * accepted
                      /\ Len(free_slots) = Capacity
    BY DEF DrainedAtEnd
  <2>1. in_flight = 0 /\ Live = {}
    BY DEF Ledger, Settled
  <2>2. ~Recording /\ ~Owing /\ pc # "count_io"
    BY DEF Ended, Recording, Owing
  <2>3. recorded = accepted /\ iops = accepted
    BY <2>1, <2>2, BookTypes DEF Ledger, Balance, CountsOrdered
  <2>4. bytes + BlockSize * (read_errors + write_errors)
          >= BlockSize * accepted
    BY <2>2, <2>3 DEF Ledger, CountsOrdered, Errors
  <2>5. Len(free_slots) = Capacity
    <3>1. Len(free_slots) \in Nat /\ Len(free_slots) + in_flight = Capacity
      BY BookTypes DEF IInv, Window
    <3> QED
      BY <2>1, <3>1
  <2> QED
    BY <2>1, <2>3, <2>4, <2>5
<1> QED
  BY <1>1, SpecLedger, PTL

-----------------------------------------------------------------------------
(***************************************************************************)
(* The refinement of JobLoop.                                              *)
(***************************************************************************)

\* Only the request that was tested for before the stop may follow it.
OneLate == g_running \/ pc \in SubmitSites => late = 0

\* Every step keeps it.
LEMMA OneLateStep == OneLate /\ [Next]_vars => OneLate'
<1> SUFFICES ASSUME OneLate, [Next]_vars PROVE OneLate'
  OBVIOUS
<1>1. CASE SubmitAccepted
  <2>1. /\ pc \in SubmitSites /\ pc' \in {"fill_test", "each", "poll"}
        /\ g_running' = g_running
        /\ late' = IF g_running THEN late ELSE late + 1
    BY <1>1 DEF SubmitAccepted, SubmitSites, AfterSubmit
  <2> QED
    BY <2>1 DEF OneLate, SubmitSites
<1>2. CASE ~SubmitAccepted
  <2>1. late' = late
    BY <1>2
       DEF Next, Worker, Owner, PassBarrier, FillTest, LoopTest, RefillTest,
           SyncTest, SubmitRefused, Poll, PollThrows, EndOfBatch,
           RecordLatency, CountIO, CountBytes, CountError, ReleaseBuffer,
           StoreMessage, SetFailed, ClearRunning, Construct, CloseEngine,
           FreeBuffers, StopRun, Terminated, vars, history
  <2>2. g_running' => g_running
    BY <1>2
       DEF Next, Worker, Owner, PassBarrier, FillTest, LoopTest, RefillTest,
           SyncTest, SubmitRefused, Poll, PollThrows, EndOfBatch,
           RecordLatency, CountIO, CountBytes, CountError, ReleaseBuffer,
           StoreMessage, SetFailed, ClearRunning, Construct, CloseEngine,
           FreeBuffers, StopRun, Terminated, vars
  <2>3. pc' \in SubmitSites => g_running \/ pc \in SubmitSites
    BY <1>2
       DEF Next, Worker, Owner, PassBarrier, FillTest, LoopTest, RefillTest,
           SyncTest, TestRunning, SubmitRefused, Poll, PollThrows, EndOfBatch,
           RecordLatency, CountIO, CountBytes, CountError, ReleaseBuffer,
           StoreMessage, SetFailed, ClearRunning, Construct, CloseEngine,
           FreeBuffers, StopRun, Terminated, vars, SubmitSites
  <2> QED
    BY <2>1, <2>2, <2>3 DEF OneLate
<1> QED
  BY <1>1, <1>2

-----------------------------------------------------------------------------
\* What the window is where the loop issues, records and ends.

\* The window is the requests accepted and not yet recorded.
LEMMA WindowIs ==
  ASSUME IInv, Ledger
  PROVE  ~Recording => accepted - recorded = in_flight
BY BookTypes DEF Ledger, Balance

\* A returned request is in flight.
LEMMA BatchInFlight ==
  ASSUME IInv, is_open, Returned # {}
  PROVE  in_flight > 0
<1>1. Live # {} /\ in_flight = Cardinality(Live)
  BY DEF Live, IInv, Window
<1>2. Cardinality(Live) # 0
  BY <1>1, LiveFinite, RequestSets, FS_EmptySet
<1> QED
  BY <1>1, <1>2, BookTypes

\* The steps that the owner of the worker does not see.
LEMMA HiddenStep ==
  ASSUME [Next]_vars,
         ~(\/ PassBarrier \/ SubmitAccepted \/ RecordLatency \/ LoopTest
           \/ SyncTest \/ SubmitRefused \/ PollThrows \/ ClearRunning
           \/ StopRun)
  PROVE  UNCHANGED Job!vars
<1>1. UNCHANGED <<g_running, accepted, recorded, late>>
  BY DEF Next, Worker, Owner, FillTest, RefillTest, Poll, EndOfBatch, CountIO,
         CountBytes, CountError, ReleaseBuffer, StoreMessage, SetFailed,
         Construct, CloseEngine, FreeBuffers, Terminated, vars, counters,
         history
<1>2. \/ pc' = pc
      \/ pc \in {"ctor"} /\ pc' \in {"barrier", "unopened"}
      \/ pc \in {"catch", "set_failed"} /\ pc' \in {"set_failed", "clear_running"}
      \/ pc \in {"done", "engine_closed"} /\ pc' \in {"engine_closed", "destroyed"}
      \/ /\ pc \in {"fill_test", "refill_test", "poll", "each", "count_io",
                    "count_bytes", "count_error", "release"}
         /\ pc' \in {"fill_submit", "loop_test", "refill_submit", "each",
                     "sync_test", "count_bytes", "count_error", "release",
                     "refill_test"}
  BY DEF Next, Worker, Owner, FillTest, RefillTest, TestRunning, Poll,
         EndOfBatch, CountIO, CountBytes, CountError, ReleaseBuffer,
         StoreMessage, SetFailed, Construct, CloseEngine, FreeBuffers,
         Terminated, vars
<1>3. JobPhase' = JobPhase
  BY <1>2 DEF JobPhase, Ended
<1>4. (accepted - recorded)' = accepted - recorded
  BY <1>1
<1> QED
  BY <1>1, <1>3, <1>4 DEF Job!vars

-----------------------------------------------------------------------------
\* Every step of the worker is a step of the loop or invisible to the owner.
LEMMA JobStep == IInv /\ Ledger /\ OneLate /\ [Next]_vars
                   => [Job!Next]_(Job!vars)
<1> SUFFICES ASSUME IInv, Ledger, OneLate, [Next]_vars
             PROVE  Job!Next \/ UNCHANGED Job!vars
  OBVIOUS
<1>1. /\ accepted \in Nat /\ recorded \in Nat /\ in_flight \in Nat
      /\ Capacity \in Nat
  BY BookTypes, CapacityAssumption
<1>2. Places /\ Lifetime
  BY DEF IInv
<1>3. CASE PassBarrier
  <2>1. /\ JobPhase = "waiting" /\ JobPhase' = "issuing"
        /\ UNCHANGED <<g_running, accepted, recorded, late>>
    BY <1>3 DEF PassBarrier, JobPhase, Ended, counters, history
  <2>2. (accepted - recorded)' = accepted - recorded
    BY <2>1
  <2>3. Job!Begin
    BY <2>1, <2>2 DEF Job!Begin
  <2> QED
    BY <2>3 DEF Job!Next
<1>4. CASE SubmitAccepted
  <2>1. /\ pc \in SubmitSites /\ pc' \in {"fill_test", "each", "poll"}
        /\ accepted' = accepted + 1 /\ recorded' = recorded
        /\ g_running' = g_running
        /\ late' = IF g_running THEN late ELSE late + 1
    BY <1>4 DEF SubmitAccepted, SubmitSites, AfterSubmit, counters
  <2>2. JobPhase = "issuing" /\ JobPhase' = "issuing" /\ ~Recording
    BY <2>1 DEF JobPhase, Ended, SubmitSites, Recording
  <2>3. in_flight < Capacity
    BY <1>2, <2>1 DEF Places
  <2>4. accepted - recorded < Capacity
    BY <2>2, <2>3, WindowIs
  <2>5. (accepted - recorded)' = (accepted - recorded) + 1
    BY <1>1, <2>1
  <2>6. g_running \/ late = 0
    BY <2>1 DEF OneLate
  <2>7. Job!Issue
    BY <2>1, <2>2, <2>4, <2>5, <2>6 DEF Job!Issue
  <2> QED
    BY <2>7 DEF Job!Next
<1>5. CASE RecordLatency
  <2>1. /\ pc = "each" /\ pc' = "count_io" /\ recorded' = recorded + 1
        /\ UNCHANGED <<g_running, accepted, late>> /\ Returned # {}
    BY <1>5 DEF RecordLatency, history
  <2>2. JobPhase = "issuing" /\ JobPhase' = "issuing" /\ ~Recording
    BY <2>1 DEF JobPhase, Ended, Recording
  <2>3. accepted - recorded > 0
    <3>1. is_open
      BY <1>2, <2>1 DEF Lifetime
    <3> QED
      BY <2>1, <2>2, <3>1, WindowIs, BatchInFlight
  <2>4. (accepted - recorded)' = (accepted - recorded) - 1
    BY <1>1, <2>1
  <2>5. Job!Record
    BY <2>1, <2>2, <2>3, <2>4 DEF Job!Record
  <2> QED
    BY <2>5 DEF Job!Next
<1>6. CASE LoopTest \/ SyncTest
  <2>1. /\ pc \in {"loop_test", "sync_test"}
        /\ pc' \in {"poll", "sync_submit", "done"}
        /\ pc' = "done" => ~g_running /\ (pc = "sync_test" \/ ~(in_flight > 0))
        /\ UNCHANGED <<g_running, accepted, recorded, late>>
    BY <1>6 DEF LoopTest, SyncTest, TestRunning, counters, history
  <2>2. (accepted - recorded)' = accepted - recorded
    BY <2>1
  <2>3. JobPhase = "issuing"
    BY <2>1 DEF JobPhase, Ended
  <2>4. CASE pc' = "done"
    <3>1. JobPhase' = "finished" /\ ~Recording
      BY <2>1, <2>4 DEF JobPhase, Ended, Recording
    <3>2. in_flight = 0
      <4>1. pc = "sync_test" => in_flight = 0
        BY <1>2 DEF Places, SyncPCs
      <4> QED
        BY <1>1, <2>1, <2>4, <4>1
    <3>3. accepted - recorded = 0
      BY <3>1, <3>2, WindowIs
    <3>4. Job!Finish
      BY <2>1, <2>2, <2>3, <2>4, <3>1, <3>3 DEF Job!Finish
    <3> QED
      BY <3>4 DEF Job!Next
  <2>5. CASE pc' \in {"poll", "sync_submit"}
    <3>1. JobPhase' = "issuing"
      BY <2>5 DEF JobPhase, Ended
    <3> QED
      BY <2>1, <2>2, <2>3, <3>1 DEF Job!vars
  <2> QED
    BY <2>1, <2>4, <2>5
<1>7. CASE SubmitRefused \/ PollThrows
  <2>1. /\ pc \in SubmitSites \cup {"poll"} /\ pc' = "catch"
        /\ UNCHANGED <<g_running, accepted, recorded, late>>
    BY <1>7 DEF SubmitRefused, PollThrows, counters, history
  <2>2. (accepted - recorded)' = accepted - recorded
    BY <2>1
  <2>3. JobPhase = "issuing" /\ JobPhase' = "failed"
    BY <2>1 DEF JobPhase, Ended, SubmitSites
  <2>4. Job!Fail
    BY <2>1, <2>2, <2>3 DEF Job!Fail
  <2> QED
    BY <2>4 DEF Job!Next
<1>8. CASE ClearRunning
  <2>1. /\ pc = "clear_running" /\ pc' = "done" /\ g_running' = FALSE
        /\ UNCHANGED <<accepted, recorded, late>>
    BY <1>8 DEF ClearRunning, counters, history
  <2>2. (accepted - recorded)' = accepted - recorded
    BY <2>1
  <2>3. JobPhase = "failed" /\ JobPhase' = "finished"
    BY <2>1 DEF JobPhase, Ended
  <2>4. Job!GiveUp
    BY <2>1, <2>2, <2>3 DEF Job!GiveUp
  <2> QED
    BY <2>4 DEF Job!Next
<1>9. CASE StopRun
  <2>1. /\ g_running /\ g_running' = FALSE /\ pc' = pc
        /\ UNCHANGED <<accepted, recorded, late>>
    BY <1>9 DEF StopRun, counters, history
  <2>2. (accepted - recorded)' = accepted - recorded
    BY <2>1
  <2>3. JobPhase' = JobPhase
    BY <2>1 DEF JobPhase, Ended
  <2>4. Job!Stop
    BY <2>1, <2>2, <2>3 DEF Job!Stop
  <2> QED
    BY <2>4 DEF Job!Next
<1>10. CASE ~(\/ PassBarrier \/ SubmitAccepted \/ RecordLatency \/ LoopTest
              \/ SyncTest \/ SubmitRefused \/ PollThrows \/ ClearRunning
              \/ StopRun)
  BY <1>10, HiddenStep
<1> QED
  BY <1>3, <1>4, <1>5, <1>6, <1>7, <1>8, <1>9, <1>10

\* RunAsyncLoop and RunSyncLoop with their failure path implement the closed
\* loop: the window never exceeds the iodepth, at most one request is issued
\* after the stop, only a failure ends a loop with requests in flight.
THEOREM WorkerImplementsJobLoop == Spec => ImplementsJobLoop
<1>1. Init => Job!Init
  <2> SUFFICES ASSUME Init PROVE Job!Init
    OBVIOUS
  <2>1. /\ g_running = TRUE /\ pc = "ctor" /\ accepted = 0
        /\ recorded = 0 /\ late = 0
    BY DEF Init
  <2>2. JobPhase = "waiting" /\ accepted - recorded = 0
    BY <2>1 DEF JobPhase
  <2> QED
    BY <2>1, <2>2 DEF Job!Init
<1>2. Init => OneLate
  BY DEF Init, OneLate
<1>3. OneLate /\ [Next]_vars => OneLate'
  BY OneLateStep
<1>4. IInv /\ Ledger /\ OneLate /\ [Next]_vars => [Job!Next]_(Job!vars)
  BY JobStep
<1> QED
  BY <1>1, <1>2, <1>3, <1>4, SpecLedger, PTL DEF Spec, ImplementsJobLoop, Job!Spec
=============================================================================
