--------------------------- MODULE EnginesProofs ---------------------------
(***************************************************************************)
(* Theorems about Engines, for every queue depth, block size, set of ids   *)
(* and size of the submission ring.                                        *)
(*                                                                         *)
(* That the kernel only touches requests in flight is not inductive: a     *)
(* reap removes requests from in_flight_, so an event must not be queued   *)
(* twice nor be of a request the kernel still performs (KernelInv), and an *)
(* entry left in the ring must be of a request that still is in flight,    *)
(* which a failed submission breaks and a Close repairs (RingInv).  That   *)
(* an iocb is free whenever the queue has room needs the accounting of the *)
(* pool (PoolInv).                                                         *)
(***************************************************************************)
EXTENDS Engines, FiniteSetTheorems, SequenceTheorems, TLAPS

\* The descriptor, as the engine remembers it and as it is.
FileInv ==
  /\ direct_effective <=> open_as = "direct"
  /\ open_as = "direct" => direct
  /\ fd <=> open_as # "closed"
  /\ fd <=> call \in {"setup", "idle", "poll", "failed", "drain", "destroy"}

\* Requests the kernel performs or has finished.
Held == kernel \cup ToSet(events)

KernelInv ==
  /\ call # "closed" => Held \subseteq InFlight
  /\ kernel \cap ToSet(events) = {}
  /\ IsInjective(events)
  /\ call \in {"unopened", "setup"} => InFlight = {}
  /\ call = "poll" => InFlight # {}
  /\ call = "destroy" /\ kind = "io_uring" => drain_failed \/ InFlight = {}
  /\ call = "closed" => drain_failed \/ kernel = {}

\* The synchronous engines never use the kernel's queues; they keep a
\* completion exactly while a request is in flight, and it is of that request.
SyncInv ==
  kind = "sync" =>
    /\ call \in {"unopened", "idle", "poll", "closed"}
    /\ Held = {}
    /\ has_completion <=> InFlight # {}
    /\ \A id \in InFlight : /\ last_completion \in Contract!Completion
                            /\ last_completion.direction = in_flight[id]

\* Until a submission has failed, an entry of the ring is of a request in
\* flight the kernel does not have yet.
RingInv ==
  kind = "io_uring" /\ call \in {"unopened", "setup", "idle", "poll"} =>
    /\ ToSet(sq) \subseteq InFlight \ Held
    /\ IsInjective(sq)

\* Each iocb is free or of one request in flight.
PoolInv ==
  kind = "libaio" /\ call \in {"idle", "poll"} =>
    /\ Len(free_iocbs) + Cardinality(InFlight) = Depth
    /\ IsInjective(free_iocbs)
    /\ \A id \in InFlight : iocb_of[id] \in Iocbs \ ToSet(free_iocbs)
    /\ \A a, b \in InFlight : iocb_of[a] = iocb_of[b] => a = b

IInv == TypeOK /\ FileInv /\ KernelInv /\ SyncInv /\ RingInv /\ PoolInv

-----------------------------------------------------------------------------
\* Sequences without duplicates.

\* An element that is not in the sequence is appended.
LEMMA AppendNew ==
  ASSUME NEW S, NEW s \in Seq(S), NEW x \in S,
         IsInjective(s), x \notin ToSet(s)
  PROVE  /\ Append(s, x) \in Seq(S)
         /\ ToSet(Append(s, x)) = ToSet(s) \cup {x}
         /\ IsInjective(Append(s, x))
BY DEF ToSet, IsInjective

\* The first n elements are taken off.
LEMMA TakeFirst ==
  ASSUME NEW S, NEW s \in Seq(S), IsInjective(s), NEW n \in 0 .. Len(s)
  PROVE  /\ SubSeq(s, n + 1, Len(s)) \in Seq(S)
         /\ IsInjective(SubSeq(s, n + 1, Len(s)))
         /\ {s[i] : i \in 1 .. n} \subseteq ToSet(s)
         /\ {s[i] : i \in 1 .. n} \subseteq S
         /\ ToSet(SubSeq(s, n + 1, Len(s)))
              = ToSet(s) \ {s[i] : i \in 1 .. n}
<1> DEFINE rest == SubSeq(s, n + 1, Len(s))
           first == {s[i] : i \in 1 .. n}
<1>1. /\ rest \in Seq(S) /\ Len(rest) = Len(s) - n
      /\ \A i \in 1 .. Len(s) - n : rest[i] = s[n + i]
  OBVIOUS
<1>2. first \subseteq ToSet(s) /\ first \subseteq S
  BY DEF ToSet
<1> HIDE DEF rest
<1> DOMAIN rest = 1 .. Len(s) - n /\ DOMAIN s = 1 .. Len(s)
  BY <1>1
<1>3. IsInjective(rest)
  <2>1. ASSUME NEW i \in 1 .. Len(s) - n, NEW j \in 1 .. Len(s) - n,
               rest[i] = rest[j]
        PROVE  i = j
    <3>1. s[n + i] = s[n + j] /\ n + i \in 1 .. Len(s) /\ n + j \in 1 .. Len(s)
      BY <1>1, <2>1
    <3>2. n + i = n + j
      BY <3>1 DEF IsInjective
    <3> QED
      BY <3>2
  <2> QED
    BY <2>1 DEF IsInjective
<1>4. ToSet(rest) \subseteq ToSet(s) \ first
  <2>1. ASSUME NEW i \in 1 .. Len(s) - n
        PROVE  rest[i] \in ToSet(s) \ first
    <3>1. rest[i] = s[n + i] /\ n + i \in 1 .. Len(s)
      BY <1>1
    <3>2. \A j \in 1 .. n : j # n + i /\ j \in 1 .. Len(s)
      OBVIOUS
    <3>3. \A j \in 1 .. n : s[j] # s[n + i]
      BY <3>1, <3>2 DEF IsInjective
    <3> QED
      BY <3>1, <3>3 DEF ToSet
  <2> QED
    BY <2>1 DEF ToSet
<1>5. ASSUME NEW i \in 1 .. Len(s), s[i] \notin first
      PROVE  s[i] \in ToSet(rest)
  <2>1. i - n \in 1 .. Len(s) - n
    BY <1>5
  <2> QED
    BY <1>1, <2>1 DEF ToSet
<1>6. ToSet(s) \ first \subseteq ToSet(rest)
  BY <1>5 DEF ToSet
<1> QED
  BY <1>1, <1>2, <1>3, <1>4, <1>6 DEF rest

\* A sequence without duplicates has as many elements as its set.
LEMMA CountDistinct ==
  ASSUME NEW S, NEW s \in Seq(S), IsInjective(s), NEW n \in 0 .. Len(s)
  PROVE  /\ IsFiniteSet({s[i] : i \in 1 .. n})
         /\ Cardinality({s[i] : i \in 1 .. n}) = n
<1> DEFINE T == {s[i] : i \in 1 .. n}
           f == [i \in 1 .. n |-> s[i]]
<1>1. f \in Bijection(1 .. n, T)
  BY DEF Bijection, Injection, Surjection, IsInjective
<1>2. ExistsBijection(1 .. n, T)
  BY <1>1 DEF ExistsBijection
<1>3. n \in Nat /\ IsFiniteSet(1 .. n) /\ Cardinality(1 .. n) = n
  BY FS_Interval
<1> QED
  BY <1>2, <1>3, FS_Bijection

-----------------------------------------------------------------------------
\* The set of requests in flight.

\* There are finitely many requests in flight.
LEMMA FlightFinite == /\ IsFiniteSet(InFlight) /\ InFlight \subseteq Ids
                      /\ Cardinality(InFlight) \in Nat
<1>1. InFlight \in SUBSET Ids
  BY DEF InFlight
<1> QED
  BY <1>1, EngineAssumption, FS_Subset, FS_CardinalityType

\* A submission puts one request in flight.
LEMMA FlightGrows ==
  ASSUME StateTypeOK, NEW id \in Ids \ InFlight,
         NEW d \in Contract!Directions,
         in_flight' = [in_flight EXCEPT ![id] = d]
  PROVE  /\ in_flight' \in [Ids -> Contract!Directions \cup {"none"}]
         /\ InFlight' = InFlight \cup {id}
         /\ Cardinality(InFlight') = Cardinality(InFlight) + 1
<1>1. /\ in_flight' \in [Ids -> Contract!Directions \cup {"none"}]
      /\ InFlight' = InFlight \cup {id}
  BY DEF StateTypeOK, Contract!Directions, InFlight
<1> QED
  BY <1>1, FlightFinite, FS_AddElement

\* Erase takes requests out of flight.
LEMMA FlightShrinks ==
  ASSUME StateTypeOK, NEW ids, in_flight' = Erase(ids)
  PROVE  /\ in_flight' \in [Ids -> Contract!Directions \cup {"none"}]
         /\ InFlight' = InFlight \ ids
BY DEF StateTypeOK, Erase, InFlight

-----------------------------------------------------------------------------
\* The file.

\* Opening keeps what the engine remembers of the descriptor true.
LEMMA FileOpened ==
  ASSUME FileTypeOK, FileInv, NEW next \in {"setup", "idle"}, OpensFile(next)
  PROVE  FileTypeOK' /\ FileInv' /\ call' \in Calls
<1>1. CASE OpenFile /\ call' = next
  <2>1. PICK result \in OpenResults :
           /\ fd' = TRUE
           /\ direct_effective' = result.direct_effective
           /\ open_as' = result.flags
           /\ direct' = direct
    BY <1>1, Zenon DEF OpenFile
  <2>2. PICK flags \in IF direct THEN {"direct", "buffered"} ELSE {"buffered"} :
           result = [flags |-> flags, direct_effective |-> flags = "direct"]
    BY Zenon DEF OpenResults
  <2>3. result.flags = flags /\ result.direct_effective = (flags = "direct")
    BY <2>2, Zenon
  <2>4. (flags = "direct") \in BOOLEAN
    BY Zenon
  <2>5. direct_effective' \in BOOLEAN /\ fd' \in BOOLEAN
    BY <2>1, <2>3, <2>4, Zenon
  <2>6. /\ fd' /\ (direct_effective' <=> flags = "direct")
        /\ open_as' = flags /\ direct' = direct
    BY <2>1, <2>3, Zenon
  <2>7. flags \in {"direct", "buffered"} /\ (flags = "direct" => direct)
    BY <2>2
  <2> QED
    BY <1>1, <2>5, <2>6, <2>7 DEF FileTypeOK, FileInv, Calls
<1>2. CASE UNCHANGED fileVars /\ call' = "closed"
  BY <1>2 DEF OpensFile, FileTypeOK, FileInv, fileVars, Calls
<1> QED
  BY <1>1, <1>2 DEF OpensFile

\* So does closing it.
LEMMA FileClosed ==
  ASSUME FileTypeOK, FileInv, call \notin {"unopened", "closed"}, call \in Calls,
         CloseFile, call' = "closed"
  PROVE  FileTypeOK' /\ FileInv' /\ call' \in Calls
<1>1. fd' \in BOOLEAN /\ direct_effective' \in BOOLEAN
  BY Zenon DEF CloseFile
<1>2. ~fd' /\ ~direct_effective' /\ open_as' = "closed" /\ direct' = direct
  BY DEF CloseFile, FileInv, Calls
<1> QED
  BY <1>1, <1>2 DEF FileTypeOK, FileInv, Calls

\* No other step touches the file.
LEMMA FileStep ==
  ASSUME IInv, [Next]_vars
  PROVE  FileTypeOK' /\ FileInv' /\ call' \in Calls
<1> DEFINE Opens == LibaioOpen \/ UringOpen \/ SyncOpen
           Closes == \/ SetupThrows \/ LibaioDestroy \/ UringQueueExit
                     \/ SyncClose
<1>0. FileTypeOK /\ FileInv /\ call \in Calls
  BY DEF IInv, TypeOK, StateTypeOK
<1>1. CASE Opens
  BY <1>0, <1>1, FileOpened DEF LibaioOpen, UringOpen, SyncOpen
<1>2. CASE Closes
  <2>1. /\ CloseFile /\ call' = "closed"
        /\ call \in {"setup", "idle", "failed", "destroy"}
    BY <1>2 DEF SetupThrows, LibaioDestroy, UringQueueExit, SyncClose
  <2> QED
    BY <1>0, <2>1, FileClosed
<1>3. CASE ~Opens /\ ~Closes
  <2>1. /\ UNCHANGED fileVars
        /\ \/ call' = call
           \/ /\ call \in {"setup", "idle", "poll", "failed", "drain"}
              /\ call' \in {"idle", "poll", "failed", "drain", "destroy"}
    BY <1>3 DEF Next, Libaio, Uring, Sync, Caller, Kernel, LibaioNext,
          LibaioReturns, UringNext, UringReturns, SyncNext, vars, stateVars,
          LibaioSetup, LibaioSubmit, LibaioSubmitFails, LibaioReap,
          LibaioPollFails, LibaioClose, LibaioDrain, LibaioDrainGivesUp,
          UringSetup, UringSubmit, UringSubmitFails, UringReap, UringPollFails,
          UringClose, UringDrain, UringDrainFails, SyncSubmit,
          SyncSubmitThrows, SyncPerforms, SyncPoll, BeginPoll, Consume, KernelCompletes, Submittable
  <2> QED
    BY <1>0, <2>1 DEF FileTypeOK, FileInv, fileVars, Calls
<1> QED
  BY <1>1, <1>2, <1>3

-----------------------------------------------------------------------------
\* The kernel.

QueueTypes == /\ in_flight \in [Ids -> Contract!Directions \cup {"none"}]
              /\ kernel \subseteq Ids
              /\ events \in Seq(Ids)

\* The invariant gives the types of the queues.
LEMMA QueuesTyped == IInv => QueueTypes /\ StateTypeOK /\ call \in Calls
BY DEF IInv, TypeOK, StateTypeOK, QueueTypes

\* An engine keeps its kind and has no use for the others' variables.
LEMMA KindKept ==
  ASSUME [Next]_vars
  PROVE  /\ kind' = kind
         /\ kind # "libaio" => UNCHANGED libaioVars
         /\ kind # "io_uring" => UNCHANGED uringVars
         /\ kind # "sync" => UNCHANGED syncVars
BY DEF Next, Libaio, Uring, Sync, Caller, Kernel, vars

\* The effective depth is the queue's, or one.
LEMMA DepthBound == EffectiveDepth \in Nat /\ EffectiveDepth <= Depth
BY EngineAssumption DEF EffectiveDepth

\* The worker of a synchronous engine has nothing in flight when it submits:
\* the engine performs the request, and does not throw.
LEMMA SyncSubmits ==
  ASSUME IInv, kind = "sync", NEW id \in Ids, NEW d \in Contract!Directions,
         SyncSubmit(id, d)
  PROVE  /\ ~has_completion /\ SyncPerforms(id, d)
         /\ call = "idle" /\ InFlight = {}
<1>1. call = "idle" /\ Cardinality(InFlight) < 1
  BY DEF SyncSubmit, Submittable, EffectiveDepth
<1>2. InFlight = {}
  BY <1>1, FlightFinite, FS_EmptySet
<1>3. ~has_completion
  BY <1>2 DEF IInv, SyncInv
<1> QED
  BY <1>1, <1>2, <1>3 DEF SyncSubmit

\* The requests of the first n events are taken off, in a poll or a drain.
LEMMA Reaped ==
  ASSUME IInv, call # "closed", NEW n \in 1 .. Len(events),
         \/ in_flight' = Erase(Taken(n) \cap InFlight)
         \/ in_flight' = Erase(Taken(n)),
         events' = Rest(n), kernel' = kernel
  PROVE  /\ QueueTypes'
         /\ Taken(n) # {} /\ Taken(n) \subseteq InFlight
         /\ InFlight' = InFlight \ Taken(n)
         /\ Taken(n) \subseteq ToSet(events)
         /\ ToSet(events') = ToSet(events) \ Taken(n)
         /\ Held' \subseteq InFlight'
         /\ kernel' \cap ToSet(events') = {}
         /\ IsInjective(events')
<1>0. QueueTypes /\ StateTypeOK /\ n \in 0 .. Len(events)
  BY QueuesTyped DEF QueueTypes
<1>1. /\ Held \subseteq InFlight /\ kernel \cap ToSet(events) = {}
      /\ IsInjective(events)
  BY DEF IInv, KernelInv
<1>2. /\ events' \in Seq(Ids) /\ IsInjective(events')
      /\ Taken(n) \subseteq ToSet(events)
      /\ ToSet(events') = ToSet(events) \ Taken(n)
  BY <1>0, <1>1, TakeFirst DEF QueueTypes, Taken, Rest
<1>3. Taken(n) \subseteq InFlight
  BY <1>1, <1>2 DEF Held
<1>4. events[1] \in Taken(n)
  BY DEF Taken
<1>5. in_flight' = Erase(Taken(n))
  <2>1. Taken(n) \cap InFlight = Taken(n)
    BY <1>3
  <2> QED
    BY <2>1, Zenon
<1>6. /\ InFlight' = InFlight \ Taken(n)
      /\ in_flight' \in [Ids -> Contract!Directions \cup {"none"}]
  BY <1>0, <1>5, FlightShrinks
<1>7. QueueTypes'
  BY <1>0, <1>2, <1>6 DEF QueueTypes
<1>8. Held' \subseteq InFlight' /\ kernel' \cap ToSet(events') = {}
  BY <1>1, <1>2, <1>6 DEF Held
<1> QED
  BY <1>2, <1>3, <1>4, <1>6, <1>7, <1>8

\* Close destroys the queue and forgets everything.
LEMMA Forgotten ==
  ASSUME IInv, in_flight' = Erase(Ids), events' = <<>>, kernel' = kernel
  PROVE  /\ QueueTypes' /\ InFlight' = {}
         /\ kernel' \cap ToSet(events') = {}
         /\ IsInjective(events')
<1>0. QueueTypes /\ StateTypeOK
  BY QueuesTyped
<1>1. /\ InFlight' = InFlight \ Ids
      /\ in_flight' \in [Ids -> Contract!Directions \cup {"none"}]
  BY <1>0, FlightShrinks
<1>2. events' \in Seq(Ids) /\ ToSet(events') = {} /\ IsInjective(events')
  BY DEF ToSet, IsInjective
<1> QED
  BY <1>0, <1>1, <1>2, FlightFinite DEF QueueTypes

\* io_uring_submit hands over the n oldest entries of the ring.
LEMMA HandedOver ==
  ASSUME IInv, kind = "io_uring", NEW id \in Ids, NEW d \in Contract!Directions,
         UringSubmit(id, d)
  PROVE  /\ QueueTypes'
         /\ InFlight' = InFlight \cup {id}
         /\ Held' \subseteq InFlight'
         /\ kernel' \cap ToSet(events') = {}
         /\ sq' \in Seq(Ids) /\ IsInjective(sq')
         /\ ToSet(sq') \subseteq InFlight' \ Held'
<1>0. QueueTypes /\ StateTypeOK /\ sq \in Seq(Ids)
  BY QueuesTyped DEF IInv, TypeOK, UringTypeOK
<1>1. /\ call = "idle" /\ id \notin InFlight /\ events' = events
      /\ in_flight' = [in_flight EXCEPT ![id] = d]
  BY DEF UringSubmit, Submittable
<1>2. PICK n \in 0 .. Len(sq) + 1 :
        LET ring == Append(sq, id)
        IN  /\ kernel' = kernel \cup {ring[i] : i \in 1 .. n}
            /\ sq' = SubSeq(ring, n + 1, Len(ring))
  BY Zenon DEF UringSubmit
<1>3. /\ Held \subseteq InFlight /\ kernel \cap ToSet(events) = {}
      /\ ToSet(sq) \subseteq InFlight \ Held /\ IsInjective(sq)
  BY <1>1 DEF IInv, KernelInv, RingInv
<1>4. PICK ring \in Seq(Ids) : ring = Append(sq, id)
  <2>1. Append(sq, id) \in Seq(Ids)
    BY <1>0
  <2> QED
    BY <2>1, Zenon
<1>5. /\ IsInjective(ring) /\ ToSet(ring) = ToSet(sq) \cup {id}
      /\ n \in 0 .. Len(ring)
  BY <1>0, <1>1, <1>3, <1>4, AppendNew
<1> DEFINE taken == {ring[i] : i \in 1 .. n}
           rest == SubSeq(ring, n + 1, Len(ring))
<1>6. /\ rest \in Seq(Ids) /\ IsInjective(rest)
      /\ taken \subseteq Ids /\ ToSet(rest) = ToSet(ring) \ taken
      /\ taken \subseteq ToSet(ring)
  <2>0. IsInjective(ring) /\ n \in 0 .. Len(ring)
    BY <1>5
  <2>1. rest \in Seq(Ids)
    BY <2>0, TakeFirst
  <2>2. IsInjective(rest)
    BY <2>0, TakeFirst
  <2>3. taken \subseteq Ids
    BY <2>0, TakeFirst
  <2>4. taken \subseteq ToSet(ring)
    BY <2>0, TakeFirst
  <2>5. ToSet(rest) = ToSet(ring) \ taken
    BY <2>0, TakeFirst
  <2> QED
    BY <2>1, <2>2, <2>3, <2>4, <2>5
<1>7. /\ in_flight' \in [Ids -> Contract!Directions \cup {"none"}]
      /\ InFlight' = InFlight \cup {id}
  BY <1>0, <1>1, FlightGrows
<1> HIDE DEF taken, rest
<1>8. /\ kernel' = kernel \cup taken /\ taken \subseteq ToSet(sq) \cup {id}
      /\ ToSet(sq') = (ToSet(sq) \cup {id}) \ taken
      /\ taken \subseteq Ids
      /\ sq' \in Seq(Ids) /\ IsInjective(sq')
  <2>1. kernel' = kernel \cup taken /\ sq' = rest
    BY <1>2, <1>4, Zenon DEF taken, rest
  <2> QED
    BY <1>5, <1>6, <2>1
<1>9. /\ Held' \subseteq InFlight' /\ kernel' \cap ToSet(events') = {}
      /\ ToSet(sq') \subseteq InFlight' \ Held'
  BY <1>1, <1>3, <1>7, <1>8 DEF Held
<1> QED
  BY <1>0, <1>1, <1>7, <1>8, <1>9 DEF QueueTypes

\* The steps that move requests, and those that only move the call on.
MovesRequests ==
  \/ kind = "libaio" /\ \E id \in Ids, d \in Contract!Directions :
                          LibaioSubmit(id, d)
  \/ kind = "io_uring" /\ \E id \in Ids, d \in Contract!Directions :
                            UringSubmit(id, d)
  \/ kind = "sync" /\ \E id \in Ids, d \in Contract!Directions :
                        SyncSubmit(id, d)
  \/ kind = "libaio" /\ LibaioReap
  \/ kind = "io_uring" /\ UringReap
  \/ kind = "libaio" /\ LibaioDrain
  \/ kind = "io_uring" /\ UringDrain
  \/ kind = "io_uring" /\ UringDrainFails
  \/ kind = "libaio" /\ LibaioDestroy
  \/ kind = "io_uring" /\ UringQueueExit
  \/ kind = "sync" /\ (SyncPoll \/ SyncClose)
  \/ Kernel

MovesCall ==
  /\ UNCHANGED <<in_flight, kernel, events, drain_failed>>
  /\ \/ call' = call
     \/ call = "unopened" /\ call' \in {"setup", "closed"} /\ kind # "sync"
     \/ call = "unopened" /\ call' \in {"idle", "closed"} /\ kind = "sync"
     \/ call = "setup" /\ call' \in {"idle", "closed"}
     \/ call = "idle" /\ call' = "poll" /\ InFlight # {}
     \/ call \in {"idle", "poll"} /\ call' = "failed" /\ kind # "sync"
     \/ /\ call \in {"idle", "failed"} /\ kind # "sync"
        /\ call' = IF InFlight = {} THEN "destroy" ELSE "drain"
     \/ call = "drain" /\ call' = "destroy" /\ kind = "libaio"

\* What moves no request is a move from one call of the interface to another.
LEMMA CallMoves ==
  ASSUME [Next]_vars, ~MovesRequests
  PROVE  MovesCall
<1> USE DEF MovesCall, vars, stateVars, queueVars, uringVars, OpensFile,
            SetupThrows
<1>1. CASE Libaio
  <2>1. \/ LibaioOpen \/ LibaioSetup \/ \E id \in Ids : LibaioSubmitFails(id)
        \/ LibaioClose \/ LibaioDrainGivesUp \/ LibaioPollFails
    BY <1>1 DEF Libaio, LibaioNext, LibaioReturns, MovesRequests
  <2> QED
    BY <1>1, <2>1 DEF Libaio, LibaioOpen, LibaioSetup, LibaioSubmitFails,
          LibaioClose, LibaioDrainGivesUp, LibaioPollFails, Submittable
<1>2. CASE Uring
  <2>1. \/ UringOpen \/ UringSetup \/ \E id \in Ids : UringSubmitFails(id)
        \/ UringClose \/ UringPollFails
    BY <1>2 DEF Uring, UringNext, UringReturns, MovesRequests
  <2> QED
    BY <1>2, <2>1 DEF Uring, UringOpen, UringSetup, UringSubmitFails,
          UringClose, UringPollFails, Submittable
<1>3. CASE Sync
  <2>1. SyncOpen
    BY <1>3 DEF Sync, SyncNext, MovesRequests
  <2> QED
    BY <1>3, <2>1 DEF Sync, SyncOpen
<1>4. CASE Caller \/ UNCHANGED vars
  BY <1>4 DEF Caller, BeginPoll, Consume
<1> QED
  BY <1>1, <1>2, <1>3, <1>4 DEF Next, MovesRequests

\* The kernel holds only requests in flight, each once.
LEMMA KernelStep ==
  ASSUME IInv, [Next]_vars
  PROVE  QueueTypes' /\ KernelInv' /\ drain_failed' \in BOOLEAN
<1>0. /\ QueueTypes /\ StateTypeOK /\ call \in Calls /\ KernelInv /\ SyncInv
      /\ kind' = kind /\ drain_failed \in BOOLEAN
      /\ kind \in {"libaio", "io_uring", "sync"}
      /\ kind # "io_uring" => drain_failed' = drain_failed
  BY QueuesTyped, KindKept DEF IInv, TypeOK, UringTypeOK, uringVars
<1>1. ASSUME kind = "libaio", NEW id \in Ids, NEW d \in Contract!Directions,
             LibaioSubmit(id, d)
      PROVE  QueueTypes' /\ KernelInv' /\ drain_failed' \in BOOLEAN
  <2>1. /\ call = "idle" /\ call' = "idle" /\ id \notin InFlight
        /\ in_flight' = [in_flight EXCEPT ![id] = d]
        /\ kernel' = kernel \cup {id} /\ events' = events
    BY <1>1 DEF LibaioSubmit, Submittable
  <2>2. /\ in_flight' \in [Ids -> Contract!Directions \cup {"none"}]
        /\ InFlight' = InFlight \cup {id}
    BY <1>0, <2>1, FlightGrows
  <2> QED
    BY <1>0, <1>1, <2>1, <2>2 DEF QueueTypes, KernelInv, Held
<1>2. ASSUME kind = "io_uring", NEW id \in Ids, NEW d \in Contract!Directions,
             UringSubmit(id, d)
      PROVE  QueueTypes' /\ KernelInv' /\ drain_failed' \in BOOLEAN
  <2>1. /\ call = "idle" /\ call' = "idle" /\ events' = events
        /\ drain_failed' = drain_failed
    BY <1>2 DEF UringSubmit, Submittable
  <2>2. /\ QueueTypes' /\ InFlight' = InFlight \cup {id}
        /\ Held' \subseteq InFlight' /\ kernel' \cap ToSet(events') = {}
    BY <1>2, HandedOver
  <2> QED
    BY <1>0, <2>1, <2>2 DEF KernelInv
<1>3. ASSUME kind = "sync", NEW id \in Ids, NEW d \in Contract!Directions,
             SyncSubmit(id, d)
      PROVE  QueueTypes' /\ KernelInv' /\ drain_failed' \in BOOLEAN
  <2>1. /\ call = "idle" /\ call' = "idle" /\ id \notin InFlight
        /\ in_flight' = [in_flight EXCEPT ![id] = d]
        /\ kernel' = kernel /\ events' = events
    BY <1>3, SyncSubmits DEF SyncPerforms
  <2>2. /\ in_flight' \in [Ids -> Contract!Directions \cup {"none"}]
        /\ InFlight' = InFlight \cup {id}
    BY <1>0, <2>1, FlightGrows
  <2> QED
    BY <1>0, <1>3, <2>1, <2>2 DEF QueueTypes, KernelInv, Held
<1>4. CASE \/ kind = "libaio" /\ LibaioReap
           \/ kind = "io_uring" /\ UringReap
  <2>1. PICK n \in 1 .. Len(events) :
          /\ in_flight' = Erase(Taken(n) \cap InFlight)
          /\ events' = Rest(n)
    BY <1>4 DEF LibaioReap, UringReap
  <2>2. /\ call = "poll" /\ call' = "idle" /\ kernel' = kernel
        /\ drain_failed' = drain_failed
    BY <1>0, <1>4 DEF LibaioReap, UringReap, uringVars
  <2>3. /\ QueueTypes' /\ Held' \subseteq InFlight'
        /\ kernel' \cap ToSet(events') = {} /\ IsInjective(events')
    BY <2>1, <2>2, Reaped
  <2> QED
    BY <1>0, <2>2, <2>3 DEF KernelInv
<1>5. CASE kind = "libaio" /\ LibaioDrain
  <2>1. PICK n \in 1 .. Len(events) :
          in_flight' = Erase(Taken(n)) /\ events' = Rest(n)
    BY <1>5 DEF LibaioDrain
  <2>2. /\ call = "drain" /\ call' \in {"drain", "destroy"}
        /\ kernel' = kernel
    BY <1>5 DEF LibaioDrain
  <2>3. /\ QueueTypes' /\ Held' \subseteq InFlight'
        /\ kernel' \cap ToSet(events') = {} /\ IsInjective(events')
    BY <2>1, <2>2, Reaped
  <2> QED
    BY <1>0, <1>5, <2>2, <2>3 DEF KernelInv
<1>6. CASE kind = "io_uring" /\ UringDrain
  <2>1. /\ call = "drain" /\ kernel' = kernel /\ events # <<>>
        /\ drain_failed' = drain_failed
        /\ call' = IF InFlight = {Head(events)} THEN "destroy" ELSE "drain"
        /\ in_flight' = Erase({Head(events)}) /\ events' = Tail(events)
    BY <1>6 DEF UringDrain, uringVars
  <2>2. /\ 1 \in 1 .. Len(events) /\ Head(events) = events[1]
        /\ Tail(events) = Rest(1)
    BY <1>0, <2>1 DEF QueueTypes, Rest
  <2>3. Taken(1) = {Head(events)}
    BY <2>2 DEF Taken
  <2>4. /\ QueueTypes' /\ Held' \subseteq InFlight'
        /\ kernel' \cap ToSet(events') = {} /\ IsInjective(events')
        /\ InFlight' = InFlight \ Taken(1)
    BY <2>1, <2>2, <2>3, Reaped
  <2> QED
    BY <1>0, <2>1, <2>3, <2>4 DEF KernelInv
<1>7. CASE kind = "io_uring" /\ UringDrainFails
  <2>1. drain_failed' \in BOOLEAN /\ drain_failed'
    BY <1>7, Zenon DEF UringDrainFails
  <2>2. /\ call = "drain" /\ call' = "destroy"
        /\ UNCHANGED <<in_flight, kernel, events>>
    BY <1>7 DEF UringDrainFails, queueVars
  <2>3. QueueTypes' /\ Held' = Held /\ InFlight' = InFlight
    BY <1>0, <2>2 DEF QueueTypes, Held, InFlight
  <2> QED
    BY <1>0, <2>1, <2>2, <2>3 DEF KernelInv
<1>8. CASE \/ kind = "libaio" /\ LibaioDestroy
           \/ kind = "io_uring" /\ UringQueueExit
  <2>1. /\ call = "destroy" /\ call' = "closed" /\ in_flight' = Erase(Ids)
        /\ events' = <<>> /\ kernel' = kernel /\ drain_failed' = drain_failed
        /\ kind = "libaio" => kernel = {}
    BY <1>0, <1>8 DEF LibaioDestroy, UringQueueExit
  <2>2. /\ QueueTypes' /\ kernel' \cap ToSet(events') = {}
        /\ IsInjective(events')
    BY <2>1, Forgotten
  <2>3. kernel = {} \/ drain_failed
    <3>1. kernel \subseteq InFlight
      BY <1>0, <2>1 DEF KernelInv, Held
    <3>2. kind = "io_uring" => drain_failed \/ InFlight = {}
      BY <1>0, <2>1 DEF KernelInv
    <3> QED
      BY <1>8, <2>1, <3>1, <3>2
  <2> QED
    BY <1>0, <2>1, <2>2, <2>3 DEF KernelInv
<1>9. CASE kind = "sync" /\ (SyncPoll \/ SyncClose)
  <2>1. /\ call' \in {"idle", "closed"} /\ in_flight' = Erase(Ids)
        /\ events' = events /\ kernel' = kernel
        /\ drain_failed' = drain_failed
    <3>1. call = "poll" => has_completion
      BY <1>0, <1>9 DEF SyncInv, KernelInv
    <3> QED
      BY <1>0, <1>9, <3>1 DEF SyncPoll, SyncClose
  <2>2. /\ in_flight' \in [Ids -> Contract!Directions \cup {"none"}]
        /\ InFlight' = InFlight \ Ids
    BY <1>0, <2>1, FlightShrinks
  <2>3. kernel = {} /\ Held' = {}
    BY <1>0, <1>9, <2>1 DEF SyncInv, Held
  <2> QED
    BY <1>0, <2>1, <2>2, <2>3 DEF KernelInv, QueueTypes
<1>10. CASE Kernel
  <2>1. PICK id \in kernel :
          /\ kernel' = kernel \ {id}
          /\ events' = IF call = "closed" THEN events ELSE Append(events, id)
          /\ call' = call /\ in_flight' = in_flight
    BY <1>10 DEF Kernel, KernelCompletes
  <2>2. /\ events' \in Seq(Ids) /\ IsInjective(events')
        /\ ToSet(events') \subseteq ToSet(events) \cup {id}
        /\ call = "closed" => events' = events
    <3>1. id \in Ids /\ id \notin ToSet(events)
      BY <1>0 DEF QueueTypes, KernelInv
    <3>2. /\ Append(events, id) \in Seq(Ids) /\ IsInjective(Append(events, id))
          /\ ToSet(Append(events, id)) = ToSet(events) \cup {id}
      BY <1>0, <3>1, AppendNew DEF QueueTypes, KernelInv
    <3> QED
      BY <1>0, <2>1, <3>2 DEF QueueTypes, KernelInv
  <2>3. drain_failed' = drain_failed
    BY <1>10 DEF Kernel, uringVars
  <2>4. Held' \subseteq Held /\ InFlight' = InFlight /\ kernel' \subseteq kernel
    BY <2>1, <2>2 DEF Held, InFlight
  <2>5. kernel' \cap ToSet(events') = {}
    BY <1>0, <2>1, <2>2 DEF KernelInv
  <2> QED
    BY <1>0, <2>1, <2>2, <2>3, <2>4, <2>5 DEF KernelInv, QueueTypes
<1>11. CASE ~MovesRequests
  <2>1. MovesCall
    BY <1>11, CallMoves
  <2>2. QueueTypes' /\ Held' = Held /\ InFlight' = InFlight
    BY <1>0, <2>1 DEF QueueTypes, Held, InFlight, MovesCall
  <2> QED
    BY <1>0, <2>1, <2>2 DEF KernelInv, Held, MovesCall
<1> QED
  BY <1>1, <1>2, <1>3, <1>4, <1>5, <1>6, <1>7, <1>8, <1>9, <1>10, <1>11
     DEF MovesRequests

-----------------------------------------------------------------------------
\* What the kernel answers becomes a completion of the contract.
LEMMA CompletionTyped ==
  ASSUME NEW d \in Contract!Directions, NEW res \in KernelResult
  PROVE  /\ ToCompletion(d, res) \in Contract!Completion
         /\ ToCompletion(d, res).direction = d
         /\ \A b \in {0, 1} :
              LET c == [ToCompletion(d, res) EXCEPT !.success = @ /\ b = 0]
              IN  c \in Contract!Completion /\ c.direction = d
<1> DEFINE bytes == IF res < 0 THEN 0 ELSE res
           full == res = BlockSize
<1>1. bytes \in 0 .. BlockSize /\ (full => bytes = BlockSize)
  BY EngineAssumption DEF KernelResult
<1>3. full \in BOOLEAN
  BY Zenon
<1>4. ToCompletion(d, res)
        = [direction |-> d, bytes |-> bytes, success |-> full]
  BY Zenon DEF ToCompletion
<1> HIDE DEF bytes, full
<1>2. ASSUME NEW s \in BOOLEAN, s => bytes = BlockSize
      PROVE  [direction |-> d, bytes |-> bytes, success |-> s]
                \in Contract!Completion
  BY <1>1, <1>2 DEF Contract!Completion
<1>5. ToCompletion(d, res) \in Contract!Completion
  BY <1>1, <1>2, <1>3, <1>4, Zenon
<1>6. ToCompletion(d, res).direction = d
  BY <1>4
<1>7. ASSUME NEW b \in {0, 1}
      PROVE  LET c == [ToCompletion(d, res) EXCEPT !.success = @ /\ b = 0]
             IN  c \in Contract!Completion /\ c.direction = d
  <2>1. [ToCompletion(d, res) EXCEPT !.success = @ /\ b = 0]
          = [direction |-> d, bytes |-> bytes, success |-> full /\ b = 0]
    BY <1>4
  <2>2. (full /\ b = 0) \in BOOLEAN
    BY Zenon
  <2>3. [direction |-> d, bytes |-> bytes, success |-> full /\ b = 0]
           \in Contract!Completion
    BY <1>1, <1>2, <2>2, Zenon
  <2>4. [direction |-> d, bytes |-> bytes, success |-> full /\ b = 0].direction
          = d
    BY Zenon
  <2> QED
    BY <2>1, <2>3, <2>4, Zenon
<1> QED
  BY <1>5, <1>6, <1>7

-----------------------------------------------------------------------------
\* The synchronous engines.
LEMMA SyncStep ==
  ASSUME IInv, [Next]_vars
  PROVE  SyncTypeOK' /\ SyncInv'
<1>0. /\ QueueTypes /\ StateTypeOK /\ call \in Calls /\ SyncInv
      /\ kind' = kind /\ SyncTypeOK /\ KernelInv
      /\ kind # "sync" => /\ has_completion' = has_completion
                          /\ last_completion' = last_completion
  BY QueuesTyped, KindKept DEF IInv, TypeOK, syncVars
<1>1. CASE kind # "sync"
  <2>1. SyncTypeOK'
    BY <1>0, <1>1, Zenon DEF SyncTypeOK
  <2> QED
    BY <1>0, <1>1, <2>1 DEF SyncInv
<1>2. ASSUME kind = "sync", NEW id \in Ids, NEW d \in Contract!Directions,
             SyncSubmit(id, d)
      PROVE  SyncTypeOK' /\ SyncInv'
  <2>0. SyncPerforms(id, d) /\ call = "idle" /\ InFlight = {}
    BY <1>2, SyncSubmits
  <2>1. PICK res \in KernelResult : last_completion' = ToCompletion(d, res)
    BY <2>0 DEF SyncPerforms
  <2>2. /\ call = "idle" /\ call' = "idle" /\ InFlight = {}
        /\ in_flight' = [in_flight EXCEPT ![id] = d]
        /\ kernel' = kernel /\ events' = events /\ has_completion' = TRUE
    BY <2>0 DEF SyncPerforms
  <2>3. InFlight' = {id} /\ in_flight'[id] = d
    BY <1>0, <2>2, FlightGrows DEF QueueTypes
  <2>4. /\ last_completion' \in Contract!Completion
        /\ last_completion'.direction = d
    BY <2>1, CompletionTyped
  <2>5. SyncTypeOK'
    BY <2>2, <2>4, Zenon DEF SyncTypeOK
  <2>6. Held' = {}
    BY <1>0, <1>2, <2>2 DEF SyncInv, Held
  <2> QED
    BY <1>0, <2>2, <2>3, <2>4, <2>5, <2>6 DEF SyncInv
<1>3. CASE kind = "sync" /\ (SyncPoll \/ SyncClose)
  <2>0. call = "poll" => has_completion
    BY <1>0, <1>3 DEF SyncInv, KernelInv
  <2>1. /\ call' \in {"idle", "closed"} /\ in_flight' = Erase(Ids)
        /\ events' = events /\ kernel' = kernel
        /\ last_completion' = last_completion /\ has_completion' = FALSE
    BY <1>3, <2>0 DEF SyncPoll, SyncClose
  <2>2. InFlight' = {}
    BY <1>0, <2>1, FlightShrinks, FlightFinite
  <2>3. Held' = {}
    BY <1>0, <1>3, <2>1 DEF SyncInv, Held
  <2>4. SyncTypeOK'
    BY <1>0, <2>1, Zenon DEF SyncTypeOK
  <2> QED
    BY <1>0, <2>1, <2>2, <2>3, <2>4 DEF SyncInv
<1>4. CASE kind = "sync" /\ ~MovesRequests
  <2>1. MovesCall
    BY <1>4, CallMoves
  <2>2. Held' = Held /\ InFlight' = InFlight
    BY <1>0, <2>1 DEF Held, InFlight, MovesCall
  <2>3. last_completion' = last_completion /\ has_completion' = has_completion
    BY <1>4 DEF MovesRequests, Next, Libaio, Uring, Sync, Caller, SyncNext,
          SyncOpen, syncVars, vars
  <2>4. SyncTypeOK'
    BY <1>0, <2>3, Zenon DEF SyncTypeOK
  <2>5. in_flight' = in_flight /\ call' \in {"unopened", "idle", "poll", "closed"}
    BY <1>0, <1>4, <2>1 DEF SyncInv, MovesCall
  <2> QED
    BY <1>0, <2>2, <2>3, <2>4, <2>5 DEF SyncInv
<1>5. CASE kind = "sync" /\ Kernel
  BY <1>0, <1>5 DEF SyncInv, SyncTypeOK, Held, Kernel, KernelCompletes, syncVars,
        InFlight
<1> QED
  BY <1>0, <1>1, <1>2, <1>3, <1>4, <1>5 DEF MovesRequests, SyncInv

-----------------------------------------------------------------------------
\* The submission ring.
LEMMA RingStep ==
  ASSUME IInv, [Next]_vars
  PROVE  sq' \in Seq(Ids) /\ RingInv'
<1>0. /\ QueueTypes /\ StateTypeOK /\ call \in Calls /\ KernelInv /\ RingInv
      /\ kind' = kind /\ sq \in Seq(Ids)
      /\ kind # "io_uring" => UNCHANGED uringVars
  BY QueuesTyped, KindKept DEF IInv, TypeOK, UringTypeOK
<1>1. CASE kind # "io_uring"
  BY <1>0, <1>1 DEF RingInv, uringVars
<1>2. ASSUME kind = "io_uring", NEW id \in Ids, NEW d \in Contract!Directions,
             UringSubmit(id, d)
      PROVE  sq' \in Seq(Ids) /\ RingInv'
  BY <1>2, HandedOver DEF RingInv
<1>3. CASE kind = "io_uring" /\ UringReap
  <2>1. PICK n \in 1 .. Len(events) :
          /\ in_flight' = Erase(Taken(n) \cap InFlight)
          /\ events' = Rest(n)
    BY <1>3 DEF UringReap
  <2>2. /\ call = "poll" /\ kernel' = kernel /\ sq' = sq
    BY <1>3 DEF UringReap, uringVars
  <2>3. /\ InFlight' = InFlight \ Taken(n)
        /\ Taken(n) \subseteq Held /\ Held' \subseteq Held
    BY <2>1, <2>2, Reaped DEF Held
  <2> QED
    BY <1>0, <2>2, <2>3 DEF RingInv
<1>4. CASE kind = "io_uring" /\ (UringDrain \/ UringDrainFails)
  <2>1. sq' = sq /\ call' \in {"drain", "destroy"}
    BY <1>4 DEF UringDrain, UringDrainFails, uringVars
  <2> QED
    BY <1>0, <2>1 DEF RingInv
<1>5. CASE kind = "io_uring" /\ UringQueueExit
  BY <1>5 DEF UringQueueExit, RingInv
<1>6. ASSUME kind = "io_uring", NEW id \in Ids, UringSubmitFails(id)
      PROVE  sq' \in Seq(Ids) /\ RingInv'
  BY <1>0, <1>6 DEF UringSubmitFails, RingInv
<1>7. CASE /\ kind = "io_uring" /\ ~MovesRequests
           /\ ~\E id \in Ids : UringSubmitFails(id)
  <2>1. MovesCall
    BY <1>7, CallMoves
  <2>2. Held' = Held /\ InFlight' = InFlight
    BY <1>0, <2>1 DEF Held, InFlight, MovesCall
  <2>3. sq' = sq
    BY <1>7 DEF MovesRequests, Next, Libaio, Uring, Sync, Caller, UringNext,
          UringReturns, UringOpen, UringSetup, UringClose, UringPollFails,
          uringVars, vars
  <2>4. call' \in {"unopened", "setup", "idle", "poll"} =>
           call \in {"unopened", "setup", "idle", "poll"}
    BY <1>7, <2>1 DEF MovesCall
  <2> QED
    BY <1>0, <2>2, <2>3, <2>4 DEF RingInv
<1>8. CASE kind = "io_uring" /\ Kernel
  <2>1. /\ sq' = sq /\ InFlight' = InFlight /\ call' = call
    BY <1>8 DEF Kernel, KernelCompletes, uringVars, InFlight
  <2>2. PICK id \in kernel :
          /\ kernel' = kernel \ {id}
          /\ events' = events \/ events' = Append(events, id)
    BY <1>8 DEF Kernel, KernelCompletes
  <2>3. Held' \subseteq Held
    BY <1>0, <2>2 DEF QueueTypes, Held, ToSet
  <2> QED
    BY <1>0, <2>1, <2>3 DEF RingInv
<1> QED
  BY <1>0, <1>1, <1>2, <1>3, <1>4, <1>5, <1>6, <1>7, <1>8 DEF MovesRequests

-----------------------------------------------------------------------------
\* The pool of iocbs, a stack without duplicates.

\* The last element of a stack without duplicates is not in the rest of it.
LEMMA PopDistinct ==
  ASSUME NEW S, NEW s \in Seq(S), IsInjective(s), s # <<>>
  PROVE  /\ Front(s) \in Seq(S) /\ Len(Front(s)) = Len(s) - 1
         /\ Last(s) \in S /\ Last(s) \in ToSet(s)
         /\ IsInjective(Front(s))
         /\ ToSet(Front(s)) = ToSet(s) \ {Last(s)}
<1>0. Len(s) \in Nat \ {0} /\ Len(s) \in 1 .. Len(s)
  OBVIOUS
<1>1. /\ Front(s) \in Seq(S) /\ Len(Front(s)) = Len(s) - 1
      /\ \A i \in 1 .. Len(s) - 1 : Front(s)[i] = s[i]
      /\ Last(s) = s[Len(s)]
  <2>1. PICK m \in Nat : m = Len(s) - 1
    BY <1>0
  <2>2. \A i \in 1 .. m : i \in 1 .. Len(s) /\ s[i] \in S
    BY <1>0, <2>1
  <2>3. /\ SubSeq(s, 1, m) \in Seq(S)
        /\ Len(SubSeq(s, 1, m)) = IF 1 <= m THEN m - 1 + 1 ELSE 0
        /\ \A i \in 1 .. m - 1 + 1 : SubSeq(s, 1, m)[i] = s[1 + i - 1]
    BY <2>2, SubSeqProperties
  <2>4. Front(s) = SubSeq(s, 1, m)
    BY <2>1 DEF Front
  <2>5. \A i \in 1 .. m : i \in 1 .. m - 1 + 1 /\ 1 + i - 1 = i
    OBVIOUS
  <2> QED
    BY <2>1, <2>3, <2>4, <2>5 DEF Last
<1>2. DOMAIN Front(s) = 1 .. Len(s) - 1 /\ DOMAIN s = 1 .. Len(s)
  BY <1>1
<1>3. IsInjective(Front(s))
  BY <1>1, <1>2 DEF IsInjective
<1>4. \A i \in 1 .. Len(s) - 1 : s[i] # s[Len(s)]
  BY <1>1, <1>2 DEF IsInjective
<1>5. ToSet(Front(s)) = ToSet(s) \ {Last(s)}
  BY <1>0, <1>1, <1>2, <1>4 DEF ToSet
<1>6. Last(s) \in S /\ Last(s) \in ToSet(s)
  BY <1>0, <1>1 DEF ToSet
<1> QED
  BY <1>1, <1>3, <1>5, <1>6

\* Two sequences that share nothing make one without duplicates.
LEMMA PushDistinct ==
  ASSUME NEW S, NEW s \in Seq(S), NEW t \in Seq(S),
         IsInjective(s), IsInjective(t), ToSet(s) \cap ToSet(t) = {}
  PROVE  /\ s \o t \in Seq(S) /\ Len(s \o t) = Len(s) + Len(t)
         /\ IsInjective(s \o t)
         /\ ToSet(s \o t) = ToSet(s) \cup ToSet(t)
<1>1. PICK u \in Seq(S) : u = s \o t
  <2>1. s \o t \in Seq(S)
    OBVIOUS
  <2> QED
    BY <2>1, Zenon
<1>0. Len(s) \in Nat /\ Len(t) \in Nat /\ Len(u) \in Nat
  OBVIOUS
<1>2. /\ Len(u) = Len(s) + Len(t)
      /\ \A i \in 1 .. Len(s) : u[i] = s[i]
      /\ \A i \in 1 .. Len(t) : u[Len(s) + i] = t[i]
      /\ \A i \in Len(s) + 1 .. Len(s) + Len(t) :
            /\ i - Len(s) \in 1 .. Len(t) /\ u[i] = t[i - Len(s)]
  BY <1>1
<1>3. /\ DOMAIN u = 1 .. Len(u) /\ DOMAIN s = 1 .. Len(s)
      /\ DOMAIN t = 1 .. Len(t)
  OBVIOUS
<1>5. ToSet(u) = ToSet(s) \cup ToSet(t)
  <2>1. ASSUME NEW i \in 1 .. Len(u)
        PROVE  u[i] \in ToSet(s) \cup ToSet(t)
    <3>1. i <= Len(s) => i \in 1 .. Len(s)
      BY <1>0
    <3>2. i > Len(s) => i \in Len(s) + 1 .. Len(s) + Len(t)
      BY <1>0, <1>2
    <3>3. CASE i <= Len(s)
      BY <1>2, <1>3, <3>1, <3>3 DEF ToSet
    <3>4. CASE i > Len(s)
      BY <1>2, <1>3, <3>2, <3>4 DEF ToSet
    <3> QED
      BY <1>0, <3>3, <3>4
  <2>2. \A i \in 1 .. Len(s) : i \in 1 .. Len(u)
    BY <1>0, <1>2
  <2>3. \A i \in 1 .. Len(t) : Len(s) + i \in 1 .. Len(u)
    BY <1>0, <1>2
  <2>4. ToSet(s) \cup ToSet(t) \subseteq ToSet(u)
    <3>1. \A i \in 1 .. Len(u) : u[i] \in ToSet(u)
      BY <1>3 DEF ToSet
    <3>2. ASSUME NEW i \in 1 .. Len(s)
          PROVE  s[i] \in ToSet(u)
      <4>1. i \in 1 .. Len(u) /\ u[i] = s[i]
        BY <1>2, <2>2
      <4> QED
        BY <3>1, <4>1
    <3>3. ASSUME NEW i \in 1 .. Len(t)
          PROVE  t[i] \in ToSet(u)
      <4>1. Len(s) + i \in 1 .. Len(u) /\ u[Len(s) + i] = t[i]
        BY <1>2, <2>3
      <4> QED
        BY <3>1, <4>1
    <3> QED
      BY <1>3, <3>2, <3>3 DEF ToSet
  <2>5. ToSet(u) \subseteq ToSet(s) \cup ToSet(t)
    BY <1>3, <2>1 DEF ToSet
  <2> QED
    BY <2>4, <2>5
<1>6. ASSUME NEW i \in 1 .. Len(u), NEW j \in 1 .. Len(u), u[i] = u[j]
      PROVE  i = j
  <2>1. CASE i \in 1 .. Len(s) /\ j \in 1 .. Len(s)
    <3>1. s[i] = s[j]
      BY <1>2, <1>6, <2>1
    <3> QED
      BY <1>3, <2>1, <3>1 DEF IsInjective
  <2>2. ASSUME NEW k \in 1 .. Len(u), k > Len(s)
        PROVE  k - Len(s) \in 1 .. Len(t) /\ u[k] = t[k - Len(s)]
    <3>1. k \in Len(s) + 1 .. Len(s) + Len(t)
      BY <1>0, <1>2, <2>2
    <3> QED
      BY <1>2, <3>1
  <2>3. CASE i > Len(s) /\ j > Len(s)
    <3>1. /\ i - Len(s) \in 1 .. Len(t) /\ j - Len(s) \in 1 .. Len(t)
          /\ t[i - Len(s)] = t[j - Len(s)]
      BY <1>6, <2>2, <2>3
    <3>2. i - Len(s) = j - Len(s)
      BY <1>3, <3>1 DEF IsInjective
    <3> QED
      BY <1>0, <3>2
  <2>4. ASSUME NEW k \in 1 .. Len(s), NEW l \in 1 .. Len(u), l > Len(s)
        PROVE  u[k] # u[l]
    <3>1. u[k] \in ToSet(s)
      BY <1>2, <1>3 DEF ToSet
    <3>2. u[l] \in ToSet(t)
      BY <1>3, <2>2, <2>4 DEF ToSet
    <3> QED
      BY <3>1, <3>2
  <2>5. \A k \in 1 .. Len(u) : k \in 1 .. Len(s) \/ k > Len(s)
    BY <1>0
  <2> QED
    BY <1>6, <2>1, <2>3, <2>4, <2>5
<1>7. IsInjective(u)
  BY <1>3, <1>6 DEF IsInjective
<1> QED
  BY <1>1, <1>2, <1>5, <1>7

\* The iocbs of the first n events come back.
LEMMA IocbsReturn ==
  ASSUME IInv, kind = "libaio", call = "poll", NEW n \in 1 .. Len(events),
         in_flight' = Erase(Taken(n) \cap InFlight),
         events' = Rest(n), kernel' = kernel,
         free_iocbs' = free_iocbs \o IocbsOf(n),
         iocb_of' = [id \in Ids |-> IF id \in Taken(n) THEN 0
                                    ELSE iocb_of[id]]
  PROVE  /\ LibaioTypeOK'
         /\ Len(free_iocbs') + Cardinality(InFlight') = Depth
         /\ IsInjective(free_iocbs')
         /\ \A id \in InFlight' : iocb_of'[id] \in Iocbs \ ToSet(free_iocbs')
         /\ \A a, b \in InFlight' : iocb_of'[a] = iocb_of'[b] => a = b
<1>0. /\ QueueTypes /\ LibaioTypeOK /\ n \in Nat /\ n \in 0 .. Len(events)
      /\ InFlight \subseteq Ids
  BY QueuesTyped, FlightFinite DEF IInv, TypeOK, QueueTypes
<1>1. /\ Len(free_iocbs) + Cardinality(InFlight) = Depth
      /\ IsInjective(free_iocbs) /\ IsInjective(events)
      /\ \A id \in InFlight : iocb_of[id] \in Iocbs \ ToSet(free_iocbs)
      /\ \A a, b \in InFlight : iocb_of[a] = iocb_of[b] => a = b
  BY DEF IInv, PoolInv, KernelInv
<1>2. /\ Taken(n) \subseteq InFlight /\ InFlight' = InFlight \ Taken(n)
  BY Reaped
<1>3. \A i \in 1 .. n : events[i] \in InFlight /\ i \in 1 .. Len(events)
  BY <1>0, <1>2 DEF Taken
<1>4. PICK back \in Seq(Iocbs) : back = IocbsOf(n)
  <2>1. \A i \in 1 .. n : iocb_of[events[i]] \in Iocbs
    BY <1>1, <1>3
  <2>2. IocbsOf(n) \in Seq(Iocbs)
    BY <1>0, <2>1 DEF IocbsOf
  <2> QED
    BY <2>2, Zenon
<1>5. /\ Len(back) = n /\ DOMAIN back = 1 .. n
      /\ \A i \in 1 .. n : back[i] = iocb_of[events[i]]
  BY <1>0, <1>4 DEF IocbsOf
<1>6. IsInjective(back)
  <2>1. ASSUME NEW i \in 1 .. n, NEW j \in 1 .. n, back[i] = back[j]
        PROVE  i = j
    <3>1. events[i] = events[j]
      BY <1>1, <1>3, <1>5, <2>1
    <3> QED
      BY <1>0, <1>1, <1>3, <3>1 DEF QueueTypes, IsInjective
  <2> QED
    BY <1>5, <2>1 DEF IsInjective
<1>7. ToSet(back) = {iocb_of[id] : id \in Taken(n)}
  BY <1>5, SMTT(30) DEF ToSet, Taken
<1>8. ToSet(free_iocbs) \cap ToSet(back) = {}
  BY <1>1, <1>2, <1>7
<1>9. /\ free_iocbs' \in Seq(Iocbs) /\ IsInjective(free_iocbs')
      /\ Len(free_iocbs') = Len(free_iocbs) + n
      /\ ToSet(free_iocbs') = ToSet(free_iocbs) \cup ToSet(back)
  <2>1. free_iocbs \in Seq(Iocbs) /\ free_iocbs' = free_iocbs \o back
    BY <1>0, <1>4 DEF LibaioTypeOK
  <2>2. IsInjective(free_iocbs) /\ Len(back) = n
    BY <1>1, <1>5
  <2>3. /\ free_iocbs \o back \in Seq(Iocbs) /\ IsInjective(free_iocbs \o back)
        /\ Len(free_iocbs \o back) = Len(free_iocbs) + Len(back)
        /\ ToSet(free_iocbs \o back) = ToSet(free_iocbs) \cup ToSet(back)
    <3>1. \A s, t \in Seq(Iocbs) :
             /\ IsInjective(s) /\ IsInjective(t) /\ ToSet(s) \cap ToSet(t) = {}
             => /\ s \o t \in Seq(Iocbs) /\ Len(s \o t) = Len(s) + Len(t)
                /\ IsInjective(s \o t)
                /\ ToSet(s \o t) = ToSet(s) \cup ToSet(t)
      BY PushDistinct
    <3> QED
      BY <1>6, <1>8, <2>1, <2>2, <3>1, Zenon
  <2> QED
    BY <2>1, <2>2, <2>3
<1>10. Cardinality(InFlight') = Cardinality(InFlight) - n
  <2>1. IsFiniteSet(Taken(n)) /\ Cardinality(Taken(n)) = n
    <3>1. events \in Seq(Ids) /\ IsInjective(events)
      BY <1>0, <1>1 DEF QueueTypes
    <3> QED
      BY <1>0, <3>1, CountDistinct DEF Taken
  <2>2. InFlight' \in SUBSET InFlight
    BY <1>2
  <2>3. IsFiniteSet(InFlight') /\ Cardinality(InFlight') \in Nat
    BY <2>2, FlightFinite, FS_Subset, FS_CardinalityType
  <2>4. InFlight' \cup Taken(n) = InFlight /\ InFlight' \cap Taken(n) = {}
    BY <1>2
  <2>5. Cardinality(InFlight' \cup Taken(n))
          = Cardinality(InFlight') + Cardinality(Taken(n))
              - Cardinality(InFlight' \cap Taken(n))
    BY <2>1, <2>3, FS_Union
  <2>6. Cardinality({}) = 0
    BY FS_EmptySet
  <2>7. Cardinality(InFlight) = Cardinality(InFlight') + n - 0
    BY <2>1, <2>4, <2>5, <2>6
  <2> QED
    BY <1>0, <2>3, <2>7
<1>11. Len(free_iocbs') + Cardinality(InFlight') = Depth
  <2>1. Len(free_iocbs) \in Nat /\ Cardinality(InFlight) \in Nat
    BY <1>0, FlightFinite DEF LibaioTypeOK
  <2> QED
    BY <1>0, <1>1, <1>9, <1>10, <2>1
<1>12. \A id \in InFlight' : id \notin Taken(n) /\ iocb_of'[id] = iocb_of[id]
  BY <1>0, <1>2
<1>13. LibaioTypeOK'
  BY <1>0, <1>9 DEF LibaioTypeOK
<1>14. \A id \in InFlight' : iocb_of[id] \notin ToSet(back)
  BY <1>1, <1>2, <1>7, <1>12
<1> QED
  BY <1>1, <1>2, <1>9, <1>11, <1>12, <1>13, <1>14

\* Each iocb stays free or of one request, and there are Depth of them.
LEMMA PoolStep ==
  ASSUME IInv, [Next]_vars
  PROVE  LibaioTypeOK' /\ PoolInv'
<1>0. /\ QueueTypes /\ StateTypeOK /\ call \in Calls /\ KernelInv /\ PoolInv
      /\ kind' = kind /\ LibaioTypeOK
      /\ kind # "libaio" => UNCHANGED libaioVars
  BY QueuesTyped, KindKept DEF IInv, TypeOK
<1>1. CASE UNCHANGED libaioVars /\ (kind # "libaio" \/ call' \notin {"idle", "poll"})
  BY <1>0, <1>1 DEF LibaioTypeOK, PoolInv, libaioVars
<1>2. CASE /\ UNCHANGED libaioVars /\ InFlight' = InFlight
           /\ call' \in {"idle", "poll"} => call \in {"idle", "poll"}
  BY <1>0, <1>2 DEF LibaioTypeOK, PoolInv, libaioVars
<1>3. ASSUME kind = "libaio", NEW id \in Ids, NEW d \in Contract!Directions,
             LibaioSubmit(id, d)
      PROVE  LibaioTypeOK' /\ PoolInv'
  <2>1. /\ call = "idle" /\ id \notin InFlight /\ free_iocbs # <<>>
        /\ in_flight' = [in_flight EXCEPT ![id] = d]
        /\ free_iocbs' = Front(free_iocbs)
        /\ iocb_of' = [iocb_of EXCEPT ![id] = Last(free_iocbs)]
    BY <1>3 DEF LibaioSubmit, Submittable
  <2>2. /\ InFlight' = InFlight \cup {id}
        /\ Cardinality(InFlight') = Cardinality(InFlight) + 1
    BY <1>0, <2>1, FlightGrows
  <2>3. /\ Len(free_iocbs) + Cardinality(InFlight) = Depth
        /\ IsInjective(free_iocbs)
        /\ \A i \in InFlight : iocb_of[i] \in Iocbs \ ToSet(free_iocbs)
        /\ \A a, b \in InFlight : iocb_of[a] = iocb_of[b] => a = b
    BY <1>0, <1>3, <2>1 DEF PoolInv
  <2>4. /\ free_iocbs' \in Seq(Iocbs) /\ Len(free_iocbs') = Len(free_iocbs) - 1
        /\ Last(free_iocbs) \in Iocbs /\ Last(free_iocbs) \in ToSet(free_iocbs)
        /\ IsInjective(free_iocbs')
        /\ ToSet(free_iocbs') = ToSet(free_iocbs) \ {Last(free_iocbs)}
    BY <1>0, <2>1, <2>3, PopDistinct DEF LibaioTypeOK
  <2>5. /\ iocb_of'[id] = Last(free_iocbs)
        /\ \A i \in InFlight : i # id /\ iocb_of'[i] = iocb_of[i]
    BY <1>0, <2>1, FlightFinite DEF LibaioTypeOK
  <2>6. Len(free_iocbs') + Cardinality(InFlight') = Depth
    <3>1. Len(free_iocbs) \in Nat /\ Cardinality(InFlight) \in Nat
      BY <1>0, FlightFinite DEF LibaioTypeOK
    <3> QED
      BY <2>2, <2>3, <2>4, <3>1
  <2>7. LibaioTypeOK'
    BY <1>0, <2>1, <2>4 DEF LibaioTypeOK
  <2>8. \A i \in InFlight' : iocb_of'[i] \in Iocbs \ ToSet(free_iocbs')
    BY <2>2, <2>3, <2>4, <2>5
  <2>9. \A a, b \in InFlight' : iocb_of'[a] = iocb_of'[b] => a = b
    BY <2>2, <2>3, <2>4, <2>5
  <2> QED
    BY <2>4, <2>6, <2>7, <2>8, <2>9 DEF PoolInv
<1>4. CASE kind = "libaio" /\ LibaioReap
  <2>1. PICK n \in 1 .. Len(events) :
          /\ in_flight' = Erase(Taken(n) \cap InFlight)
          /\ events' = Rest(n)
          /\ free_iocbs' = free_iocbs \o IocbsOf(n)
          /\ iocb_of' = [id \in Ids |-> IF id \in Taken(n) THEN 0
                                        ELSE iocb_of[id]]
    BY <1>4 DEF LibaioReap
  <2>2. call = "poll" /\ kernel' = kernel
    BY <1>4 DEF LibaioReap
  <2> QED
    BY <1>4, <2>1, <2>2, IocbsReturn DEF PoolInv
<1>5. CASE kind = "libaio" /\ LibaioDestroy
  <2>1. free_iocbs' = <<>> /\ iocb_of' = [id \in Ids |-> 0] /\ call' = "closed"
    BY <1>5 DEF LibaioDestroy
  <2> QED
    BY <2>1 DEF LibaioTypeOK, PoolInv
<1>6. CASE kind = "libaio" /\ LibaioSetup /\ call' = "idle"
  <2>1. /\ call = "setup" /\ free_iocbs' = [i \in Iocbs |-> i]
        /\ iocb_of' = iocb_of /\ in_flight' = in_flight
    BY <1>6 DEF LibaioSetup, SetupThrows, queueVars
  <2>2. /\ free_iocbs' \in Seq(Iocbs) /\ Len(free_iocbs') = Depth
        /\ IsInjective(free_iocbs')
    BY <2>1, EngineAssumption DEF Iocbs, IsInjective
  <2>3. InFlight' = {} /\ Cardinality(InFlight') = 0
    BY <1>0, <2>1, FS_EmptySet DEF KernelInv, InFlight
  <2> QED
    BY <1>0, <2>1, <2>2, <2>3, EngineAssumption DEF LibaioTypeOK, PoolInv
<1>7. CASE kind = "libaio" /\ LibaioDrain
  BY <1>1, <1>7 DEF LibaioDrain
<1>8. CASE Kernel
  BY <1>2, <1>8 DEF Kernel, KernelCompletes, InFlight
<1>9. CASE kind = "libaio" /\ ~MovesRequests /\ ~(LibaioSetup /\ call' = "idle")
  <2>1. MovesCall
    BY <1>9, CallMoves
  <2>2. InFlight' = InFlight
    BY <2>1 DEF MovesCall, InFlight
  <2>3. /\ UNCHANGED libaioVars
        /\ call = "setup" => call' # "idle"
    BY <1>9 DEF MovesRequests, Next, Libaio, Uring, Sync, Caller, LibaioNext,
          LibaioReturns, LibaioOpen, LibaioSetup, LibaioSubmitFails,
          LibaioClose, LibaioPollFails, LibaioDrainGivesUp, libaioVars, vars,
          stateVars, SetupThrows, OpensFile, BeginPoll, Consume, Submittable
  <2>4. call' \in {"idle", "poll"} => call \in {"idle", "poll"}
    BY <1>9, <2>1, <2>3 DEF MovesCall
  <2> QED
    BY <1>2, <2>2, <2>3, <2>4
<1>10. CASE kind # "libaio"
  BY <1>0, <1>1, <1>10
<1> QED
  BY <1>0, <1>3, <1>4, <1>5, <1>6, <1>7, <1>8, <1>9, <1>10 DEF MovesRequests

-----------------------------------------------------------------------------
\* The contract, step by step.

OutTyped == out \in [Ids -> Contract!Completion \cup {Contract!NoCompletion}]

\* As the contract sees it, a request is outstanding while the engine is open.
LEMMA Seen ==
  /\ IsOpen => /\ (IF IsOpen THEN in_flight ELSE [id \in Ids |-> "none"])
                     = in_flight
               /\ Contract!Outstanding = InFlight
  /\ ~IsOpen => (IF IsOpen THEN in_flight ELSE [id \in Ids |-> "none"])
                     = [id \in Ids |-> "none"]
BY DEF Contract!Outstanding, InFlight

\* IsOpen is a truth value, which the provers have to be told.
LEMMA OpenBoolean == IsOpen \in BOOLEAN /\ IsOpen' \in BOOLEAN
<1>1. \A c, S : (c \in S) \in BOOLEAN
  OBVIOUS
<1> QED
  BY <1>1, Zenon DEF IsOpen

\* A poll returns the completions of some requests, each with its direction.
LEMMA Polled ==
  ASSUME IInv, call = "poll", call' = "idle",
         NEW ids, ids # {}, ids \subseteq InFlight, in_flight' = Erase(ids),
         NEW result \in [ids -> Contract!Completion],
         \A id \in ids : result[id].direction = in_flight[id],
         out' = [id \in Ids |-> IF id \in ids THEN result[id] ELSE out[id]]
  PROVE  Contract!PollCompletions(ids) /\ OutTyped'
<1>0. OutTyped
  BY DEF IInv, TypeOK, StateTypeOK, OutTyped
<1>1. IsOpen /\ IsOpen'
  BY DEF IsOpen
<1>2. OutTyped'
  BY <1>0 DEF OutTyped
<1>3. (IF IsOpen THEN in_flight ELSE [id \in Ids |-> "none"])'
        = [id \in Ids |-> IF id \in ids THEN "none" ELSE in_flight[id]]
  BY <1>1 DEF Erase
<1>4. /\ (IF IsOpen THEN in_flight ELSE [id \in Ids |-> "none"]) = in_flight
      /\ ids \subseteq Contract!Outstanding
  BY <1>1, Seen
<1>5. IsOpen' = IsOpen
  BY <1>1, OpenBoolean, Zenon
<1>6. Contract!PollCompletions(ids)
  BY <1>1, <1>3, <1>4, <1>5 DEF Contract!PollCompletions
<1> QED
  BY <1>2, <1>6

\* Every engine's poll is a poll of the contract.
LEMMA PollKeepsContract ==
  ASSUME IInv, [Next]_vars,
         \/ kind = "libaio" /\ LibaioReap
         \/ kind = "io_uring" /\ UringReap
         \/ kind = "sync" /\ SyncPoll
  PROVE  (\E ids \in SUBSET Ids : Contract!PollCompletions(ids)) /\ OutTyped'
<1>0. /\ QueueTypes /\ StateTypeOK /\ KernelInv /\ InFlight \subseteq Ids
      /\ SyncInv
      /\ \A id \in InFlight : in_flight[id] \in Contract!Directions
  BY QueuesTyped, FlightFinite DEF IInv, TypeOK, QueueTypes, InFlight
<1>1. CASE kind = "libaio" /\ LibaioReap
  <2>1. PICK n \in 1 .. Len(events) :
          /\ in_flight' = Erase(Taken(n) \cap InFlight)
          /\ events' = Rest(n)
          /\ \E res \in [Taken(n) \cap InFlight -> KernelResult],
                res2 \in [Taken(n) \cap InFlight -> {0, 1}] :
               out' = [id \in Ids |->
                        IF id \notin Taken(n) \cap InFlight THEN out[id]
                        ELSE LET c == ToCompletion(in_flight[id], res[id])
                             IN  [c EXCEPT !.success = @ /\ res2[id] = 0]]
    BY <1>1, Zenon DEF LibaioReap
  <2> DEFINE known == Taken(n) \cap InFlight
  <2>2. PICK res \in [known -> KernelResult], res2 \in [known -> {0, 1}] :
          out' = [id \in Ids |->
                   IF id \notin known THEN out[id]
                   ELSE LET c == ToCompletion(in_flight[id], res[id])
                        IN  [c EXCEPT !.success = @ /\ res2[id] = 0]]
    BY <2>1, Zenon
  <2>3. call = "poll" /\ call' = "idle" /\ kernel' = kernel
    BY <1>1 DEF LibaioReap
  <2>4. known # {} /\ known \subseteq InFlight
    BY <2>1, <2>3, Reaped
  <2> DEFINE ofKernel(id) ==
               [ToCompletion(in_flight[id], res[id])
                  EXCEPT !.success = @ /\ res2[id] = 0]
             result == [id \in known |-> ofKernel(id)]
  <2>5. ASSUME NEW id \in known
        PROVE  /\ ofKernel(id) \in Contract!Completion
               /\ ofKernel(id).direction = in_flight[id]
    <3>1. /\ in_flight[id] \in Contract!Directions
          /\ res[id] \in KernelResult /\ res2[id] \in {0, 1}
      BY <1>0
    <3> QED
      BY <3>1, CompletionTyped, Zenon
  <2>6. out' = [id \in Ids |-> IF id \in known THEN ofKernel(id) ELSE out[id]]
    BY <2>2
  <2> HIDE DEF ofKernel
  <2>7. /\ result \in [known -> Contract!Completion]
        /\ \A id \in known : result[id].direction = in_flight[id]
        /\ out' = [id \in Ids |-> IF id \in known THEN result[id] ELSE out[id]]
    BY <2>5, <2>6
  <2>8. in_flight' = Erase(known)
    BY <2>1
  <2> HIDE DEF known, result
  <2>9. Contract!PollCompletions(known) /\ OutTyped'
    BY <2>3, <2>4, <2>7, <2>8, Polled
  <2> QED
    BY <1>0, <2>4, <2>9
<1>2. CASE kind = "io_uring" /\ UringReap
  <2>1. PICK n \in 1 .. Len(events) :
          /\ in_flight' = Erase(Taken(n) \cap InFlight)
          /\ events' = Rest(n)
          /\ \E res \in [Taken(n) \cap InFlight -> KernelResult] :
               out' = [id \in Ids |->
                        IF id \in Taken(n) \cap InFlight
                          THEN ToCompletion(in_flight[id], res[id])
                          ELSE out[id]]
    BY <1>2, Zenon DEF UringReap
  <2> DEFINE known == Taken(n) \cap InFlight
  <2>2. PICK res \in [known -> KernelResult] :
          out' = [id \in Ids |->
                   IF id \in known THEN ToCompletion(in_flight[id], res[id])
                   ELSE out[id]]
    BY <2>1, Zenon
  <2>3. call = "poll" /\ call' = "idle" /\ kernel' = kernel
    BY <1>2 DEF UringReap
  <2>4. known # {} /\ known \subseteq InFlight
    BY <2>1, <2>3, Reaped
  <2> DEFINE result == [id \in known |-> ToCompletion(in_flight[id], res[id])]
  <2>5. ASSUME NEW id \in known
        PROVE  /\ ToCompletion(in_flight[id], res[id]) \in Contract!Completion
               /\ ToCompletion(in_flight[id], res[id]).direction = in_flight[id]
    BY <1>0, CompletionTyped
  <2>6. /\ result \in [known -> Contract!Completion]
        /\ \A id \in known : result[id].direction = in_flight[id]
        /\ out' = [id \in Ids |-> IF id \in known THEN result[id] ELSE out[id]]
    BY <2>2, <2>5
  <2>7. in_flight' = Erase(known)
    BY <2>1
  <2> HIDE DEF known, result
  <2>8. Contract!PollCompletions(known) /\ OutTyped'
    BY <2>3, <2>4, <2>6, <2>7, Polled
  <2> QED
    BY <1>0, <2>4, <2>8
<1>3. CASE kind = "sync" /\ SyncPoll
  <2>0. has_completion
    BY <1>0, <1>3 DEF SyncInv, KernelInv, SyncPoll
  <2>1. /\ call = "poll" /\ call' = "idle" /\ in_flight' = Erase(Ids)
        /\ out' = [id \in Ids |-> IF id \in InFlight THEN last_completion
                                  ELSE out[id]]
    BY <1>3, <2>0 DEF SyncPoll
  <2>2. InFlight # {} /\ Erase(Ids) = Erase(InFlight)
    BY <1>0, <2>1 DEF KernelInv, Erase, InFlight
  <2> DEFINE result == [id \in InFlight |-> last_completion]
  <2>3. /\ result \in [InFlight -> Contract!Completion]
        /\ \A id \in InFlight : result[id].direction = in_flight[id]
        /\ out' = [id \in Ids |-> IF id \in InFlight THEN result[id] ELSE out[id]]
    BY <1>0, <1>3, <2>1 DEF SyncInv
  <2> HIDE DEF result
  <2>4. Contract!PollCompletions(InFlight) /\ OutTyped'
    BY <2>1, <2>2, <2>3, Polled
  <2> QED
    BY <1>0, <2>4
<1> QED
  BY <1>1, <1>2, <1>3

\* Every other step keeps the completions: it opens the engine, closes it, or
\* does neither.
Quietly ==
  /\ out' = out
  /\ \/ IsOpen /\ ~IsOpen'
     \/ ~IsOpen /\ ~IsOpen'
     \/ IsOpen /\ IsOpen' /\ in_flight' = in_flight
     \/ ~IsOpen /\ IsOpen' /\ in_flight' = in_flight /\ InFlight = {}

\* What is neither a poll, a submission nor a consumption changes nothing the
\* contract knows but whether the engine is open.
LEMMA OthersAreQuiet ==
  ASSUME IInv, [Next]_vars,
         ~ \/ kind = "libaio" /\ LibaioReap
           \/ kind = "io_uring" /\ UringReap
           \/ kind = "sync" /\ SyncPoll,
         ~\E id \in Ids, d \in Contract!Directions :
            \/ LibaioSubmit(id, d) \/ UringSubmit(id, d)
            \/ kind = "sync" /\ SyncSubmit(id, d),
         ~\E id \in Ids : Consume(id)
  PROVE  Quietly
<1>0. KernelInv /\ call \in Calls /\ SyncInv
  BY QueuesTyped DEF IInv
<1>1. CASE ~MovesRequests
  <2>1. MovesCall
    BY <1>1, CallMoves
  <2>2. out' = out
    BY <1>1 DEF MovesRequests, Next, Libaio, Uring, Sync, Caller, LibaioNext,
          LibaioReturns, UringNext, UringReturns, SyncNext, vars, stateVars,
          queueVars, LibaioOpen, LibaioSetup, LibaioSubmitFails, LibaioClose,
          LibaioPollFails, LibaioDrainGivesUp, UringOpen, UringSetup,
          UringSubmitFails, UringClose, UringPollFails, SyncOpen, OpensFile,
          SetupThrows, BeginPoll
  <2> QED
    BY <1>0, <2>1, <2>2 DEF Quietly, MovesCall, KernelInv, IsOpen
<1>2. CASE \/ LibaioDrain \/ UringDrain \/ UringDrainFails \/ LibaioDestroy
           \/ UringQueueExit \/ SyncClose \/ Kernel
  BY <1>2 DEF Quietly, IsOpen, LibaioDrain, UringDrain, UringDrainFails,
        LibaioDestroy, UringQueueExit, SyncClose, Kernel, KernelCompletes,
        queueVars
<1> QED
  BY <1>1, <1>2 DEF MovesRequests

\* A step of an engine is a step of the contract or none.
LEMMA ContractStep ==
  ASSUME IInv, [Next]_vars
  PROVE  [Contract!EngineNext]_Contract!engineVars /\ OutTyped'
<1>0. /\ QueueTypes /\ StateTypeOK /\ KernelInv /\ OutTyped
  BY QueuesTyped DEF IInv, TypeOK, StateTypeOK, OutTyped
<1>1. CASE \/ kind = "libaio" /\ LibaioReap
           \/ kind = "io_uring" /\ UringReap
           \/ kind = "sync" /\ SyncPoll
  BY <1>1, PollKeepsContract DEF Contract!EngineNext
<1>2. ASSUME NEW id \in Ids, NEW d \in Contract!Directions,
             \/ LibaioSubmit(id, d) \/ UringSubmit(id, d)
             \/ kind = "sync" /\ SyncSubmit(id, d)
      PROVE  [Contract!EngineNext]_Contract!engineVars /\ OutTyped'
  <2>1. /\ call = "idle" /\ call' = "idle" /\ id \notin InFlight /\ out' = out
        /\ Cardinality(InFlight) < Depth
        /\ in_flight' = [in_flight EXCEPT ![id] = d]
    <3>1. Cardinality(InFlight) < EffectiveDepth /\ id \notin InFlight
      BY <1>2 DEF LibaioSubmit, UringSubmit, SyncSubmit, Submittable
    <3>2. /\ call = "idle" /\ call' = "idle" /\ out' = out
          /\ in_flight' = [in_flight EXCEPT ![id] = d]
      BY <1>2, SyncSubmits
         DEF LibaioSubmit, UringSubmit, SyncPerforms, Submittable
    <3> QED
      BY <3>1, <3>2, DepthBound, FlightFinite, EngineAssumption
  <2>2. IsOpen /\ IsOpen' /\ IsOpen' = IsOpen
    <3>1. IsOpen /\ IsOpen'
      BY <2>1 DEF IsOpen
    <3> QED
      BY <3>1, OpenBoolean, Zenon
  <2>3. /\ (IF IsOpen THEN in_flight ELSE [i \in Ids |-> "none"]) = in_flight
        /\ (IF IsOpen THEN in_flight ELSE [i \in Ids |-> "none"])' = in_flight'
        /\ Contract!Outstanding = InFlight
    BY <2>2, Seen
  <2>4. in_flight[id] = "none"
    BY <2>1 DEF InFlight
  <2>5. Contract!SubmitIO(id, d)
    <3>1. Contract!SubmitOK(id)
      <4>1. (IF IsOpen THEN in_flight ELSE [i \in Ids |-> "none"])[id] = "none"
        BY <2>3, <2>4
      <4>2. Contract!Cardinality(Contract!Outstanding) = Cardinality(InFlight)
        BY <2>3 DEF Contract!Cardinality, Cardinality
      <4> QED
        BY <2>1, <2>2, <4>1, <4>2 DEF Contract!SubmitOK
    <3>2. (IF IsOpen THEN in_flight ELSE [i \in Ids |-> "none"])'
            = [(IF IsOpen THEN in_flight ELSE [i \in Ids |-> "none"])
                 EXCEPT ![id] = d]
      BY <2>1, <2>3
    <3> QED
      BY <2>1, <2>2, <3>1, <3>2 DEF Contract!SubmitIO
  <2> QED
    BY <1>0, <2>1, <2>5 DEF Contract!EngineNext, OutTyped
<1>3. ASSUME NEW id \in Ids, Consume(id)
      PROVE  [Contract!EngineNext]_Contract!engineVars /\ OutTyped'
  <2>1. Contract!Consume(id)
    BY <1>3 DEF Consume
  <2> QED
    BY <1>0, <2>1 DEF Contract!EngineNext, Contract!Consume, OutTyped
<1>4. CASE Quietly
  <2>1. CASE IsOpen /\ ~IsOpen'
    <3>1. IsOpen' = FALSE
      BY <2>1, OpenBoolean, Zenon
    <3>2. (IF IsOpen THEN in_flight ELSE [id \in Ids |-> "none"])'
             = [id \in Ids |-> "none"]
      BY <2>1
    <3>3. Contract!Close
      BY <1>4, <2>1, <3>1, <3>2 DEF Contract!Close, Quietly
    <3> QED
      BY <1>0, <1>4, <3>3 DEF Contract!EngineNext, OutTyped, Quietly
  <2>2. CASE ~IsOpen /\ ~IsOpen'
    <3>1. IsOpen' = IsOpen
      BY <2>2, OpenBoolean, Zenon
    <3>2. (IF IsOpen THEN in_flight ELSE [id \in Ids |-> "none"])'
            = (IF IsOpen THEN in_flight ELSE [id \in Ids |-> "none"])
      BY <2>2
    <3> QED
      BY <1>0, <1>4, <3>1, <3>2 DEF Contract!engineVars, OutTyped, Quietly
  <2>3. CASE IsOpen /\ IsOpen' /\ in_flight' = in_flight
    <3>1. IsOpen' = IsOpen
      BY <2>3, OpenBoolean, Zenon
    <3>2. (IF IsOpen THEN in_flight ELSE [id \in Ids |-> "none"])'
            = (IF IsOpen THEN in_flight ELSE [id \in Ids |-> "none"])
      BY <2>3
    <3> QED
      BY <1>0, <1>4, <3>1, <3>2 DEF Contract!engineVars, OutTyped, Quietly
  <2>4. CASE ~IsOpen /\ IsOpen' /\ in_flight' = in_flight /\ InFlight = {}
    <3>1. IsOpen' = TRUE
      BY <2>4, OpenBoolean, Zenon
    <3>2. in_flight = [id \in Ids |-> "none"]
      BY <1>0, <2>4 DEF QueueTypes, InFlight
    <3>3. (IF IsOpen THEN in_flight ELSE [id \in Ids |-> "none"])'
            = (IF IsOpen THEN in_flight ELSE [id \in Ids |-> "none"])
      BY <2>4, <3>2
    <3>4. Contract!Open
      BY <1>4, <2>4, <3>1, <3>3 DEF Contract!Open, Quietly
    <3> QED
      BY <1>0, <1>4, <3>4 DEF Contract!EngineNext, OutTyped, Quietly
  <2> QED
    BY <1>4, <2>1, <2>2, <2>3, <2>4 DEF Quietly
<1> QED
  BY <1>1, <1>2, <1>3, <1>4, OthersAreQuiet

-----------------------------------------------------------------------------
\* The theorems.

\* The invariant holds before Open is called.
LEMMA InitIInv == Init => IInv
<1> SUFFICES ASSUME Init PROVE IInv
  OBVIOUS
<1>1. /\ StateInit /\ LibaioInit /\ UringInit /\ SyncInit
      /\ kind \in {"libaio", "io_uring", "sync"}
  BY DEF Init
<1>2. fd \in BOOLEAN /\ direct_effective \in BOOLEAN /\ drain_failed \in BOOLEAN
  BY <1>1, Zenon DEF StateInit, FileInit, UringInit
<1>3. FileTypeOK /\ FileInv
  BY <1>1, <1>2 DEF StateInit, FileInit, FileTypeOK, FileInv
<1>4. /\ call = "unopened" /\ in_flight = [id \in Ids |-> "none"]
      /\ out = [id \in Ids |-> Contract!NoCompletion]
      /\ kernel = {} /\ events = <<>> /\ sq = <<>>
      /\ free_iocbs = <<>> /\ iocb_of = [id \in Ids |-> 0]
      /\ last_completion = Contract!NoCompletion /\ has_completion = FALSE
  BY <1>1 DEF StateInit, LibaioInit, UringInit, SyncInit
<1>5. InFlight = {} /\ ToSet(events) = {} /\ ToSet(sq) = {}
  BY <1>4 DEF InFlight, ToSet
<1>6. StateTypeOK
  BY <1>3, <1>4 DEF StateTypeOK, Calls
<1>7. LibaioTypeOK /\ UringTypeOK /\ SyncTypeOK
  <2>1. SyncTypeOK
    BY <1>4, Zenon DEF SyncTypeOK
  <2> QED
    BY <1>2, <1>4, <2>1 DEF LibaioTypeOK, UringTypeOK
<1>8. KernelInv /\ SyncInv /\ RingInv /\ PoolInv
  BY <1>4, <1>5 DEF KernelInv, SyncInv, RingInv, PoolInv, Held, IsInjective
<1> QED
  BY <1>1, <1>3, <1>6, <1>7, <1>8 DEF IInv, TypeOK

\* Every step keeps it.
LEMMA NextIInv == IInv /\ [Next]_vars => IInv'
<1> SUFFICES ASSUME IInv, [Next]_vars PROVE IInv'
  OBVIOUS
<1>1. FileTypeOK' /\ FileInv' /\ call' \in Calls
  BY FileStep
<1>2. QueueTypes' /\ KernelInv' /\ drain_failed' \in BOOLEAN
  BY KernelStep
<1>3. SyncTypeOK' /\ SyncInv'
  BY SyncStep
<1>4. sq' \in Seq(Ids) /\ RingInv'
  BY RingStep
<1>5. LibaioTypeOK' /\ PoolInv'
  BY PoolStep
<1>6. OutTyped'
  BY ContractStep
<1>7. StateTypeOK'
  BY <1>1, <1>2, <1>6 DEF StateTypeOK, QueueTypes, OutTyped
<1>8. UringTypeOK'
  BY <1>2, <1>4 DEF UringTypeOK
<1>9. kind' \in {"libaio", "io_uring", "sync"}
  BY KindKept DEF IInv, TypeOK
<1> QED
  BY <1>1, <1>2, <1>3, <1>4, <1>5, <1>7, <1>8, <1>9 DEF IInv, TypeOK

\* The inductive invariant holds of every kind of engine.
THEOREM Invariance == Spec => []IInv
<1>1. IInv /\ UNCHANGED vars => IInv'
  BY NextIInv
<1> QED
  BY InitIInv, NextIInv, PTL DEF Spec

\* Every engine's state keeps its type: its file, the kernel's queues, the
\* iocbs and the last completion.
THEOREM TypeCorrect == Spec => []TypeOK
<1>1. IInv => TypeOK
  BY DEF IInv
<1> QED
  BY <1>1, Invariance, PTL

\* The kernel touches only buffers of requests in flight, and none once Close
\* has returned, unless io_uring could not wait for it.
THEOREM KernelHoldsInFlight == Spec => []KernelOnlyInFlight
<1>1. IInv => KernelOnlyInFlight
  BY DEF IInv, KernelInv, Held, KernelOnlyInFlight
<1> QED
  BY <1>1, Invariance, PTL

\* direct_effective_ says how the file is open; no path of Open or Close
\* leaves a descriptor behind.
THEOREM DirectIsAsGranted == Spec => []DirectAsGranted
<1>1. IInv => DirectAsGranted
  BY DEF IInv, FileInv, IsOpen, DirectAsGranted
<1> QED
  BY <1>1, Invariance, PTL

\* A submission within the effective depth finds a free iocb the kernel does
\* not hold, room in the submission ring, no completion kept in a synchronous
\* engine: the three "contract violated" and "not yet polled" errors are not
\* met.
THEOREM SubmissionsFit == Spec => []LegalSubmitsFit
<1>1. IInv => LegalSubmitsFit
  <2> SUFFICES ASSUME IInv, NEW id \in Ids, Submittable(id)
               PROVE  /\ kind = "libaio" =>
                           /\ free_iocbs # <<>>
                           /\ \A i \in kernel : iocb_of[i] # Last(free_iocbs)
                      /\ kind = "io_uring" => Len(sq) < SqEntries
                      /\ kind = "sync" => ~has_completion
    BY DEF LegalSubmitsFit
  <2>2. Cardinality(InFlight) \in Nat /\ IsFiniteSet(InFlight)
    BY FlightFinite
  <2>1. /\ call = "idle" /\ Cardinality(InFlight) < Depth /\ KernelInv
        /\ LibaioTypeOK /\ sq \in Seq(Ids) /\ RingInv /\ PoolInv /\ SyncInv
    BY <2>2, DepthBound, EngineAssumption
       DEF Submittable, IInv, TypeOK, UringTypeOK
  <2>3. CASE kind = "libaio"
    <3>1. /\ Len(free_iocbs) + Cardinality(InFlight) = Depth
          /\ IsInjective(free_iocbs)
          /\ \A i \in InFlight : iocb_of[i] \notin ToSet(free_iocbs)
      BY <2>1, <2>3 DEF PoolInv
    <3>2. free_iocbs # <<>>
      BY <2>1, <2>2, <3>1 DEF LibaioTypeOK
    <3>3. Last(free_iocbs) \in ToSet(free_iocbs)
      BY <2>1, <3>1, <3>2, PopDistinct DEF LibaioTypeOK
    <3>4. kernel \subseteq InFlight
      BY <2>1 DEF KernelInv, Held
    <3> QED
      BY <2>3, <3>1, <3>2, <3>3, <3>4
  <2>4. CASE kind = "io_uring"
    <3>1. IsInjective(sq) /\ ToSet(sq) \in SUBSET InFlight
      BY <2>1, <2>4 DEF RingInv
    <3>2. Len(sq) \in Nat /\ Len(sq) \in 0 .. Len(sq)
      BY <2>1
    <3>3. {sq[i] : i \in 1 .. Len(sq)} = ToSet(sq)
      BY <2>1 DEF ToSet
    <3>4. Cardinality(ToSet(sq)) = Len(sq)
      BY <2>1, <3>1, <3>2, <3>3, CountDistinct
    <3>5. Cardinality(ToSet(sq)) <= Cardinality(InFlight)
      BY <2>2, <3>1, FS_Subset
    <3> QED
      BY <2>1, <2>2, <2>4, <3>2, <3>4, <3>5, RingAssumption, EngineAssumption
  <2>5. CASE kind = "sync"
    <3>1. Cardinality(InFlight) = 0
      BY <2>2, <2>5 DEF Submittable, EffectiveDepth
    <3>2. InFlight = {}
      BY <2>2, <3>1, FS_EmptySet
    <3> QED
      BY <2>1, <2>5, <3>2 DEF SyncInv
  <2> QED
    BY <2>3, <2>4, <2>5
<1> QED
  BY <1>1, Invariance, PTL

\* Each kind of engine implements the contract of i_engine_io.h the worker is
\* written against: every step is a step of the contract or none at all.
THEOREM EveryEngineKeepsTheContract == Spec => ImplementsEngineIO
<1>1. Init => Contract!EngineInit
  <2> SUFFICES ASSUME Init PROVE Contract!EngineInit
    OBVIOUS
  <2>1. /\ call = "unopened" /\ in_flight = [id \in Ids |-> "none"]
        /\ out = [id \in Ids |-> Contract!NoCompletion]
    BY DEF Init, StateInit
  <2>2. ~IsOpen
    BY <2>1 DEF IsOpen
  <2>3. IsOpen = FALSE
    BY <2>2, OpenBoolean, Zenon
  <2> QED
    BY <2>1, <2>2, <2>3 DEF Contract!EngineInit
<1>2. IInv /\ [Next]_vars => [Contract!EngineNext]_Contract!engineVars
  BY ContractStep
<1> QED
  BY <1>1, <1>2, Invariance, PTL DEF Spec, ImplementsEngineIO, Contract!EngineSpec
=============================================================================
