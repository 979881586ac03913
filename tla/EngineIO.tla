------------------------------ MODULE EngineIO ------------------------------
(***************************************************************************)
(* What every I/O engine (engine/i_engine_io.h and its implementations)    *)
(* does for the worker that owns it.  A request is identified by its id,   *)
(* is outstanding from the SubmitIO that accepts it until a                *)
(* PollCompletions that returns its completion, and is returned at most    *)
(* once per submission, in any order.                                      *)
(*                                                                         *)
(* The synchronous engines perform the call inside SubmitIO and buffer one *)
(* completion; libaio and io_uring hand it to the kernel.  Both are the    *)
(* same machine at this level, with Depth = 1 for the synchronous ones:    *)
(* the result of a request is chosen when it is polled.                    *)
(***************************************************************************)
EXTENDS Integers, FiniteSets

CONSTANTS Ids,          \* request ids in use
          Depth,        \* size of the engine's queue (iodepth), at least 1
          BlockSize     \* length of every request, at least 1

VARIABLES is_open,      \* fd_ and the kernel context are valid
          outstanding,  \* in_flight_: direction of each accepted request
          completions   \* `out`: completions returned and not yet consumed

engineVars == <<is_open, outstanding, completions>>

Directions == {"read", "write"}

\* IOCompletion.  success is set only when the full length was transferred;
\* a failed request may still have moved bytes (a short transfer, or res2).
Completion == {c \in [direction : Directions, bytes : 0 .. BlockSize,
                      success : BOOLEAN] : c.success => c.bytes = BlockSize}

NoCompletion == [direction |-> "none", bytes |-> 0, success |-> FALSE]

Outstanding == {id \in Ids : outstanding[id] # "none"}
Returned == {id \in Ids : completions[id] # NoCompletion}

EngineInit == /\ is_open = FALSE
              /\ outstanding = [id \in Ids |-> "none"]
              /\ completions = [id \in Ids |-> NoCompletion]

-----------------------------------------------------------------------------
Open == /\ ~is_open
        /\ is_open' = TRUE
        /\ UNCHANGED <<outstanding, completions>>

\* The preconditions SubmitIO checks: it throws runtime_error when closed and
\* logic_error for a duplicate id or a full queue.
SubmitOK(id) == /\ is_open
                /\ id \in Ids
                /\ outstanding[id] = "none"
                /\ Cardinality(Outstanding) < Depth

SubmitIO(id, direction) ==
  /\ SubmitOK(id)
  /\ outstanding' = [outstanding EXCEPT ![id] = direction]
  /\ UNCHANGED <<is_open, completions>>

\* PollCompletions(1, Depth): at least one completion, at most all of them,
\* each with the direction of the request it answers.
PollCompletions(ids) ==
  /\ is_open
  /\ ids # {}
  /\ ids \subseteq Outstanding
  /\ \E result \in [ids -> Completion] :
        /\ \A id \in ids : result[id].direction = outstanding[id]
        /\ completions' = [id \in Ids |-> IF id \in ids THEN result[id]
                                          ELSE completions[id]]
  /\ outstanding' = [id \in Ids |-> IF id \in ids THEN "none"
                                    ELSE outstanding[id]]
  /\ UNCHANGED is_open

\* The caller is done with one returned completion.
Consume(id) ==
  /\ id \in Returned
  /\ completions' = [completions EXCEPT ![id] = NoCompletion]
  /\ UNCHANGED <<is_open, outstanding>>

\* Close drains or cancels what is outstanding, then destroys the context;
\* results of drained requests are discarded.
Close == /\ is_open
         /\ is_open' = FALSE
         /\ outstanding' = [id \in Ids |-> "none"]
         /\ UNCHANGED completions

EngineNext == \/ Open
              \/ \E id \in Ids, d \in Directions : SubmitIO(id, d)
              \/ \E ids \in SUBSET Ids : PollCompletions(ids)
              \/ \E id \in Ids : Consume(id)
              \/ Close

EngineSpec == EngineInit /\ [][EngineNext]_engineVars

-----------------------------------------------------------------------------
EngineTypeOK == /\ is_open \in BOOLEAN
                /\ outstanding \in [Ids -> Directions \cup {"none"}]
                /\ completions \in [Ids -> Completion \cup {NoCompletion}]
=============================================================================
