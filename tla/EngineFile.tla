----------------------------- MODULE EngineFile -----------------------------
(***************************************************************************)
(* The file of an engine: OpenFileWithDirectFallback (engine_utils.h), the *)
(* members fd_ and direct_effective_, and the descriptor as the operating  *)
(* system knows it (external).                                             *)
(***************************************************************************)

VARIABLES direct,               \* config.direct: O_DIRECT is asked for
          fd,                   \* fd_ >= 0
          direct_effective,     \* direct_effective_
          open_as               \* the descriptor: "closed", or how it is open

fileVars == <<direct, fd, direct_effective, open_as>>

FileTypeOK == /\ direct \in BOOLEAN /\ fd \in BOOLEAN
              /\ direct_effective \in BOOLEAN
              /\ open_as \in {"closed", "direct", "buffered"}

FileInit == /\ direct \in BOOLEAN
            /\ fd = FALSE /\ direct_effective = FALSE
            /\ open_as = "closed"

\* faulty variant: the fallback reports what was asked for
OpenResultsAsAsked ==
  {[flags |-> flags, direct_effective |-> direct] :
     flags \in IF direct THEN {"direct", "buffered"} ELSE {"buffered"}}

\* What OpenFileWithDirectFallback may return.  A file system that knows no
\* O_DIRECT answers EINVAL or EOPNOTSUPP, and the file is opened without.
OpenResults ==
  {[flags |-> flags, direct_effective |-> flags = "direct"] :
     flags \in IF direct THEN {"direct", "buffered"} ELSE {"buffered"}}

OpenFile == \E result \in OpenResults :
              /\ fd' = TRUE
              /\ direct_effective' = result.direct_effective
              /\ open_as' = result.flags
              /\ UNCHANGED direct

CloseFile == /\ fd' = FALSE
             /\ direct_effective' = FALSE
             /\ open_as' = IF fd THEN "closed" ELSE open_as
             /\ UNCHANGED direct
=============================================================================
