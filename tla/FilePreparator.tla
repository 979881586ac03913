--------------------------- MODULE FilePreparator ---------------------------
(***************************************************************************)
(* cfio::FilePreparator (orchestrator/file_preparator.{h,cpp}): creates    *)
(* and fills the test files before a run and deletes those it created      *)
(* after it.  Several jobs may name the same file.                         *)
(*                                                                         *)
(* A file is known here by whether it is on disk; what is written into it  *)
(* is left out.  The operations are used by BenchmarkOrchestrator.         *)
(***************************************************************************)
EXTENDS Integers, Sequences

CONSTANTS Files,        \* names the jobs may use
          RemoveMayFail \* deleting a file may fail

ASSUME PreparatorAssumption == RemoveMayFail \in BOOLEAN

VARIABLES disk,         \* the set of files that exist
          created,      \* created_: entries [path, pre_existed], in order
          cleaned,      \* cleaned_
          keep_files,   \* keep_files_, from --keep-files
          undeleted     \* history: the files remove() failed to delete

prepVars == <<disk, created, cleaned, keep_files, undeleted>>

Entry == [path : Files, pre_existed : BOOLEAN]

PrepTypeOK == /\ disk \subseteq Files
              /\ created \in Seq(Entry)
              /\ cleaned \in BOOLEAN
              /\ keep_files \in BOOLEAN
              /\ undeleted \subseteq Files

PrepInit == /\ disk \in SUBSET Files
            /\ created = <<>>
            /\ cleaned = FALSE
            /\ keep_files \in BOOLEAN
            /\ undeleted = {}

-----------------------------------------------------------------------------
\* CreateAndFill opens with O_CREAT, reserves, fills, syncs, and records the
\* file last.  pre_existed is what exists() said before the open.
FillSucceeds(f) ==
  /\ disk' = disk \cup {f}
  /\ created' = Append(created, [path |-> f, pre_existed |-> f \in disk])
  /\ UNCHANGED <<cleaned, keep_files, undeleted>>

\* The open fails: nothing happened.
OpenFails == UNCHANGED prepVars

\* fallocate, a write or fsync fails after the open: the exception leaves
\* before the file is recorded.
FillFails(f) ==
  /\ disk' = disk \cup {f}
  /\ UNCHANGED <<created, cleaned, keep_files, undeleted>>

\* Faulty variant: the clean-up forgets to look at pre_existed.
ToDeleteAll == {created[i].path : i \in DOMAIN created}

\* The files a clean-up tries to delete.
ToDelete == {created[i].path :
               i \in {j \in DOMAIN created : ~created[j].pre_existed}}

\* Each removal may fail on its own; Cleanup logs that, the destructor
\* ignores it.
DeleteCreated ==
  \E kept \in SUBSET ToDelete :
    /\ RemoveMayFail \/ kept = {}
    /\ disk' = disk \ (ToDelete \ kept)
    /\ undeleted' = kept \cap disk

\* Cleanup, once.
Cleanup ==
  /\ IF cleaned \/ keep_files
     THEN UNCHANGED <<disk, undeleted>> ELSE DeleteCreated
  /\ cleaned' = TRUE
  /\ UNCHANGED <<created, keep_files>>

\* Faulty variant: a defaulted destructor.
DestroyDefaulted == UNCHANGED prepVars

\* The destructor deletes what no Cleanup was called for.
Destroy ==
  /\ IF cleaned \/ keep_files
     THEN UNCHANGED <<disk, undeleted>> ELSE DeleteCreated
  /\ UNCHANGED <<created, cleaned, keep_files>>
=============================================================================
