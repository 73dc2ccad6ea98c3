---------------------------- MODULE ExecutionMC ----------------------------
(***************************************************************************)
(* Small instances of Execution for TLC.                                   *)
(***************************************************************************)
EXTENDS Execution

\* Every job transcribes the same recording.
SameRecording == [j \in Job |-> CHOOSE r \in Recording : TRUE]
=============================================================================
