----------------------------- MODULE JobStoreMC -----------------------------
(***************************************************************************)
(* Small instances of JobStore for TLC.                                    *)
(***************************************************************************)
EXTENDS JobStore, TLC

\* Every job transcribes the same recording: a transcription and the one that
\* is to replace it.
SameRecording == [j \in Job |-> CHOOSE r \in Recording : TRUE]

\* Tokens only prove identity, so which process holds which does not matter;
\* jobs are interchangeable too while they share a recording.
Symmetry == Permutations(Owner) \cup Permutations(Job)
=============================================================================
