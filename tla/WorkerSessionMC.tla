-------------------------- MODULE WorkerSessionMC --------------------------
(***************************************************************************)
(* Small instances of WorkerSession for TLC.                               *)
(***************************************************************************)
EXTENDS WorkerSession

CONSTANT x1

\* All jobs use one model; a test may load another.
OneModel == [j \in Job |-> x1]

\* With one model the jobs are interchangeable.
EqualJobs == Permutations(Job)
=============================================================================
