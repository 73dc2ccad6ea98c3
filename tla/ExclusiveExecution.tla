------------------------- MODULE ExclusiveExecution -------------------------
(***************************************************************************)
(* What the job store promises its clients, with no leases, owners, clocks *)
(* or chunks in it: of all submitted jobs at most one is busy, an accepted *)
(* request to stop is final, and a recording publishes the last of its     *)
(* jobs that finished.                                                     *)
(***************************************************************************)
CONSTANTS Job, Recording, RecordingOf, NoJob

VARIABLES
    phase,      \* where each job is in its life
    published   \* the job whose result each recording shows, or NoJob

vars == <<phase, published>>

Phase == {"absent", "waiting", "executing", "stopping", "stopped", "done", "dropped"}
Busy  == {j \in Job : phase[j] \in {"executing", "stopping"}}

TypeOK ==
    /\ phase     \in [Job -> Phase]
    /\ published \in [Recording -> Job \cup {NoJob}]

Init ==
    /\ phase     = [j \in Job |-> "absent"]
    /\ published = [r \in Recording |-> NoJob]

Move(j, from, to) ==
    /\ phase[j] \in from
    /\ phase' = [phase EXCEPT ![j] = to]
    /\ UNCHANGED published

Submit(j)    == Move(j, {"absent"}, "waiting")
Withdraw(j)  == Move(j, {"waiting"}, "stopped")
Resubmit(j)  == Move(j, {"stopped"}, "waiting")
AskToStop(j) == Move(j, {"executing"}, "stopping")
Stop(j)      == Move(j, {"executing", "stopping"}, "stopped")

\* A job starts alone; one whose executor was lost is stopped in the same step.
Start(j) ==
    /\ phase[j] = "waiting"
    /\ phase' = [k \in Job |-> IF k = j THEN "executing"
                               ELSE IF k \in Busy THEN "stopped" ELSE phase[k]]
    /\ UNCHANGED published

\* Only a job nobody asked to stop can finish.
Finish(j) ==
    /\ phase[j] = "executing"
    /\ phase'     = [phase EXCEPT ![j] = "done"]
    /\ published' = [published EXCEPT ![RecordingOf[j]] = j]

\* Finished and stopped jobs may be forgotten, a published one may not.
Discard(S) ==
    /\ S # {}
    /\ \A j \in S : phase[j] \in {"stopped", "done"} /\ published[RecordingOf[j]] # j
    /\ phase' = [j \in Job |-> IF j \in S THEN "dropped" ELSE phase[j]]
    /\ UNCHANGED published

DropRecording(r) ==
    /\ phase'     = [j \in Job |-> IF RecordingOf[j] = r /\ phase[j] # "absent"
                                   THEN "dropped" ELSE phase[j]]
    /\ published' = [published EXCEPT ![r] = NoJob]

Next ==
    \/ \E j \in Job : \/ Submit(j) \/ Start(j) \/ AskToStop(j) \/ Stop(j)
                      \/ Withdraw(j) \/ Resubmit(j) \/ Finish(j)
    \/ \E S \in SUBSET Job : Discard(S)
    \/ \E r \in Recording : DropRecording(r)

Spec == Init /\ [][Next]_vars
=============================================================================
