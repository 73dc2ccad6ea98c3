------------------------------ MODULE JobStore ------------------------------
(***************************************************************************)
(* The durable job store of BreezeDesk: the SQLite tables recordings,      *)
(* transcription_jobs, job_chunks, transcript_segments and                 *)
(* asr_execution_lease, shared by the desktop application and by any       *)
(* number of command line processes.  Every action is one database         *)
(* transaction (BEGIN IMMEDIATE ... COMMIT), so actions of different       *)
(* processes interleave but do not overlap; a transaction that fails       *)
(* rolls back and is no step at all.                                       *)
(*                                                                         *)
(* An executor proves itself by its owner token: writes with a token go    *)
(* through executionLeaseTransaction and need the unexpired lease, writes  *)
(* without one are the requests of a user.  A crashed executor is one that *)
(* takes no more steps: its lease runs out as the clock advances.          *)
(***************************************************************************)
EXTENDS Naturals, JobLifecycle

CONSTANTS
    Job,          \* job identifiers; a UUID is used by one job only
    Recording,    \* recording identifiers
    RecordingOf,  \* the recording each job transcribes
    Owner,        \* owner tokens
    NoJob,        \* recordings.active_job_id IS NULL
    NoLease,      \* table asr_execution_lease is empty
    MaxChunks,    \* bound: longest chunk plan
    LeaseTTL      \* the lease duration, in ticks of the wall clock

ASSUME JobAssumption   == RecordingOf \in [Job -> Recording] /\ NoJob \notin Job
ASSUME BoundAssumption == MaxChunks \in Nat \ {0} /\ LeaseTTL \in Nat \ {0}

Ordinal    == 0 .. MaxChunks - 1
ChunkState == {"Pending", "Running", "Completed", "Cancelled", "Failed", "Interrupted"}
\* What a job's transcript rows hold: nothing, recognizer output, or output
\* with at least one manual edit in it.
Text       == {"none", "machine", "edited"}
Lease      == [job : Job, owner : Owner, ttl : 0 .. LeaseTTL]

ASSUME NoLeaseAssumption == NoLease \notin Lease

VARIABLES
    rec,     \* "present", "trashed" (deleted_at is set) or "gone", per recording
    active,  \* recordings.active_job_id: the job whose transcript is published
    state,   \* transcription_jobs.state; "unborn" and "deleted" have no row
    hidden,  \* transcription_jobs.queue_hidden
    chunks,  \* job_chunks.state per ordinal; "absent" has no row
    text,    \* the job's transcript_segments
    lease    \* the one row of asr_execution_lease; ttl 0 is expired

vars == <<rec, active, state, hidden, chunks, text, lease>>

NoPlan == [c \in Ordinal |-> "absent"]
JobsOf(r) == {j \in Job : RecordingOf[j] = r}

TypeOK ==
    /\ rec    \in [Recording -> {"present", "trashed", "gone"}]
    /\ active \in [Recording -> Job \cup {NoJob}]
    /\ state  \in [Job -> JobState \cup {"unborn", "deleted"}]
    /\ hidden \in [Job -> BOOLEAN]
    /\ chunks \in [Job -> [Ordinal -> ChunkState \cup {"absent"}]]
    /\ text   \in [Job -> Text]
    /\ lease  \in Lease \cup {NoLease}

Init ==
    /\ rec    = [r \in Recording |-> "present"]
    /\ active = [r \in Recording |-> NoJob]
    /\ state  = [j \in Job |-> "unborn"]
    /\ hidden = [j \in Job |-> FALSE]
    /\ chunks = [j \in Job |-> NoPlan]
    /\ text   = [j \in Job |-> "none"]
    /\ lease  = NoLease

-----------------------------------------------------------------------------
(* The lease. *)

LeaseLive   == lease # NoLease /\ lease.ttl > 0
LiveOn(j)   == LeaseLive /\ lease.job = j
\* The guard of executionLeaseTransaction.
Holds(j, o) == LiveOn(j) /\ lease.owner = o
Running     == {j \in Job : IsRunning(state[j])}

RenewLease(j, o) ==
    /\ Holds(j, o)
    /\ lease' = [lease EXCEPT !.ttl = LeaseTTL]
    /\ UNCHANGED <<rec, active, state, hidden, chunks, text>>

\* Expiry is a comparison of expires_at with the wall clock, which runs ...
Tick ==
    /\ LeaseLive
    /\ lease' = [lease EXCEPT !.ttl = @ - 1]
    /\ UNCHANGED <<rec, active, state, hidden, chunks, text>>

\* ... and which the user, or time synchronisation, may set back: a lease
\* that had run out is then unexpired again.
ClockStepsBack ==
    /\ lease # NoLease
    /\ \E t \in lease.ttl + 1 .. LeaseTTL : lease' = [lease EXCEPT !.ttl = t]
    /\ UNCHANGED <<rec, active, state, hidden, chunks, text>>

-----------------------------------------------------------------------------
(* Recovery of jobs whose executor is gone: a pending cancellation is      *)
(* carried out, everything else becomes resumable.                         *)

\* Mutant: recovery overlooks the pending cancellation.
StateAfterLossIgnoringCancel(s) == "Interrupted"

StateAfterLoss(s) == IF s = "Cancelling" THEN "Cancelled" ELSE "Interrupted"

\* Mutant: cancelling does not spare the completed chunks.
ChunkAfterLossOfAll(s, c) ==
    CASE s = "Cancelling" /\ c # "absent" -> "Cancelled"
      [] s # "Cancelling" /\ c = "Running" -> "Interrupted"
      [] OTHER -> c

ChunkAfterLoss(s, c) ==
    CASE s = "Cancelling" /\ c \in {"Running", "Interrupted", "Failed"} -> "Cancelled"
      [] s # "Cancelling" /\ c = "Running" -> "Interrupted"
      [] OTHER -> c

RecoveredState(S) == [j \in Job |-> IF j \in S THEN StateAfterLoss(state[j]) ELSE state[j]]
RecoveredChunks(S) ==
    [j \in Job |-> IF j \in S THEN [c \in Ordinal |-> ChunkAfterLoss(state[j], chunks[j][c])]
                              ELSE chunks[j]]

\* JobRecoveryService at start-up, or before a command line resume: every
\* running job the unexpired lease does not protect.
\* Mutant: start-up recovery does not look at the lease.
AbandonedWhoeverHolds == Running

Abandoned == {j \in Running : ~LiveOn(j)}
MarkRunningJobsInterrupted ==
    /\ Abandoned # {} \/ lease # NoLease
    /\ state'  = RecoveredState(Abandoned)
    /\ chunks' = RecoveredChunks(Abandoned)
    /\ lease'  = IF LeaseLive THEN lease ELSE NoLease
    /\ UNCHANGED <<rec, active, hidden, text>>

-----------------------------------------------------------------------------
(* Claims.  A claim over an expired lease first recovers the job it names, *)
(* then takes a queued job, in one transaction.                            *)

Expired == {j \in Running : lease # NoLease /\ ~LeaseLive /\ lease.job = j}

\* Mutant: a claim that trusts the queue and checks nobody else.
ClaimUnchecked(j, o) ==
    /\ state[j] = "Queued"
    /\ state'  = [RecoveredState(Expired) EXCEPT ![j] = "Preparing"]
    /\ chunks' = RecoveredChunks(Expired)
    /\ lease'  = [job |-> j, owner |-> o, ttl |-> LeaseTTL]
    /\ UNCHANGED <<rec, active, hidden, text>>

Claim(j, o) ==
    /\ ~LeaseLive
    /\ Running \subseteq Expired
    /\ state[j] = "Queued"
    /\ state'  = [RecoveredState(Expired) EXCEPT ![j] = "Preparing"]
    /\ chunks' = RecoveredChunks(Expired)
    /\ lease'  = [job |-> j, owner |-> o, ttl |-> LeaseTTL]
    /\ UNCHANGED <<rec, active, hidden, text>>

\* The desktop scheduler takes a visible queued job (which one, the module
\* leaves open), a command line process the job it was started for.
ClaimNextQueued(j, o) == ~hidden[j] /\ Claim(j, o)
ClaimQueued(j, o)     == Claim(j, o)

\* claimNextQueued with nothing to take still commits the recovery.  (A
\* claimQueued of a job that is not queued fails, and rolls it back.)
ClaimFindsNothing ==
    /\ lease # NoLease /\ ~LeaseLive
    /\ Running \subseteq Expired => \A j \in Job : state[j] = "Queued" => hidden[j]
    /\ state'  = RecoveredState(Expired)
    /\ chunks' = RecoveredChunks(Expired)
    /\ lease'  = NoLease
    /\ UNCHANGED <<rec, active, hidden, text>>

-----------------------------------------------------------------------------
(* Requests without an owner token: a user of either program. *)

CreateQueued(j, hide) ==
    /\ state[j] = "unborn"
    /\ rec[RecordingOf[j]] # "gone"     \* foreign key
    /\ state'  = [state EXCEPT ![j] = "Queued"]
    /\ hidden' = [hidden EXCEPT ![j] = hide]
    /\ UNCHANGED <<rec, active, chunks, text, lease>>

\* The plan of n chunks, none of them started.
Plan(n) == [c \in Ordinal |-> IF c < n THEN "Pending" ELSE "absent"]

\* A command line process stores its first plan before it claims.
ReplaceChunksWhileQueued(j) ==
    /\ state[j] = "Queued" /\ chunks[j] = NoPlan
    /\ \E n \in 1 .. MaxChunks : chunks' = [chunks EXCEPT ![j] = Plan(n)]
    /\ UNCHANGED <<rec, active, state, hidden, text, lease>>

RequestCancellation(j) ==
    /\ IsRunning(state[j]) /\ CanTransition(state[j], "Cancelling")
    /\ state' = [state EXCEPT ![j] = "Cancelling"]
    /\ UNCHANGED <<rec, active, hidden, chunks, text, lease>>

\* Mutant: a job that leaves execution keeps its lease.
LeaseStays(j) == lease

\* transition() deletes the lease row of a job that leaves execution.
LeaseWithout(j) == IF lease # NoLease /\ lease.job = j THEN NoLease ELSE lease

CancelWithoutExecutor(j) ==
    /\ state[j] \in {"Queued", "Interrupted"}
    /\ CanTransition(state[j], "Cancelled")
    /\ state' = [state EXCEPT ![j] = "Cancelled"]
    /\ lease' = LeaseWithout(j)
    /\ UNCHANGED <<rec, active, hidden, chunks, text>>

\* Resume and retry.  Chunks, transcript and queue_hidden stay as they are.
Requeue(j) ==
    /\ state[j] \in {"Interrupted", "Failed", "Cancelled"}
    /\ CanTransition(state[j], "Queued")
    /\ state' = [state EXCEPT ![j] = "Queued"]
    /\ UNCHANGED <<rec, active, hidden, chunks, text, lease>>

\* The guard of every editor write.
ValidateOwnerlessEdit(j) ==
    /\ state[j] \in {"Queued", "Completed", "Cancelled", "Failed", "Interrupted"}
    /\ ~LiveOn(j)

\* saveEditedTranscript, saveEditedSegment and deleteSegment: what the editor
\* saves is what the job's transcript becomes.
SaveEditedTranscript(j, t) ==
    /\ ValidateOwnerlessEdit(j)
    /\ text' = [text EXCEPT ![j] = t]
    /\ UNCHANGED <<rec, active, state, hidden, chunks, lease>>

-----------------------------------------------------------------------------
(* Deletion. *)

\* DELETE FROM transcription_jobs, with its cascades.
DeleteJobs(S) ==
    /\ state'  = [j \in Job |-> IF j \in S THEN "deleted" ELSE state[j]]
    /\ chunks' = [j \in Job |-> IF j \in S THEN NoPlan ELSE chunks[j]]
    /\ text'   = [j \in Job |-> IF j \in S THEN "none" ELSE text[j]]
    /\ lease'  = IF lease # NoLease /\ lease.job \in S THEN NoLease ELSE lease

Removable(j) == IsTerminal(state[j]) \/ state[j] = "Interrupted"

\* The job of the published transcript only disappears from the queue.
DeleteTerminalJob(j) ==
    /\ Removable(j)
    /\ IF active[RecordingOf[j]] = j
       THEN hidden' = [hidden EXCEPT ![j] = TRUE] /\ UNCHANGED <<state, chunks, text, lease>>
       ELSE DeleteJobs({j}) /\ UNCHANGED hidden
    /\ UNCHANGED <<rec, active>>

Published(j) == \E r \in Recording : active[r] = j
Cleared == {j \in Job : ~hidden[j] /\ state[j] \in {"Completed", "Cancelled"}}
ClearCompleted ==
    /\ Cleared # {}
    /\ hidden' = [j \in Job |-> hidden[j] \/ (j \in Cleared /\ state[j] = "Completed" /\ Published(j))]
    /\ DeleteJobs({j \in Cleared : ~Published(j)})
    /\ UNCHANGED <<rec, active>>

MoveToTrash(r) ==
    /\ rec[r] = "present"
    /\ rec' = [rec EXCEPT ![r] = "trashed"]
    /\ UNCHANGED <<active, state, hidden, chunks, text, lease>>

Restore(r) ==
    /\ rec[r] = "trashed"
    /\ rec' = [rec EXCEPT ![r] = "present"]
    /\ UNCHANGED <<active, state, hidden, chunks, text, lease>>

\* Refused while the recording is being transcribed: ensureNoActiveExecutionLease.
PermanentlyDelete(r) ==
    /\ rec[r] = "trashed"
    /\ \A j \in JobsOf(r) : ~LiveOn(j)
    /\ rec'    = [rec EXCEPT ![r] = "gone"]
    /\ active' = [active EXCEPT ![r] = NoJob]
    /\ DeleteJobs({j \in JobsOf(r) : state[j] # "unborn"})
    /\ UNCHANGED hidden

-----------------------------------------------------------------------------
(* Writes under the lease: the executor of the job. *)

\* transition() to the next stage of the pipeline.
AdvanceStage(j, s, o) ==
    /\ Holds(j, o)
    /\ s # state[j] /\ CanTransition(state[j], s)
    /\ state' = [state EXCEPT ![j] = s]
    /\ UNCHANGED <<rec, active, hidden, chunks, text, lease>>

\* transition() out of execution; it releases the lease.
StopExecution(j, s, o) ==
    /\ Holds(j, o)
    /\ CanTransition(state[j], s)
    /\ state' = [state EXCEPT ![j] = s]
    /\ lease' = LeaseWithout(j)
    /\ UNCHANGED <<rec, active, hidden, chunks, text>>

\* The recording's other completed jobs, whose transcripts the new one replaces.
Superseded(j) ==
    {k \in JobsOf(RecordingOf[j]) \ {j} : state[k] = "Completed"}

\* Mutant: completion does not look for a cancellation that came first.
CompleteWhateverState(j, o) ==
    /\ Holds(j, o)
    /\ state'  = [state EXCEPT ![j] = "Completed"]
    /\ active' = [active EXCEPT ![RecordingOf[j]] = j]
    /\ text'   = [k \in Job |-> IF k \in Superseded(j) THEN "none" ELSE text[k]]
    /\ hidden' = [k \in Job |-> hidden[k] \/ k \in Superseded(j)]
    /\ lease'  = LeaseWithout(j)
    /\ UNCHANGED <<rec, chunks>>

CompleteAndActivate(j, o) ==
    /\ Holds(j, o)
    /\ state[j] = "Finalizing"
    /\ rec[RecordingOf[j]] # "gone"
    /\ state'  = [state EXCEPT ![j] = "Completed"]
    /\ active' = [active EXCEPT ![RecordingOf[j]] = j]
    /\ text'   = [k \in Job |-> IF k \in Superseded(j) THEN "none" ELSE text[k]]
    /\ hidden' = [k \in Job |-> hidden[k] \/ k \in Superseded(j)]
    /\ lease'  = LeaseWithout(j)
    /\ UNCHANGED <<rec, chunks>>

ReplaceChunks(j, o) ==
    /\ Holds(j, o)
    /\ \E n \in 1 .. MaxChunks : chunks' = [chunks EXCEPT ![j] = Plan(n)]
    /\ UNCHANGED <<rec, active, state, hidden, text, lease>>

UpdateChunk(j, c, s, o) ==
    /\ Holds(j, o)
    /\ chunks[j][c] # "absent"
    /\ chunks' = [chunks EXCEPT ![j][c] = s]
    /\ UNCHANGED <<rec, active, state, hidden, text, lease>>

\* Mutant: recognizer output is written over whatever is there.
ReplaceChunkBlindly(j, o) ==
    /\ Holds(j, o)
    /\ \E c \in Ordinal : chunks[j][c] # "absent"
    /\ \E t \in {"none", "machine"} : text' = [text EXCEPT ![j] = t]
    /\ UNCHANGED <<rec, active, state, hidden, chunks, lease>>

\* Recognizer output replaces one chunk's rows, refused if one of them was
\* edited by hand; the rows of the other chunks are written back unchanged.
ReplaceChunk(j, o) ==
    /\ Holds(j, o)
    /\ \E c \in Ordinal : chunks[j][c] # "absent"
    /\ \E t \in IF text[j] = "edited" THEN {"edited"} ELSE {"none", "machine"} :
           text' = [text EXCEPT ![j] = t]
    /\ UNCHANGED <<rec, active, state, hidden, chunks, lease>>

-----------------------------------------------------------------------------
Execute(j, o) ==
    \/ RenewLease(j, o)
    \/ \E s \in ExecutingState : AdvanceStage(j, s, o)
    \/ \E s \in {"Cancelled", "Failed", "Interrupted"} : StopExecution(j, s, o)
    \/ CompleteAndActivate(j, o)
    \/ ReplaceChunks(j, o)
    \/ \E c \in Ordinal, s \in ChunkState : UpdateChunk(j, c, s, o)
    \/ ReplaceChunk(j, o)

Request(j) ==
    \/ \E hide \in BOOLEAN : CreateQueued(j, hide)
    \/ ReplaceChunksWhileQueued(j)
    \/ RequestCancellation(j)
    \/ CancelWithoutExecutor(j)
    \/ Requeue(j)
    \/ \E t \in Text : SaveEditedTranscript(j, t)
    \/ DeleteTerminalJob(j)

Library(r) == MoveToTrash(r) \/ Restore(r) \/ PermanentlyDelete(r)

Next ==
    \/ \E j \in Job, o \in Owner :
           ClaimNextQueued(j, o) \/ ClaimQueued(j, o) \/ Execute(j, o)
    \/ \E j \in Job : Request(j)
    \/ \E r \in Recording : Library(r)
    \/ ClaimFindsNothing \/ MarkRunningJobsInterrupted \/ ClearCompleted
    \/ Tick \/ ClockStepsBack

Spec == Init /\ [][Next]_vars

-----------------------------------------------------------------------------
(* Invariants. *)

\* At most one transcription executes on the machine, whichever processes
\* claim, crash and recover: the promise of index idx_jobs_single_execution,
\* kept here by the claims and recoveries without the index.
SingleExecution ==
    \A j, k \in Job : IsRunning(state[j]) /\ IsRunning(state[k]) => j = k

\* Between transactions the lease row names exactly the running job: no job
\* runs that nobody can recover, no lease blocks the queue without a job.
ExecutionIsLeased ==
    Running = IF lease = NoLease THEN {} ELSE {lease.job}

\* A recording publishes a completed transcript of its own or none
\* (completeAndActivate, deleteTerminalJob, clearCompleted, permanentlyDelete).
PublishedIsComplete ==
    \A r \in Recording : active[r] # NoJob =>
        /\ rec[r] # "gone"
        /\ active[r] \in JobsOf(r)
        /\ state[active[r]] = "Completed"

\* All of it, which is inductive (JobStoreProofs).
StoreInv == TypeOK /\ ExecutionIsLeased /\ PublishedIsComplete

-----------------------------------------------------------------------------
(* Action properties. *)

\* A cancellation that was accepted ends in Cancelled (or with the recording
\* deleted): no completion, failure or recovery that races with it wins.
CancellationSticks ==
    [][\A j \in Job : state[j] = "Cancelling" =>
           state'[j] \in {"Cancelling", "Cancelled", "deleted"}]_vars

\* While its lease is unexpired an executor keeps its job: no other process
\* takes the lease, recovers or deletes the job, and the row moves only along
\* the job state machine.
LiveLeaseRespected ==
    [][LeaseLive =>
           /\ CanTransition(state[lease.job], state'[lease.job])
           /\ IF lease' = NoLease
              THEN ~IsRunning(state'[lease.job])
              ELSE lease'.job = lease.job /\ lease'.owner = lease.owner]_vars

\* Completed chunks outlive the executor: once nobody holds the job, no
\* recovery, cancellation, retry, resume, claim or completion of another job
\* gives up what was transcribed (docs/user/cli.md:45, database.md:67).
UnownedChunksKept ==
    [][\A j \in Job, c \in Ordinal :
           chunks[j][c] = "Completed" /\ ~LiveOn(j) =>
               chunks'[j][c] = "Completed" \/ state'[j] = "deleted"]_vars

\* The published transcript changes only by an edit of the user's or by the
\* completion that replaces it: no executor, however late, writes to it.
PublishedTranscriptKept ==
    [][\A r \in Recording : active[r] # NoJob /\ active'[r] = active[r] =>
           LET j == active[r]
           IN  text'[j] # text[j] => \E t \in Text : SaveEditedTranscript(j, t)]_vars

\* Recognizer output never replaces manual edits of the job it belongs to.
ManualEditsKept ==
    [][\A j \in Job : IsRunning(state[j]) /\ text[j] = "edited" =>
           text'[j] = "edited" \/ state'[j] = "deleted"]_vars

-----------------------------------------------------------------------------
(* What the job store implements. *)

PhaseOf(s) ==
    CASE s = "unborn"          -> "absent"
      [] s = "Queued"          -> "waiting"
      [] s \in ExecutingState  -> "executing"
      [] s = "Cancelling"      -> "stopping"
      [] s = "Completed"       -> "done"
      [] s = "deleted"         -> "dropped"
      [] OTHER                 -> "stopped"

Promise == INSTANCE ExclusiveExecution
               WITH phase <- [j \in Job |-> PhaseOf(state[j])], published <- active

\* Leases, recoveries, races and deletions show a client nothing but
\* exclusive execution.
ImplementsExclusiveExecution == Promise!Spec

=============================================================================
