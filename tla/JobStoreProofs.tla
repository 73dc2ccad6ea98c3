--------------------------- MODULE JobStoreProofs ---------------------------
(***************************************************************************)
(* What JobStore guarantees for any set of jobs, recordings and owners,    *)
(* any lease duration and any length of chunk plan: its invariant, and     *)
(* from it what no transaction may do, and the contract that all of them   *)
(* implement.                                                              *)
(***************************************************************************)
EXTENDS JobStore, TLAPS

-----------------------------------------------------------------------------
(* The operators of the model. *)

\* A state is running or not whichever way it is put: the claims and
\* recoveries list the running states, isRunning() excludes the others.
LEMMA RunningStates ==
    /\ \A s \in ExecutingState : IsRunning(s)
    /\ IsRunning("Cancelling")
    /\ \A s \in {"unborn", "deleted", "Queued", "Interrupted", "Completed", "Cancelled",
                 "Failed"} : ~IsRunning(s)
  BY DEF IsRunning, RunningState, ExecutingState

\* Recovery leaves the rows well formed.
LEMMA RecoveryTyped ==
    ASSUME TypeOK, NEW S
    PROVE  /\ RecoveredState(S) \in [Job -> JobState \cup {"unborn", "deleted"}]
           /\ RecoveredChunks(S) \in [Job -> [Ordinal -> ChunkState \cup {"absent"}]]
<1>1. RecoveredState(S) \in [Job -> JobState \cup {"unborn", "deleted"}]
  <2>1. \A s : StateAfterLoss(s) \in JobState
    BY DEF StateAfterLoss, JobState, TerminalState
  <2> QED
    BY <2>1 DEF RecoveredState, TypeOK
<1>2. RecoveredChunks(S) \in [Job -> [Ordinal -> ChunkState \cup {"absent"}]]
  <2>1. \A s, c : c \in ChunkState \cup {"absent"} =>
                      ChunkAfterLoss(s, c) \in ChunkState \cup {"absent"}
    BY DEF ChunkAfterLoss, ChunkState
  <2>2. \A j \in Job, c \in Ordinal : chunks[j][c] \in ChunkState \cup {"absent"}
    BY DEF TypeOK
  <2>3. \A j \in Job : chunks[j] \in [Ordinal -> ChunkState \cup {"absent"}]
    BY DEF TypeOK
  <2> QED
    BY <2>1, <2>2, <2>3 DEF RecoveredChunks
<1> QED
  BY <1>1, <1>2

\* Recovery stops exactly the jobs it is given.
LEMMA RecoveryStops ==
    ASSUME TypeOK, NEW S, NEW j \in Job
    PROVE  /\ j \in S => ~IsRunning(RecoveredState(S)[j])
           /\ j \notin S => RecoveredState(S)[j] = state[j]
<1>1. \A s : ~IsRunning(StateAfterLoss(s))
  BY RunningStates DEF StateAfterLoss
<1> QED
  BY <1>1 DEF RecoveredState

\* A new chunk plan, and none, are well formed.
LEMMA PlanTyped ==
    /\ NoPlan \in [Ordinal -> ChunkState \cup {"absent"}]
    /\ \A n : Plan(n) \in [Ordinal -> ChunkState \cup {"absent"}]
  BY DEF NoPlan, Plan, ChunkState

\* A new lease, a renewed one and an aged one are leases.
LEMMA LeaseTyped ==
    ASSUME TypeOK
    PROVE  /\ \A j \in Job, o \in Owner : [job |-> j, owner |-> o, ttl |-> LeaseTTL] \in Lease
           /\ lease # NoLease => \A t \in 0 .. LeaseTTL : [lease EXCEPT !.ttl = t] \in Lease
           /\ \A j \in Job : LeaseWithout(j) \in Lease \cup {NoLease}
  BY BoundAssumption DEF TypeOK, Lease, LeaseWithout

\* The clock changes nothing of a lease but the time it has left.
LEMMA ClockAgesLease ==
    ASSUME TypeOK, Tick \/ ClockStepsBack
    PROVE  /\ lease # NoLease /\ lease' \in Lease
           /\ lease'.job = lease.job /\ lease'.owner = lease.owner
<1>1. lease # NoLease /\ lease \in Lease
  BY DEF Tick, ClockStepsBack, LeaseLive, TypeOK
<1>2. PICK t \in 0 .. LeaseTTL : lease' = [lease EXCEPT !.ttl = t]
  <2>1. CASE Tick
    <3>1. lease.ttl - 1 \in 0 .. LeaseTTL
      BY <1>1, <2>1, BoundAssumption DEF Tick, LeaseLive, Lease
    <3> QED
      BY <2>1, <3>1 DEF Tick
  <2>2. CASE ClockStepsBack
    <3>1. PICK t \in lease.ttl + 1 .. LeaseTTL : lease' = [lease EXCEPT !.ttl = t]
      BY <2>2 DEF ClockStepsBack
    <3>2. t \in 0 .. LeaseTTL
      BY <1>1, BoundAssumption DEF Lease
    <3> QED
      BY <3>1, <3>2
  <2> QED
    BY <2>1, <2>2
<1> QED
  BY <1>1, <1>2 DEF Lease

-----------------------------------------------------------------------------
(* Type correctness. *)

\* An empty database is well typed.
LEMMA TypeInit == Init => TypeOK
  BY PlanTyped DEF Init, TypeOK, JobState, Text

\* So is what an executor's write leaves.
LEMMA TypeExecute ==
    ASSUME TypeOK, NEW j \in Job, NEW o \in Owner, Execute(j, o)
    PROVE  TypeOK'
<1>1. CASE RenewLease(j, o)
  <2>1. lease' \in Lease \cup {NoLease}
    BY <1>1, LeaseTyped, BoundAssumption DEF RenewLease, Holds, LiveOn, LeaseLive
  <2> QED
    BY <1>1, <2>1 DEF RenewLease, TypeOK
<1>2. ASSUME NEW s \in ExecutingState, AdvanceStage(j, s, o)
      PROVE  TypeOK'
  BY <1>2 DEF AdvanceStage, TypeOK, JobState, RunningState
<1>3. ASSUME NEW s \in {"Cancelled", "Failed", "Interrupted"}, StopExecution(j, s, o)
      PROVE  TypeOK'
  BY <1>3, LeaseTyped DEF StopExecution, TypeOK, JobState, TerminalState
<1>4. CASE CompleteAndActivate(j, o)
  <2>1. RecordingOf[j] \in Recording
    BY JobAssumption
  <2>2. state' \in [Job -> JobState \cup {"unborn", "deleted"}]
    BY <1>4 DEF CompleteAndActivate, TypeOK, JobState, TerminalState
  <2>3. active' \in [Recording -> Job \cup {NoJob}] /\ lease' \in Lease \cup {NoLease}
    BY <1>4, <2>1, LeaseTyped DEF CompleteAndActivate, TypeOK
  <2>4. text' \in [Job -> Text] /\ hidden' \in [Job -> BOOLEAN]
    BY <1>4 DEF CompleteAndActivate, TypeOK, Text
  <2> QED
    BY <1>4, <2>2, <2>3, <2>4 DEF CompleteAndActivate, TypeOK
<1>5. CASE ReplaceChunks(j, o)
  BY <1>5, PlanTyped DEF ReplaceChunks, TypeOK
<1>6. ASSUME NEW c \in Ordinal, NEW s \in ChunkState, UpdateChunk(j, c, s, o)
      PROVE  TypeOK'
  BY <1>6 DEF UpdateChunk, TypeOK
<1>7. CASE ReplaceChunk(j, o)
  BY <1>7 DEF ReplaceChunk, TypeOK, Text
<1> QED
  BY <1>1, <1>2, <1>3, <1>4, <1>5, <1>6, <1>7 DEF Execute

\* So is what a deletion with its cascades leaves.
LEMMA TypeDeleteJobs ==
    ASSUME TypeOK, NEW S, DeleteJobs(S)
    PROVE  /\ state'  \in [Job -> JobState \cup {"unborn", "deleted"}]
           /\ chunks' \in [Job -> [Ordinal -> ChunkState \cup {"absent"}]]
           /\ text'   \in [Job -> Text]
           /\ lease'  \in Lease \cup {NoLease}
  BY PlanTyped DEF DeleteJobs, TypeOK, Text

\* So is what a request of a user or a command line leaves.
LEMMA TypeRequest ==
    ASSUME TypeOK, NEW j \in Job, Request(j)
    PROVE  TypeOK'
<1>1. ASSUME NEW hide \in BOOLEAN, CreateQueued(j, hide)
      PROVE  TypeOK'
  BY <1>1 DEF CreateQueued, TypeOK, JobState
<1>2. CASE ReplaceChunksWhileQueued(j)
  BY <1>2, PlanTyped DEF ReplaceChunksWhileQueued, TypeOK
<1>3. CASE RequestCancellation(j)
  BY <1>3 DEF RequestCancellation, TypeOK, JobState, RunningState
<1>4. CASE CancelWithoutExecutor(j)
  BY <1>4, LeaseTyped DEF CancelWithoutExecutor, TypeOK, JobState, TerminalState
<1>5. CASE Requeue(j)
  BY <1>5 DEF Requeue, TypeOK, JobState
<1>6. ASSUME NEW t \in Text, SaveEditedTranscript(j, t)
      PROVE  TypeOK'
  BY <1>6 DEF SaveEditedTranscript, TypeOK
<1>7. CASE DeleteTerminalJob(j)
  <2>1. CASE active[RecordingOf[j]] = j
    BY <1>7, <2>1 DEF DeleteTerminalJob, TypeOK
  <2>2. CASE active[RecordingOf[j]] # j
    BY <1>7, <2>2, TypeDeleteJobs DEF DeleteTerminalJob, TypeOK
  <2> QED
    BY <2>1, <2>2
<1> QED
  BY <1>1, <1>2, <1>3, <1>4, <1>5, <1>6, <1>7 DEF Request

\* So is what trashing, restoring or deleting a recording leaves.
LEMMA TypeLibrary ==
    ASSUME TypeOK, NEW r \in Recording, Library(r)
    PROVE  TypeOK'
<1>1. CASE MoveToTrash(r)
  BY <1>1 DEF MoveToTrash, TypeOK
<1>2. CASE Restore(r)
  BY <1>2 DEF Restore, TypeOK
<1>3. CASE PermanentlyDelete(r)
  BY <1>3, TypeDeleteJobs DEF PermanentlyDelete, TypeOK
<1> QED
  BY <1>1, <1>2, <1>3 DEF Library

\* Every transaction, and every change of the clock, keeps the types.
LEMMA TypeNext == TypeOK /\ [Next]_vars => TypeOK'
<1> SUFFICES ASSUME TypeOK, [Next]_vars
             PROVE  TypeOK'
  OBVIOUS
<1>1. ASSUME NEW j \in Job, NEW o \in Owner, Claim(j, o)
      PROVE  TypeOK'
  <2>1. state' \in [Job -> JobState \cup {"unborn", "deleted"}]
    BY <1>1, RecoveryTyped DEF Claim, JobState, RunningState, ExecutingState
  <2>2. chunks' \in [Job -> [Ordinal -> ChunkState \cup {"absent"}]]
    BY <1>1, RecoveryTyped DEF Claim
  <2>3. lease' \in Lease \cup {NoLease}
    BY <1>1, LeaseTyped DEF Claim
  <2> QED
    BY <1>1, <2>1, <2>2, <2>3 DEF Claim, TypeOK
<1>2. ASSUME NEW j \in Job, NEW o \in Owner,
             ClaimNextQueued(j, o) \/ ClaimQueued(j, o) \/ Execute(j, o)
      PROVE  TypeOK'
  BY <1>1, <1>2, TypeExecute DEF ClaimNextQueued, ClaimQueued
<1>3. CASE \E j \in Job : Request(j)
  BY <1>3, TypeRequest
<1>4. CASE \E r \in Recording : Library(r)
  BY <1>4, TypeLibrary
<1>5. CASE ClaimFindsNothing
  BY <1>5, RecoveryTyped DEF ClaimFindsNothing, TypeOK
<1>6. CASE MarkRunningJobsInterrupted
  BY <1>6, RecoveryTyped DEF MarkRunningJobsInterrupted, TypeOK
<1>7. CASE ClearCompleted
  <2>1. hidden' \in [Job -> BOOLEAN]
    BY <1>7 DEF ClearCompleted, TypeOK
  <2> QED
    BY <1>7, <2>1, TypeDeleteJobs DEF ClearCompleted, TypeOK
<1>8. CASE Tick \/ ClockStepsBack
  BY <1>8, ClockAgesLease DEF Tick, ClockStepsBack, TypeOK
<1>9. CASE UNCHANGED vars
  BY <1>9 DEF vars, TypeOK
<1> QED
  BY <1>2, <1>3, <1>4, <1>5, <1>6, <1>7, <1>8, <1>9 DEF Next

\* Every reachable state of the database is well typed.
THEOREM TypeCorrect == Spec => []TypeOK
  BY TypeInit, TypeNext, PTL DEF Spec

-----------------------------------------------------------------------------
(* Exclusive execution.  The invariant is inductive with TypeOK: a claim   *)
(* needs that no other job runs once the job of the expired lease is       *)
(* stopped, and a step under the lease that its job is the running one.    *)

\* The lease row, job by job.
Leased(j) == lease # NoLease /\ lease.job = j

\* ExecutionIsLeased says of every job whether it runs.
LEMMA LeasedJobByJob ==
    ASSUME TypeOK
    PROVE  ExecutionIsLeased <=> \A j \in Job : IsRunning(state[j]) <=> Leased(j)
  BY DEF ExecutionIsLeased, Running, Leased, TypeOK, Lease

\* The same of the next state.
LEMMA LeasedJobByJobPrime ==
    ASSUME TypeOK'
    PROVE  ExecutionIsLeased' <=> \A j \in Job : IsRunning(state'[j]) <=> Leased(j)'
  BY DEF ExecutionIsLeased, Running, Leased, TypeOK, Lease

\* A transaction that leaves lease and states alone.
LEMMA LeasedUnchanged ==
    ASSUME ExecutionIsLeased, UNCHANGED <<state, lease>>
    PROVE  ExecutionIsLeased'
  BY DEF ExecutionIsLeased, Running

\* Renewal, the clock: the row may change but not the job it names.
LEMMA LeasedSameJob ==
    ASSUME ExecutionIsLeased, UNCHANGED state, lease # NoLease, lease' # NoLease,
           lease'.job = lease.job
    PROVE  ExecutionIsLeased'
  BY DEF ExecutionIsLeased, Running

\* An executor's write keeps the job running or releases its lease with it.
LEMMA LeasedExecute ==
    ASSUME TypeOK, TypeOK', ExecutionIsLeased, NEW j \in Job, NEW o \in Owner, Execute(j, o)
    PROVE  ExecutionIsLeased'
<1> USE LeasedJobByJob, LeasedJobByJobPrime
<1>1. CASE RenewLease(j, o)
  <2>1. lease \in Lease /\ lease' = [lease EXCEPT !.ttl = LeaseTTL] /\ lease # NoLease
    BY <1>1 DEF RenewLease, Holds, LiveOn, LeaseLive, TypeOK
  <2>2. lease' \in Lease /\ lease'.job = lease.job
    BY <2>1, BoundAssumption DEF Lease
  <2> QED
    BY <1>1, <2>1, <2>2, LeasedSameJob, NoLeaseAssumption DEF RenewLease
<1>2. ASSUME NEW s \in ExecutingState, AdvanceStage(j, s, o)
      PROVE  ExecutionIsLeased'
  BY <1>2, RunningStates DEF AdvanceStage, Holds, LiveOn, LeaseLive, Leased, TypeOK
<1>3. ASSUME NEW s \in {"Cancelled", "Failed", "Interrupted"}, StopExecution(j, s, o)
      PROVE  ExecutionIsLeased'
  BY <1>3, RunningStates DEF StopExecution, LeaseWithout, Holds, LiveOn, LeaseLive, Leased, TypeOK
<1>4. CASE CompleteAndActivate(j, o)
  BY <1>4, RunningStates
     DEF CompleteAndActivate, LeaseWithout, Holds, LiveOn, LeaseLive, Leased, TypeOK
<1>5. CASE ReplaceChunks(j, o)
  BY <1>5, LeasedUnchanged DEF ReplaceChunks
<1>6. ASSUME NEW c \in Ordinal, NEW s \in ChunkState, UpdateChunk(j, c, s, o)
      PROVE  ExecutionIsLeased'
  BY <1>6, LeasedUnchanged DEF UpdateChunk
<1>7. CASE ReplaceChunk(j, o)
  BY <1>7, LeasedUnchanged DEF ReplaceChunk
<1> QED
  BY <1>1, <1>2, <1>3, <1>4, <1>5, <1>6, <1>7 DEF Execute

\* A deletion takes the lease with the job that holds it.
LEMMA LeasedDeleteJobs ==
    ASSUME TypeOK, TypeOK', ExecutionIsLeased, NEW S, DeleteJobs(S)
    PROVE  ExecutionIsLeased'
  BY LeasedJobByJob, LeasedJobByJobPrime, RunningStates DEF DeleteJobs, Leased, TypeOK

\* No request starts a job, and none but a cancellation stops one.
LEMMA LeasedRequest ==
    ASSUME TypeOK, TypeOK', ExecutionIsLeased, NEW j \in Job, Request(j)
    PROVE  ExecutionIsLeased'
<1> USE LeasedJobByJob, LeasedJobByJobPrime
<1>1. ASSUME NEW hide \in BOOLEAN, CreateQueued(j, hide)
      PROVE  ExecutionIsLeased'
  BY <1>1, RunningStates DEF CreateQueued, Leased, TypeOK
<1>2. CASE ReplaceChunksWhileQueued(j)
  BY <1>2, LeasedUnchanged DEF ReplaceChunksWhileQueued
<1>3. CASE RequestCancellation(j)
  BY <1>3, RunningStates DEF RequestCancellation, Leased, TypeOK
<1>4. CASE CancelWithoutExecutor(j)
  BY <1>4, RunningStates DEF CancelWithoutExecutor, LeaseWithout, Leased, TypeOK
<1>5. CASE Requeue(j)
  BY <1>5, RunningStates DEF Requeue, Leased, TypeOK
<1>6. ASSUME NEW t \in Text, SaveEditedTranscript(j, t)
      PROVE  ExecutionIsLeased'
  BY <1>6, LeasedUnchanged DEF SaveEditedTranscript
<1>7. CASE DeleteTerminalJob(j)
  <2>1. CASE active[RecordingOf[j]] = j
    BY <1>7, <2>1, LeasedUnchanged DEF DeleteTerminalJob
  <2>2. CASE active[RecordingOf[j]] # j
    BY <1>7, <2>2, LeasedDeleteJobs DEF DeleteTerminalJob
  <2> QED
    BY <2>1, <2>2
<1> QED
  BY <1>1, <1>2, <1>3, <1>4, <1>5, <1>6, <1>7 DEF Request

\* Every transaction keeps the lease row and the running job together.
LEMMA LeasedNext ==
    TypeOK /\ TypeOK' /\ ExecutionIsLeased /\ [Next]_vars => ExecutionIsLeased'
<1> SUFFICES ASSUME TypeOK, TypeOK', ExecutionIsLeased, [Next]_vars
             PROVE  ExecutionIsLeased'
  OBVIOUS
<1> USE LeasedJobByJob, LeasedJobByJobPrime
<1>1. ASSUME NEW j \in Job, NEW o \in Owner, Claim(j, o)
      PROVE  ExecutionIsLeased'
  <2>1. lease' # NoLease /\ lease'.job = j
    BY <1>1, LeaseTyped, NoLeaseAssumption DEF Claim
  <2>2. j \notin Expired
    BY <1>1, RunningStates DEF Claim, Expired, Running
  <2>3. IsRunning(state'[j])
    BY <1>1, RunningStates, RecoveryTyped DEF Claim, ExecutingState
  <2>4. \A k \in Job : k # j => ~IsRunning(state'[k])
    <3> SUFFICES ASSUME NEW k \in Job, k # j
                 PROVE  ~IsRunning(state'[k])
      OBVIOUS
    <3>1. state'[k] = RecoveredState(Expired)[k]
      BY <1>1, RecoveryTyped DEF Claim
    <3>2. k \notin Expired => ~IsRunning(state[k])
      BY <1>1 DEF Claim, Running
    <3> QED
      BY <3>1, <3>2, RecoveryStops
  <2> QED
    BY <2>1, <2>3, <2>4 DEF Leased
<1>2. ASSUME NEW j \in Job, NEW o \in Owner,
             ClaimNextQueued(j, o) \/ ClaimQueued(j, o) \/ Execute(j, o)
      PROVE  ExecutionIsLeased'
  BY <1>1, <1>2, LeasedExecute DEF ClaimNextQueued, ClaimQueued
<1>3. CASE \E j \in Job : Request(j)
  BY <1>3, LeasedRequest
<1>4. ASSUME NEW r \in Recording, Library(r)
      PROVE  ExecutionIsLeased'
  BY <1>4, LeasedUnchanged, LeasedDeleteJobs DEF Library, MoveToTrash, Restore, PermanentlyDelete
<1>5. CASE ClaimFindsNothing
  <2>1. \A j \in Job : j \in Expired <=> IsRunning(state[j])
    BY <1>5 DEF ClaimFindsNothing, Expired, Running, Leased
  <2>2. \A j \in Job : ~IsRunning(state'[j])
    BY <1>5, <2>1, RecoveryStops DEF ClaimFindsNothing
  <2> QED
    BY <1>5, <2>2 DEF ClaimFindsNothing, Leased
<1>6. CASE MarkRunningJobsInterrupted
  <2>1. CASE LeaseLive
    <3>1. Abandoned = {}
      BY <2>1 DEF Abandoned, Running, LiveOn, Leased
    <3>2. \A j \in Job : state'[j] = state[j]
      BY <1>6, <3>1, RecoveryStops DEF MarkRunningJobsInterrupted
    <3> QED
      BY <1>6, <2>1, <3>2 DEF MarkRunningJobsInterrupted, Leased
  <2>2. CASE ~LeaseLive
    <3>1. \A j \in Job : j \in Abandoned <=> IsRunning(state[j])
      BY <2>2 DEF Abandoned, Running, LiveOn
    <3>2. \A j \in Job : ~IsRunning(state'[j])
      BY <1>6, <3>1, RecoveryStops DEF MarkRunningJobsInterrupted
    <3> QED
      BY <1>6, <2>2, <3>2 DEF MarkRunningJobsInterrupted, Leased
  <2> QED
    BY <2>1, <2>2
<1>7. CASE ClearCompleted
  BY <1>7, LeasedDeleteJobs DEF ClearCompleted
<1>8. CASE Tick \/ ClockStepsBack
  <2>1. UNCHANGED state
    BY <1>8 DEF Tick, ClockStepsBack
  <2> QED
    BY <1>8, <2>1, ClockAgesLease, LeasedSameJob, NoLeaseAssumption
<1>9. CASE UNCHANGED vars
  BY <1>9, LeasedUnchanged DEF vars
<1> QED
  BY <1>2, <1>3, <1>4, <1>5, <1>6, <1>7, <1>8, <1>9 DEF Next

\* Nothing runs and nothing is leased at first.
LEMMA LeasedInit == Init => ExecutionIsLeased
  BY RunningStates DEF Init, ExecutionIsLeased, Running

\* In every reachable state the lease row names exactly the running job.
THEOREM LeaseMatchesExecution == Spec => []ExecutionIsLeased
<1>1. Init => TypeOK /\ ExecutionIsLeased
  BY TypeInit, LeasedInit
<1>2. TypeOK /\ ExecutionIsLeased /\ [Next]_vars => (TypeOK /\ ExecutionIsLeased)'
  BY TypeNext, LeasedNext
<1> QED
  BY <1>1, <1>2, PTL DEF Spec

\* No two jobs ever execute at once, in however many processes.
THEOREM OneJobExecutes == Spec => []SingleExecution
<1>1. ExecutionIsLeased => SingleExecution
  BY DEF ExecutionIsLeased, SingleExecution, Running
<1> QED
  BY <1>1, LeaseMatchesExecution, PTL

-----------------------------------------------------------------------------
(* Publication.  A completed job is left alone by claims and recoveries,   *)
(* which act on queued and running jobs, and by every executor, whose job  *)
(* is the running one; deletion spares it while it is published.           *)

\* A transaction that deletes and publishes nothing, and moves no completed job.
LEMMA PublishedUndisturbed ==
    ASSUME TypeOK, PublishedIsComplete, UNCHANGED <<rec, active>>,
           \A j \in Job : state[j] = "Completed" => state'[j] = "Completed"
    PROVE  PublishedIsComplete'
  BY DEF PublishedIsComplete, JobsOf, TypeOK

\* Recovering running jobs moves no completed one.
LEMMA RecoverySparesCompleted ==
    ASSUME TypeOK, NEW S, S \subseteq Running, NEW j \in Job, state[j] = "Completed"
    PROVE  RecoveredState(S)[j] = "Completed"
  BY RunningStates, RecoveryStops DEF Running

\* Among the writes of an executor only its completion changes what is published.
LEMMA PublishedExecute ==
    ASSUME TypeOK, ExecutionIsLeased, PublishedIsComplete,
           NEW j \in Job, NEW o \in Owner, Execute(j, o)
    PROVE  PublishedIsComplete'
<1>1. Holds(j, o)
  BY DEF Execute, RenewLease, AdvanceStage, StopExecution, CompleteAndActivate, ReplaceChunks,
         UpdateChunk, ReplaceChunk
<1>2. state[j] # "Completed"
  BY <1>1, RunningStates, LeasedJobByJob DEF Holds, LiveOn, LeaseLive, Leased
<1>3. CASE RenewLease(j, o)
  BY <1>3, PublishedUndisturbed DEF RenewLease
<1>4. ASSUME NEW s, AdvanceStage(j, s, o) \/ StopExecution(j, s, o)
      PROVE  PublishedIsComplete'
  BY <1>2, <1>4, PublishedUndisturbed DEF AdvanceStage, StopExecution, TypeOK
<1>5. CASE CompleteAndActivate(j, o)
  <2>1. \A k \in Job : state[k] = "Completed" => state'[k] = "Completed"
    BY <1>5 DEF CompleteAndActivate, TypeOK
  <2>2. state'[j] = "Completed"
    BY <1>5 DEF CompleteAndActivate, TypeOK
  <2> QED
    BY <1>5, <2>1, <2>2, JobAssumption DEF CompleteAndActivate, PublishedIsComplete, JobsOf, TypeOK
<1>6. CASE ReplaceChunks(j, o)
  BY <1>6, PublishedUndisturbed DEF ReplaceChunks
<1>7. ASSUME NEW c \in Ordinal, NEW s \in ChunkState, UpdateChunk(j, c, s, o)
      PROVE  PublishedIsComplete'
  BY <1>7, PublishedUndisturbed DEF UpdateChunk
<1>8. CASE ReplaceChunk(j, o)
  BY <1>8, PublishedUndisturbed DEF ReplaceChunk
<1> QED
  BY <1>3, <1>4, <1>5, <1>6, <1>7, <1>8 DEF Execute

\* No request takes the job a recording publishes.
LEMMA PublishedRequest ==
    ASSUME TypeOK, PublishedIsComplete, NEW j \in Job, Request(j)
    PROVE  PublishedIsComplete'
<1>1. ASSUME NEW hide \in BOOLEAN, CreateQueued(j, hide)
      PROVE  PublishedIsComplete'
  BY <1>1, PublishedUndisturbed DEF CreateQueued, TypeOK
<1>2. CASE ReplaceChunksWhileQueued(j)
  BY <1>2, PublishedUndisturbed DEF ReplaceChunksWhileQueued
<1>3. CASE RequestCancellation(j)
  BY <1>3, RunningStates, PublishedUndisturbed DEF RequestCancellation, TypeOK
<1>4. CASE CancelWithoutExecutor(j)
  BY <1>4, PublishedUndisturbed DEF CancelWithoutExecutor, TypeOK
<1>5. CASE Requeue(j)
  BY <1>5, PublishedUndisturbed DEF Requeue, TypeOK
<1>6. ASSUME NEW t \in Text, SaveEditedTranscript(j, t)
      PROVE  PublishedIsComplete'
  BY <1>6, PublishedUndisturbed DEF SaveEditedTranscript
<1>7. CASE DeleteTerminalJob(j)
  <2>1. CASE active[RecordingOf[j]] = j
    BY <1>7, <2>1, PublishedUndisturbed DEF DeleteTerminalJob
  <2>2. CASE active[RecordingOf[j]] # j
    BY <1>7, <2>2 DEF DeleteTerminalJob, DeleteJobs, PublishedIsComplete, JobsOf, TypeOK
  <2> QED
    BY <2>1, <2>2
<1> QED
  BY <1>1, <1>2, <1>3, <1>4, <1>5, <1>6, <1>7 DEF Request

\* Every transaction leaves a recording with a completed transcript or none.
LEMMA PublishedNext ==
    TypeOK /\ ExecutionIsLeased /\ PublishedIsComplete /\ [Next]_vars => PublishedIsComplete'
<1> SUFFICES ASSUME TypeOK, ExecutionIsLeased, PublishedIsComplete, [Next]_vars
             PROVE  PublishedIsComplete'
  OBVIOUS
<1>1. ASSUME NEW j \in Job, NEW o \in Owner, Claim(j, o)
      PROVE  PublishedIsComplete'
  <2>1. \A k \in Job : state[k] = "Completed" => state'[k] = "Completed"
    BY <1>1, RecoveryTyped, RecoverySparesCompleted DEF Claim, Expired
  <2> QED
    BY <1>1, <2>1, PublishedUndisturbed DEF Claim
<1>2. ASSUME NEW j \in Job, NEW o \in Owner,
             ClaimNextQueued(j, o) \/ ClaimQueued(j, o) \/ Execute(j, o)
      PROVE  PublishedIsComplete'
  BY <1>1, <1>2, PublishedExecute DEF ClaimNextQueued, ClaimQueued
<1>3. CASE \E j \in Job : Request(j)
  BY <1>3, PublishedRequest
<1>4. ASSUME NEW r \in Recording, MoveToTrash(r) \/ Restore(r)
      PROVE  PublishedIsComplete'
  BY <1>4 DEF MoveToTrash, Restore, PublishedIsComplete, JobsOf, TypeOK
<1>5. ASSUME NEW r \in Recording, PermanentlyDelete(r)
      PROVE  PublishedIsComplete'
  BY <1>5 DEF PermanentlyDelete, DeleteJobs, PublishedIsComplete, JobsOf, TypeOK
<1>6. CASE ClaimFindsNothing \/ MarkRunningJobsInterrupted
  <2>1. Expired \subseteq Running /\ Abandoned \subseteq Running
    BY DEF Expired, Abandoned
  <2>2. \A k \in Job : state[k] = "Completed" => state'[k] = "Completed"
    BY <1>6, <2>1, RecoverySparesCompleted DEF ClaimFindsNothing, MarkRunningJobsInterrupted
  <2> QED
    BY <1>6, <2>2, PublishedUndisturbed DEF ClaimFindsNothing, MarkRunningJobsInterrupted
<1>7. CASE ClearCompleted
  BY <1>7 DEF ClearCompleted, DeleteJobs, Published, PublishedIsComplete, JobsOf, TypeOK
<1>8. CASE Tick \/ ClockStepsBack \/ UNCHANGED vars
  BY <1>8, PublishedUndisturbed DEF Tick, ClockStepsBack, vars
<1> QED
  BY <1>2, <1>3, <1>4, <1>5, <1>6, <1>7, <1>8 DEF Next, Library

\* The three invariants of the job store hold together: which job is published
\* depends on which one runs, and that on the lease row.
THEOREM StoreInvariant == Spec => []StoreInv
<1>1. Init => StoreInv
  BY TypeInit, LeasedInit DEF Init, StoreInv, PublishedIsComplete
<1>2. StoreInv /\ [Next]_vars => StoreInv'
  BY TypeNext, LeasedNext, PublishedNext DEF StoreInv
<1> QED
  BY <1>1, <1>2, PTL DEF Spec

\* What a recording publishes is a completed transcript of its own, whatever
\* is claimed, recovered, cleared or deleted.
THEOREM PublishedStaysComplete == Spec => []PublishedIsComplete
<1>1. StoreInv => PublishedIsComplete
  BY DEF StoreInv
<1> QED
  BY <1>1, StoreInvariant, PTL

-----------------------------------------------------------------------------
(* The job state machine and the writes under a lease. *)

\* The only way on from a requested cancellation is to carry it out.
LEMMA CancellingEnds == \A s : CanTransition("Cancelling", s) => s \in {"Cancelling", "Cancelled"}
  BY DEF CanTransition, Transitions, LeaveTo

\* Only a stage of the pipeline can be asked to stop.
LEMMA CancellingBegins ==
    \A s : CanTransition(s, "Cancelling") /\ s # "Cancelling" => s \in ExecutingState
  BY DEF CanTransition, Transitions, LeaveTo, ExecutingState

\* Who writes as an executor holds the job, and the job is running.
LEMMA ExecutorRuns ==
    ASSUME StoreInv, NEW j \in Job, NEW o \in Owner, Execute(j, o)
    PROVE  Holds(j, o) /\ IsRunning(state[j])
<1>1. Holds(j, o)
  BY DEF Execute, RenewLease, AdvanceStage, StopExecution, CompleteAndActivate, ReplaceChunks,
         UpdateChunk, ReplaceChunk
<1> QED
  BY <1>1, LeasedJobByJob DEF StoreInv, Holds, LiveOn, LeaseLive, Leased

\* A published job does not run, and its recording is the one that publishes it.
LEMMA PublishedRests ==
    ASSUME StoreInv, NEW r \in Recording, active[r] # NoJob
    PROVE  /\ active[r] \in Job /\ RecordingOf[active[r]] = r
           /\ state[active[r]] = "Completed" /\ ~IsRunning(state[active[r]])
  BY RunningStates DEF StoreInv, PublishedIsComplete, JobsOf

-----------------------------------------------------------------------------
(* A cancellation that was accepted. *)

\* The executor of a job that is being cancelled can only stop it.
LEMMA SticksExecute ==
    ASSUME StoreInv, NEW j \in Job, state[j] = "Cancelling",
           NEW k \in Job, NEW o \in Owner, Execute(k, o)
    PROVE  state'[j] \in {"Cancelling", "Cancelled", "deleted"}
<1> USE CancellingEnds
<1>1. CASE RenewLease(k, o)
  BY <1>1 DEF RenewLease
<1>2. ASSUME NEW s, AdvanceStage(k, s, o)
      PROVE  state'[j] \in {"Cancelling", "Cancelled", "deleted"}
  BY <1>2 DEF AdvanceStage, StoreInv, TypeOK
<1>3. ASSUME NEW s, StopExecution(k, s, o)
      PROVE  state'[j] \in {"Cancelling", "Cancelled", "deleted"}
  BY <1>3 DEF StopExecution, StoreInv, TypeOK
<1>4. CASE CompleteAndActivate(k, o)
  BY <1>4 DEF CompleteAndActivate, StoreInv, TypeOK
<1>5. CASE ReplaceChunks(k, o) \/ ReplaceChunk(k, o)
  BY <1>5 DEF ReplaceChunks, ReplaceChunk
<1>6. ASSUME NEW c, NEW s, UpdateChunk(k, c, s, o)
      PROVE  state'[j] \in {"Cancelling", "Cancelled", "deleted"}
  BY <1>6 DEF UpdateChunk
<1> QED
  BY <1>1, <1>2, <1>3, <1>4, <1>5, <1>6 DEF Execute

\* No request moves it at all.
LEMMA SticksRequest ==
    ASSUME StoreInv, NEW j \in Job, state[j] = "Cancelling", NEW k \in Job, Request(k)
    PROVE  state'[j] \in {"Cancelling", "Cancelled", "deleted"}
<1>1. ASSUME NEW hide, CreateQueued(k, hide)
      PROVE  state'[j] \in {"Cancelling", "Cancelled", "deleted"}
  BY <1>1 DEF CreateQueued, StoreInv, TypeOK
<1>2. CASE ReplaceChunksWhileQueued(k)
  BY <1>2 DEF ReplaceChunksWhileQueued
<1>3. CASE RequestCancellation(k)
  BY <1>3 DEF RequestCancellation, StoreInv, TypeOK
<1>4. CASE CancelWithoutExecutor(k)
  BY <1>4 DEF CancelWithoutExecutor, StoreInv, TypeOK
<1>5. CASE Requeue(k)
  BY <1>5 DEF Requeue, StoreInv, TypeOK
<1>6. ASSUME NEW t, SaveEditedTranscript(k, t)
      PROVE  state'[j] \in {"Cancelling", "Cancelled", "deleted"}
  BY <1>6 DEF SaveEditedTranscript
<1>7. CASE DeleteTerminalJob(k)
  BY <1>7 DEF DeleteTerminalJob, DeleteJobs
<1> QED
  BY <1>1, <1>2, <1>3, <1>4, <1>5, <1>6, <1>7 DEF Request

\* Claims and recoveries carry it out, deletions take the whole job.
LEMMA SticksNext ==
    ASSUME StoreInv, [Next]_vars, NEW j \in Job, state[j] = "Cancelling"
    PROVE  state'[j] \in {"Cancelling", "Cancelled", "deleted"}
<1>0. \A S : RecoveredState(S)[j] \in {"Cancelling", "Cancelled"}
  BY DEF RecoveredState, StateAfterLoss
<1>1. ASSUME NEW k \in Job, NEW o \in Owner, Claim(k, o)
      PROVE  state'[j] \in {"Cancelling", "Cancelled", "deleted"}
  BY <1>0, <1>1, RecoveryTyped DEF Claim, StoreInv
<1>2. ASSUME NEW k \in Job, NEW o \in Owner,
             ClaimNextQueued(k, o) \/ ClaimQueued(k, o) \/ Execute(k, o)
      PROVE  state'[j] \in {"Cancelling", "Cancelled", "deleted"}
  BY <1>1, <1>2, SticksExecute DEF ClaimNextQueued, ClaimQueued
<1>3. CASE \E k \in Job : Request(k)
  BY <1>3, SticksRequest
<1>4. ASSUME NEW r \in Recording, Library(r)
      PROVE  state'[j] \in {"Cancelling", "Cancelled", "deleted"}
  BY <1>4 DEF Library, MoveToTrash, Restore, PermanentlyDelete, DeleteJobs
<1>5. CASE ClaimFindsNothing \/ MarkRunningJobsInterrupted
  BY <1>0, <1>5 DEF ClaimFindsNothing, MarkRunningJobsInterrupted
<1>6. CASE ClearCompleted
  BY <1>6 DEF ClearCompleted, DeleteJobs
<1>7. CASE Tick \/ ClockStepsBack \/ UNCHANGED vars
  BY <1>7 DEF Tick, ClockStepsBack, vars
<1> QED
  BY <1>2, <1>3, <1>4, <1>5, <1>6, <1>7 DEF Next

\* An accepted cancellation wins against every completion, failure, recovery
\* and claim that races with it (requestCancellation, completeAndActivate,
\* markRunningJobsInterrupted).
THEOREM AcceptedCancellationSticks == Spec => CancellationSticks
<1>1. StoreInv /\ [Next]_vars =>
          [\A j \in Job : state[j] = "Cancelling" =>
               state'[j] \in {"Cancelling", "Cancelled", "deleted"}]_vars
  BY SticksNext
<1> QED
  BY <1>1, StoreInvariant, PTL DEF Spec, CancellationSticks

-----------------------------------------------------------------------------
(* The executor whose lease is unexpired. *)

\* What one step may do to the job and the lease of such an executor.
Respected ==
    /\ CanTransition(state[lease.job], state'[lease.job])
    /\ IF lease' = NoLease
       THEN ~IsRunning(state'[lease.job])
       ELSE lease'.job = lease.job /\ lease'.owner = lease.owner

\* The job an unexpired lease names exists and runs.
LEMMA LiveLeaseRuns ==
    ASSUME StoreInv, LeaseLive
    PROVE  /\ lease \in Lease /\ lease # NoLease /\ lease.job \in Job
           /\ IsRunning(state[lease.job]) /\ lease.job \in Running
  BY LeasedJobByJob DEF StoreInv, LeaseLive, Leased, TypeOK, Lease, Running

\* A step that leaves the job's state, and the names in the lease, alone.
LEMMA RespectedUnchanged ==
    ASSUME StoreInv, LeaseLive, state'[lease.job] = state[lease.job], lease' # NoLease,
           lease'.job = lease.job, lease'.owner = lease.owner
    PROVE  Respected
  BY DEF Respected, CanTransition

\* The executor itself follows the state machine, and gives up the lease only
\* when the job stops running.
LEMMA RespectedExecute ==
    ASSUME StoreInv, LeaseLive, NEW j \in Job, NEW o \in Owner, Execute(j, o)
    PROVE  Respected
<1> USE LiveLeaseRuns
<1>1. lease.job = j /\ state \in [Job -> JobState \cup {"unborn", "deleted"}]
  BY ExecutorRuns DEF Holds, LiveOn, StoreInv, TypeOK
<1>2. CASE RenewLease(j, o)
  <2>1. lease' \in Lease /\ lease'.job = lease.job /\ lease'.owner = lease.owner
    BY <1>2, BoundAssumption DEF RenewLease, Lease
  <2> QED
    BY <1>2, <2>1, NoLeaseAssumption, RespectedUnchanged DEF RenewLease
<1>3. ASSUME NEW s, AdvanceStage(j, s, o)
      PROVE  Respected
  BY <1>1, <1>3 DEF AdvanceStage, Respected
<1>4. ASSUME NEW s \in {"Cancelled", "Failed", "Interrupted"}, StopExecution(j, s, o)
      PROVE  Respected
  BY <1>1, <1>4, RunningStates DEF StopExecution, LeaseWithout, Respected
<1>5. CASE CompleteAndActivate(j, o)
  <2>1. CanTransition("Finalizing", "Completed")
    BY DEF CanTransition, Transitions
  <2> QED
    BY <1>1, <1>5, <2>1, RunningStates DEF CompleteAndActivate, LeaseWithout, Respected
<1>6. CASE ReplaceChunks(j, o) \/ ReplaceChunk(j, o)
  BY <1>6, RespectedUnchanged DEF ReplaceChunks, ReplaceChunk
<1>7. ASSUME NEW c, NEW s, UpdateChunk(j, c, s, o)
      PROVE  Respected
  BY <1>7, RespectedUnchanged DEF UpdateChunk
<1> QED
  BY <1>2, <1>3, <1>4, <1>5, <1>6, <1>7 DEF Execute

\* A request can only ask the job to stop: all others need a job that rests.
LEMMA RespectedRequest ==
    ASSUME StoreInv, LeaseLive, NEW j \in Job, Request(j)
    PROVE  Respected
<1> USE LiveLeaseRuns, RunningStates
<1>1. state \in [Job -> JobState \cup {"unborn", "deleted"}]
  BY DEF StoreInv, TypeOK
<1>2. ASSUME NEW hide, CreateQueued(j, hide)
      PROVE  Respected
  BY <1>1, <1>2, RespectedUnchanged DEF CreateQueued
<1>3. CASE ReplaceChunksWhileQueued(j)
  BY <1>3, RespectedUnchanged DEF ReplaceChunksWhileQueued
<1>4. CASE RequestCancellation(j)
  BY <1>1, <1>4, RespectedUnchanged DEF RequestCancellation, Respected
<1>5. CASE CancelWithoutExecutor(j)
  BY <1>1, <1>5, RespectedUnchanged DEF CancelWithoutExecutor, LeaseWithout
<1>6. CASE Requeue(j)
  BY <1>1, <1>6, RespectedUnchanged DEF Requeue
<1>7. ASSUME NEW t, SaveEditedTranscript(j, t)
      PROVE  Respected
  BY <1>7, RespectedUnchanged DEF SaveEditedTranscript
<1>8. CASE DeleteTerminalJob(j)
  <2>1. lease.job # j
    BY <1>8 DEF DeleteTerminalJob, Removable, IsTerminal, TerminalState
  <2> QED
    BY <1>8, <2>1, RespectedUnchanged DEF DeleteTerminalJob, DeleteJobs
<1> QED
  BY <1>2, <1>3, <1>4, <1>5, <1>6, <1>7, <1>8 DEF Request

\* Claims wait for the lease to run out, recoveries pass its job over, and no
\* deletion reaches a running job under an unexpired lease.
LEMMA RespectedNext ==
    ASSUME StoreInv, [Next]_vars, LeaseLive
    PROVE  Respected
<1> USE LiveLeaseRuns
<1>1. ASSUME NEW j \in Job, NEW o \in Owner,
             ClaimNextQueued(j, o) \/ ClaimQueued(j, o) \/ Execute(j, o)
      PROVE  Respected
  BY <1>1, RespectedExecute DEF ClaimNextQueued, ClaimQueued, Claim
<1>2. CASE \E j \in Job : Request(j)
  BY <1>2, RespectedRequest
<1>3. ASSUME NEW r \in Recording, Library(r)
      PROVE  Respected
  <2>1. CASE MoveToTrash(r) \/ Restore(r)
    BY <2>1, RespectedUnchanged DEF MoveToTrash, Restore
  <2>2. CASE PermanentlyDelete(r)
    <3>1. lease.job \notin JobsOf(r)
      BY <2>2 DEF PermanentlyDelete, LiveOn
    <3> QED
      BY <2>2, <3>1, RespectedUnchanged DEF PermanentlyDelete, DeleteJobs
  <2> QED
    BY <1>3, <2>1, <2>2 DEF Library
<1>4. CASE ClaimFindsNothing
  BY <1>4 DEF ClaimFindsNothing
<1>5. CASE MarkRunningJobsInterrupted
  <2>1. lease.job \notin Abandoned
    BY DEF Abandoned, LiveOn
  <2> QED
    BY <1>5, <2>1, RecoveryStops, RespectedUnchanged DEF MarkRunningJobsInterrupted, StoreInv
<1>6. CASE ClearCompleted
  <2>1. lease.job \notin Cleared
    BY RunningStates DEF Cleared
  <2> QED
    BY <1>6, <2>1, RespectedUnchanged DEF ClearCompleted, DeleteJobs
<1>7. CASE Tick \/ ClockStepsBack
  <2>1. UNCHANGED state
    BY <1>7 DEF Tick, ClockStepsBack
  <2> QED
    BY <1>7, <2>1, ClockAgesLease, NoLeaseAssumption, RespectedUnchanged DEF StoreInv
<1>8. CASE UNCHANGED vars
  BY <1>8, RespectedUnchanged DEF vars
<1> QED
  BY <1>1, <1>2, <1>3, <1>4, <1>5, <1>6, <1>7, <1>8 DEF Next

\* As long as its lease is unexpired nobody but the executor itself moves the
\* job (a user may ask it to stop), takes the lease or deletes the job
\* (claimNextQueued, markRunningJobsInterrupted, permanentlyDelete).
THEOREM LiveExecutorKeepsJob == Spec => LiveLeaseRespected
<1>1. StoreInv /\ [Next]_vars => [LeaseLive => Respected]_vars
  BY RespectedNext
<1> QED
  BY <1>1, StoreInvariant, PTL DEF Spec, LiveLeaseRespected, Respected

-----------------------------------------------------------------------------
(* Chunks nobody holds. *)

\* A completed chunk stays one unless the step deletes the job.
Retained(j, c) == chunks'[j][c] = "Completed" \/ state'[j] = "deleted"

\* Recovery gives up no completed chunk, whatever state its job was in.
LEMMA RecoveryKeepsChunks ==
    ASSUME NEW S, NEW j \in Job, NEW c \in Ordinal, chunks[j][c] = "Completed"
    PROVE  RecoveredChunks(S)[j][c] = "Completed"
  BY DEF RecoveredChunks, ChunkAfterLoss

\* Executors write to the chunks of the job they hold.
LEMMA RetainedExecute ==
    ASSUME StoreInv, NEW j \in Job, NEW c \in Ordinal, chunks[j][c] = "Completed", ~LiveOn(j),
           NEW k \in Job, NEW o \in Owner, Execute(k, o)
    PROVE  Retained(j, c)
<1>1. k # j
  BY ExecutorRuns DEF Holds
<1>2. CASE RenewLease(k, o) \/ CompleteAndActivate(k, o) \/ ReplaceChunk(k, o)
  BY <1>2 DEF RenewLease, CompleteAndActivate, ReplaceChunk, Retained
<1>3. ASSUME NEW s, AdvanceStage(k, s, o) \/ StopExecution(k, s, o)
      PROVE  Retained(j, c)
  BY <1>3 DEF AdvanceStage, StopExecution, Retained
<1>4. CASE ReplaceChunks(k, o)
  BY <1>1, <1>4 DEF ReplaceChunks, Retained, StoreInv, TypeOK
<1>5. ASSUME NEW d \in Ordinal, NEW s, UpdateChunk(k, d, s, o)
      PROVE  Retained(j, c)
  BY <1>1, <1>5 DEF UpdateChunk, Retained, StoreInv, TypeOK
<1> QED
  BY <1>2, <1>3, <1>4, <1>5 DEF Execute

\* A request replaces the chunks of no job that has any.
LEMMA RetainedRequest ==
    ASSUME StoreInv, NEW j \in Job, NEW c \in Ordinal, chunks[j][c] = "Completed",
           NEW k \in Job, Request(k)
    PROVE  Retained(j, c)
<1>1. ASSUME NEW hide, CreateQueued(k, hide)
      PROVE  Retained(j, c)
  BY <1>1 DEF CreateQueued, Retained
<1>2. CASE ReplaceChunksWhileQueued(k)
  <2>1. k # j
    BY <1>2 DEF ReplaceChunksWhileQueued, NoPlan
  <2> QED
    BY <1>2, <2>1 DEF ReplaceChunksWhileQueued, Retained, StoreInv, TypeOK
<1>3. CASE RequestCancellation(k) \/ CancelWithoutExecutor(k) \/ Requeue(k)
  BY <1>3 DEF RequestCancellation, CancelWithoutExecutor, Requeue, Retained
<1>4. ASSUME NEW t, SaveEditedTranscript(k, t)
      PROVE  Retained(j, c)
  BY <1>4 DEF SaveEditedTranscript, Retained
<1>5. CASE DeleteTerminalJob(k)
  BY <1>5 DEF DeleteTerminalJob, DeleteJobs, Retained
<1> QED
  BY <1>1, <1>2, <1>3, <1>4, <1>5 DEF Request

\* Claims, recoveries and deletions keep it or delete the job with it.
LEMMA RetainedNext ==
    ASSUME StoreInv, [Next]_vars, NEW j \in Job, NEW c \in Ordinal,
           chunks[j][c] = "Completed", ~LiveOn(j)
    PROVE  Retained(j, c)
<1>1. ASSUME NEW k \in Job, NEW o \in Owner,
             ClaimNextQueued(k, o) \/ ClaimQueued(k, o) \/ Execute(k, o)
      PROVE  Retained(j, c)
  BY <1>1, RetainedExecute, RecoveryKeepsChunks DEF ClaimNextQueued, ClaimQueued, Claim, Retained
<1>2. CASE \E k \in Job : Request(k)
  BY <1>2, RetainedRequest
<1>3. ASSUME NEW r \in Recording, Library(r)
      PROVE  Retained(j, c)
  BY <1>3 DEF Library, MoveToTrash, Restore, PermanentlyDelete, DeleteJobs, Retained
<1>4. CASE ClaimFindsNothing \/ MarkRunningJobsInterrupted
  BY <1>4, RecoveryKeepsChunks DEF ClaimFindsNothing, MarkRunningJobsInterrupted, Retained
<1>5. CASE ClearCompleted
  BY <1>5 DEF ClearCompleted, DeleteJobs, Retained
<1>6. CASE Tick \/ ClockStepsBack \/ UNCHANGED vars
  BY <1>6 DEF Tick, ClockStepsBack, vars, Retained
<1> QED
  BY <1>1, <1>2, <1>3, <1>4, <1>5, <1>6 DEF Next

\* What was transcribed outlives its executor: no recovery, cancellation,
\* retry, resume, claim or completion of another job gives up a completed chunk
\* (markRunningJobsInterrupted, requeue, claimQueued).
THEOREM CompletedChunksOutliveExecutor == Spec => UnownedChunksKept
<1>1. StoreInv /\ [Next]_vars =>
          [\A j \in Job, c \in Ordinal :
               chunks[j][c] = "Completed" /\ ~LiveOn(j) => Retained(j, c)]_vars
  BY RetainedNext
<1> QED
  BY <1>1, StoreInvariant, PTL DEF Spec, UnownedChunksKept, Retained

-----------------------------------------------------------------------------
(* The transcript a recording publishes, and the one a user has edited. *)

\* The step leaves a job's transcript as it was.
TextStays(j) == text'[j] = text[j]

\* An executor writes the transcript of a running job, and its completion
\* those of the jobs it replaces.
LEMMA TextExecute ==
    ASSUME StoreInv, NEW j \in Job, NEW k \in Job, NEW o \in Owner, Execute(k, o)
    PROVE  \/ TextStays(j)
           \/ j = k /\ ReplaceChunk(k, o)
           \/ CompleteAndActivate(k, o) /\ j \in Superseded(k)
<1> USE DEF TextStays
<1>1. CASE RenewLease(k, o) \/ ReplaceChunks(k, o)
  BY <1>1 DEF RenewLease, ReplaceChunks
<1>2. ASSUME NEW s, AdvanceStage(k, s, o) \/ StopExecution(k, s, o)
      PROVE  TextStays(j)
  BY <1>2 DEF AdvanceStage, StopExecution
<1>3. CASE CompleteAndActivate(k, o)
  BY <1>3 DEF CompleteAndActivate
<1>4. ASSUME NEW c, NEW s, UpdateChunk(k, c, s, o)
      PROVE  TextStays(j)
  BY <1>4 DEF UpdateChunk
<1>5. CASE ReplaceChunk(k, o)
  BY <1>5 DEF ReplaceChunk, StoreInv, TypeOK
<1> QED
  BY <1>1, <1>2, <1>3, <1>4, <1>5 DEF Execute

\* A request changes a transcript by an edit or by deleting an unpublished job.
LEMMA TextRequest ==
    ASSUME StoreInv, NEW j \in Job, NEW k \in Job, Request(k)
    PROVE  \/ TextStays(j)
           \/ \E t \in Text : k = j /\ SaveEditedTranscript(j, t)
           \/ k = j /\ active[RecordingOf[j]] # j /\ state'[j] = "deleted"
<1> USE DEF TextStays
<1>1. ASSUME NEW hide, CreateQueued(k, hide)
      PROVE  TextStays(j)
  BY <1>1 DEF CreateQueued
<1>2. CASE \/ ReplaceChunksWhileQueued(k) \/ RequestCancellation(k)
           \/ CancelWithoutExecutor(k) \/ Requeue(k)
  BY <1>2 DEF ReplaceChunksWhileQueued, RequestCancellation, CancelWithoutExecutor, Requeue
<1>3. ASSUME NEW t \in Text, SaveEditedTranscript(k, t)
      PROVE  TextStays(j) \/ (k = j /\ SaveEditedTranscript(j, t))
  BY <1>3 DEF SaveEditedTranscript, StoreInv, TypeOK
<1>4. CASE DeleteTerminalJob(k)
  BY <1>4 DEF DeleteTerminalJob, DeleteJobs
<1> QED
  BY <1>1, <1>2, <1>3, <1>4 DEF Request

\* Everything else leaves transcripts alone or deletes their jobs: those of a
\* recording that is deleted, or finished ones no recording publishes.
LEMMA TextNext ==
    ASSUME StoreInv, [Next]_vars, NEW j \in Job
    PROVE  \/ TextStays(j)
           \/ \E t \in Text : SaveEditedTranscript(j, t)
           \/ active[RecordingOf[j]] # j /\ state'[j] = "deleted"
           \/ active'[RecordingOf[j]] = NoJob /\ state'[j] = "deleted"
           \/ \E o \in Owner : Execute(j, o) /\ ReplaceChunk(j, o)
           \/ \E k \in Job, o \in Owner :
                  Execute(k, o) /\ CompleteAndActivate(k, o) /\ j \in Superseded(k)
<1>1. ASSUME NEW k \in Job, NEW o \in Owner, ClaimNextQueued(k, o) \/ ClaimQueued(k, o)
      PROVE  TextStays(j)
  BY <1>1 DEF ClaimNextQueued, ClaimQueued, Claim, TextStays
<1>2. CASE \E k \in Job, o \in Owner : Execute(k, o)
  BY <1>2, TextExecute
<1>3. CASE \E k \in Job : Request(k)
  BY <1>3, TextRequest
<1>4. ASSUME NEW r \in Recording, Library(r)
      PROVE  TextStays(j) \/ (active'[RecordingOf[j]] = NoJob /\ state'[j] = "deleted")
  <2>1. CASE MoveToTrash(r) \/ Restore(r)
    BY <2>1 DEF MoveToTrash, Restore, TextStays
  <2>2. CASE PermanentlyDelete(r)
    BY <2>2 DEF PermanentlyDelete, DeleteJobs, JobsOf, TextStays, StoreInv, TypeOK
  <2> QED
    BY <1>4, <2>1, <2>2 DEF Library
<1>5. CASE ClaimFindsNothing \/ MarkRunningJobsInterrupted
  BY <1>5 DEF ClaimFindsNothing, MarkRunningJobsInterrupted, TextStays
<1>6. CASE ClearCompleted
  BY <1>6, JobAssumption DEF ClearCompleted, DeleteJobs, Published, TextStays
<1>7. CASE Tick \/ ClockStepsBack \/ UNCHANGED vars
  BY <1>7 DEF Tick, ClockStepsBack, vars, TextStays
<1> QED
  BY <1>1, <1>2, <1>3, <1>4, <1>5, <1>6, <1>7 DEF Next

\* The published transcript changes by an edit of the user's or with the
\* completion that replaces it; an executor that is late writes to another job
\* (replaceChunk, completeAndActivate, deleteTerminalJob, clearCompleted).
THEOREM PublishedTranscriptIsTheUsers == Spec => PublishedTranscriptKept
<1>1. ASSUME StoreInv, [Next]_vars, NEW r \in Recording,
             active[r] # NoJob, active'[r] = active[r], text'[active[r]] # text[active[r]]
      PROVE  \E t \in Text : SaveEditedTranscript(active[r], t)
  <2> DEFINE j == active[r]
  <2>1. j \in Job /\ RecordingOf[j] = r /\ state[j] = "Completed" /\ ~IsRunning(state[j])
    BY <1>1, PublishedRests
  <2>2. \A o \in Owner : ~Execute(j, o)
    BY <1>1, <2>1, ExecutorRuns
  <2>3. \A k \in Job, o \in Owner : ~(CompleteAndActivate(k, o) /\ j \in Superseded(k))
    BY <1>1, <2>1, JobAssumption DEF CompleteAndActivate, Superseded, JobsOf, StoreInv, TypeOK
  <2> QED
    BY <1>1, <2>1, <2>2, <2>3, TextNext DEF TextStays
<1>2. StoreInv /\ [Next]_vars =>
          [\A r \in Recording : active[r] # NoJob /\ active'[r] = active[r] =>
               (text'[active[r]] # text[active[r]] =>
                    \E t \in Text : SaveEditedTranscript(active[r], t))]_vars
  BY <1>1
<1> QED
  BY <1>2, StoreInvariant, PTL DEF Spec, PublishedTranscriptKept

\* Recognizer output replaces no manual edit of the job it belongs to
\* (replaceChunk refuses to, and no other executor writes to the job).
THEOREM EditsSurviveRecognition == Spec => ManualEditsKept
<1>1. ASSUME StoreInv, [Next]_vars, NEW j \in Job, IsRunning(state[j]), text[j] = "edited"
      PROVE  text'[j] = "edited" \/ state'[j] = "deleted"
  <2>1. \A t \in Text : ~SaveEditedTranscript(j, t)
    BY <1>1, RunningStates DEF SaveEditedTranscript, ValidateOwnerlessEdit
  <2>2. \A o \in Owner : ReplaceChunk(j, o) => text'[j] = "edited"
    BY <1>1 DEF ReplaceChunk, StoreInv, TypeOK
  <2>3. \A k \in Job : j \notin Superseded(k)
    BY <1>1, RunningStates DEF Superseded
  <2> QED
    BY <1>1, <2>1, <2>2, <2>3, TextNext DEF TextStays
<1>2. StoreInv /\ [Next]_vars =>
          [\A j \in Job : IsRunning(state[j]) /\ text[j] = "edited" =>
               (text'[j] = "edited" \/ state'[j] = "deleted")]_vars
  BY <1>1
<1> QED
  BY <1>2, StoreInvariant, PTL DEF Spec, ManualEditsKept

-----------------------------------------------------------------------------
(* The promise of ExclusiveExecution.  A claim starts a job, the loss of an *)
(* executor stops the running one, a deletion discards finished jobs; what  *)
(* leases, chunks and transcripts do beyond that is hidden.                 *)

\* The refinement mapping's image of the jobs.
phases == [j \in Job |-> PhaseOf(state[j])]

\* The step is one of exclusive execution, or none of its business.
Simulated == Promise!Next \/ UNCHANGED <<phases, active>>

\* The phase each state of a row stands for.
LEMMA Phases ==
    /\ \A s \in ExecutingState : PhaseOf(s) = "executing"
    /\ PhaseOf("unborn") = "absent" /\ PhaseOf("Queued") = "waiting"
    /\ PhaseOf("Cancelling") = "stopping" /\ PhaseOf("Completed") = "done"
    /\ PhaseOf("deleted") = "dropped"
    /\ \A s \in {"Cancelled", "Failed", "Interrupted"} : PhaseOf(s) = "stopped"
  BY DEF PhaseOf, ExecutingState

\* Running jobs are the busy ones, rows that never existed the absent ones.
LEMMA BusyPhases ==
    /\ \A s : IsRunning(s) <=> PhaseOf(s) \in {"executing", "stopping"}
    /\ \A s : s = "unborn" <=> PhaseOf(s) = "absent"
  BY DEF PhaseOf, ExecutingState, IsRunning, RunningState

\* A transaction that moves one row moves one phase.
LEMMA OneMoves ==
    ASSUME StoreInv, NEW j \in Job, NEW s, state' = [state EXCEPT ![j] = s]
    PROVE  phases' = [phases EXCEPT ![j] = PhaseOf(s)]
  BY DEF phases, StoreInv, TypeOK

\* One that moves none, or to a state of the same phase, shows nothing.
LEMMA NothingMoves ==
    ASSUME UNCHANGED active, \A j \in Job : PhaseOf(state'[j]) = PhaseOf(state[j])
    PROVE  Simulated
  BY DEF Simulated, phases

\* A transaction on the row of a job is the move of its phase.
LEMMA Moves ==
    ASSUME StoreInv, NEW j \in Job, NEW s, state' = [state EXCEPT ![j] = s],
           UNCHANGED active, NEW from, PhaseOf(state[j]) \in from
    PROVE  Promise!Move(j, from, PhaseOf(s))
  BY OneMoves DEF Promise!Move, phases

\* Recovering running jobs stops the one that runs, or nothing.
LEMMA RecoverySimulated ==
    ASSUME StoreInv, NEW S, S \subseteq Running, state' = RecoveredState(S), UNCHANGED active
    PROVE  Simulated
<1>1. CASE S = {}
  BY <1>1, NothingMoves DEF RecoveredState
<1>2. ASSUME NEW j \in S
      PROVE  Simulated
  <2>1. j \in Job /\ IsRunning(state[j]) /\ PhaseOf(state[j]) \in {"executing", "stopping"}
    BY <1>2, BusyPhases DEF Running
  <2>2. S = {j}
    BY <1>2, LeasedJobByJob DEF StoreInv, Running, Leased
  <2>3. state' = [state EXCEPT ![j] = StateAfterLoss(state[j])]
    BY <2>1, <2>2 DEF RecoveredState, StoreInv, TypeOK
  <2>4. PhaseOf(StateAfterLoss(state[j])) = "stopped"
    BY Phases DEF StateAfterLoss
  <2>5. Promise!Stop(j)
    BY <2>1, <2>3, <2>4, Moves DEF Promise!Stop
  <2> QED
    BY <2>1, <2>5 DEF Simulated, Promise!Next
<1> QED
  BY <1>1, <1>2

\* Deleting finished jobs no recording publishes discards them.
LEMMA DeletionSimulated ==
    ASSUME StoreInv, NEW S, S \subseteq Job, DeleteJobs(S), UNCHANGED active,
           \A j \in S : /\ state[j] \in {"Completed", "Cancelled", "Failed", "Interrupted"}
                        /\ active[RecordingOf[j]] # j
    PROVE  Simulated
<1>1. CASE S = {}
  BY <1>1, NothingMoves DEF DeleteJobs
<1>2. CASE S # {}
  <2>1. \A j \in S : phases[j] \in {"stopped", "done"}
    BY Phases DEF phases
  <2>2. phases' = [j \in Job |-> IF j \in S THEN "dropped" ELSE phases[j]]
    BY Phases DEF phases, DeleteJobs
  <2>3. Promise!Discard(S)
    BY <1>2, <2>1, <2>2 DEF Promise!Discard, phases
  <2> QED
    BY <2>3 DEF Simulated, Promise!Next
<1> QED
  BY <1>1, <1>2

\* A claim starts a job and stops the one whose executor was lost.
LEMMA ClaimSimulated ==
    ASSUME StoreInv, NEW j \in Job, NEW o \in Owner, Claim(j, o)
    PROVE  Simulated
<1>1. Running = Expired
  BY DEF Claim, Expired
<1>2. phases[j] = "waiting" /\ UNCHANGED active
  BY Phases DEF Claim, phases
<1>3. phases' = [k \in Job |-> IF k = j THEN "executing"
                               ELSE IF k \in Promise!Busy THEN "stopped" ELSE phases[k]]
  <2>1. \A k \in Job : k \in Promise!Busy <=> k \in Expired
    BY <1>1, BusyPhases DEF Promise!Busy, Running
  <2>2. \A k \in Job : state'[k] = IF k = j THEN "Preparing"
                                   ELSE IF k \in Expired THEN StateAfterLoss(state[k])
                                   ELSE state[k]
    BY DEF Claim, RecoveredState
  <2>3. PhaseOf("Preparing") = "executing" /\ \A s : PhaseOf(StateAfterLoss(s)) = "stopped"
    BY Phases DEF ExecutingState, StateAfterLoss
  <2> QED
    BY <2>1, <2>2, <2>3 DEF phases
<1>4. Promise!Start(j)
  BY <1>2, <1>3 DEF Promise!Start, phases
<1> QED
  BY <1>4 DEF Simulated, Promise!Next

\* An executor advances its job unseen, stops it or finishes it.
LEMMA ExecuteSimulated ==
    ASSUME StoreInv, NEW j \in Job, NEW o \in Owner, Execute(j, o)
    PROVE  Simulated
<1>0. state \in [Job -> JobState \cup {"unborn", "deleted"}] /\ IsRunning(state[j])
  BY ExecutorRuns DEF StoreInv, TypeOK
<1>1. CASE RenewLease(j, o) \/ ReplaceChunks(j, o) \/ ReplaceChunk(j, o)
  BY <1>1, NothingMoves DEF RenewLease, ReplaceChunks, ReplaceChunk
<1>2. ASSUME NEW s \in ExecutingState, AdvanceStage(j, s, o)
      PROVE  Simulated
  <2>1. state[j] # "Cancelling"
    BY <1>2, CancellingEnds DEF AdvanceStage, ExecutingState
  <2>2. PhaseOf(state[j]) = PhaseOf(s)
    BY <1>0, <2>1, Phases DEF IsRunning, RunningState
  <2> QED
    BY <1>0, <1>2, <2>2, NothingMoves DEF AdvanceStage
<1>3. ASSUME NEW s \in {"Cancelled", "Failed", "Interrupted"}, StopExecution(j, s, o)
      PROVE  Simulated
  <2>1. PhaseOf(s) = "stopped" /\ PhaseOf(state[j]) \in {"executing", "stopping"}
    BY <1>0, Phases, BusyPhases
  <2>2. Promise!Stop(j)
    BY <1>3, <2>1, Moves DEF StopExecution, Promise!Stop
  <2> QED
    BY <2>2 DEF Simulated, Promise!Next
<1>4. CASE CompleteAndActivate(j, o)
  <2>1. phases[j] = "executing"
    BY <1>4, Phases DEF CompleteAndActivate, phases, ExecutingState
  <2>2. phases' = [phases EXCEPT ![j] = "done"]
    <3>1. state' = [state EXCEPT ![j] = "Completed"]
      BY <1>4 DEF CompleteAndActivate
    <3>2. phases' = [phases EXCEPT ![j] = PhaseOf("Completed")]
      BY <3>1, OneMoves
    <3> QED
      BY <3>2, Phases
  <2>3. Promise!Finish(j)
    BY <1>4, <2>1, <2>2 DEF CompleteAndActivate, Promise!Finish, phases
  <2> QED
    BY <2>3 DEF Simulated, Promise!Next
<1>5. ASSUME NEW c, NEW s, UpdateChunk(j, c, s, o)
      PROVE  Simulated
  BY <1>5, NothingMoves DEF UpdateChunk
<1> QED
  BY <1>1, <1>2, <1>3, <1>4, <1>5 DEF Execute

\* A request submits, withdraws, resubmits, asks to stop or discards a job.
LEMMA RequestSimulated ==
    ASSUME StoreInv, NEW j \in Job, Request(j)
    PROVE  Simulated
<1>0. state \in [Job -> JobState \cup {"unborn", "deleted"}]
  BY DEF StoreInv, TypeOK
<1>1. ASSUME NEW hide, CreateQueued(j, hide)
      PROVE  Simulated
  <2>1. Promise!Submit(j)
    BY <1>1, Phases, Moves DEF CreateQueued, Promise!Submit
  <2> QED
    BY <2>1 DEF Simulated, Promise!Next
<1>2. CASE ReplaceChunksWhileQueued(j)
  BY <1>2, NothingMoves DEF ReplaceChunksWhileQueued
<1>3. CASE RequestCancellation(j)
  <2>1. CASE state[j] = "Cancelling"
    BY <1>0, <1>3, <2>1, NothingMoves DEF RequestCancellation
  <2>2. CASE state[j] # "Cancelling"
    <3>1. PhaseOf(state[j]) = "executing"
      BY <1>3, <2>2, CancellingBegins, Phases DEF RequestCancellation
    <3>2. Promise!AskToStop(j)
      BY <1>3, <3>1, Phases, Moves DEF RequestCancellation, Promise!AskToStop
    <3> QED
      BY <3>2 DEF Simulated, Promise!Next
  <2> QED
    BY <2>1, <2>2
<1>4. CASE CancelWithoutExecutor(j)
  <2>1. CASE state[j] = "Queued"
    <3>1. Promise!Withdraw(j)
      BY <1>4, <2>1, Phases, Moves DEF CancelWithoutExecutor, Promise!Withdraw
    <3> QED
      BY <3>1 DEF Simulated, Promise!Next
  <2>2. CASE state[j] = "Interrupted"
    BY <1>0, <1>4, <2>2, Phases, NothingMoves DEF CancelWithoutExecutor
  <2> QED
    BY <1>4, <2>1, <2>2 DEF CancelWithoutExecutor
<1>5. CASE Requeue(j)
  <2>1. Promise!Resubmit(j)
    BY <1>5, Phases, Moves DEF Requeue, Promise!Resubmit
  <2> QED
    BY <2>1 DEF Simulated, Promise!Next
<1>6. ASSUME NEW t, SaveEditedTranscript(j, t)
      PROVE  Simulated
  BY <1>6, NothingMoves DEF SaveEditedTranscript
<1>7. CASE DeleteTerminalJob(j)
  <2>1. CASE active[RecordingOf[j]] = j
    BY <1>7, <2>1, NothingMoves DEF DeleteTerminalJob
  <2>2. CASE active[RecordingOf[j]] # j
    BY <1>7, <2>2, DeletionSimulated
       DEF DeleteTerminalJob, Removable, IsTerminal, TerminalState
  <2> QED
    BY <2>1, <2>2
<1> QED
  BY <1>1, <1>2, <1>3, <1>4, <1>5, <1>6, <1>7 DEF Request

\* Deleting a recording for good drops its jobs and what it published.
LEMMA LibrarySimulated ==
    ASSUME StoreInv, NEW r \in Recording, Library(r)
    PROVE  Simulated
<1>1. CASE MoveToTrash(r) \/ Restore(r)
  BY <1>1, NothingMoves DEF MoveToTrash, Restore
<1>2. CASE PermanentlyDelete(r)
  <2>1. \A j \in Job : state'[j] = IF RecordingOf[j] = r /\ state[j] # "unborn"
                                   THEN "deleted" ELSE state[j]
    BY <1>2 DEF PermanentlyDelete, DeleteJobs, JobsOf
  <2>2. phases' = [j \in Job |-> IF RecordingOf[j] = r /\ phases[j] # "absent"
                                 THEN "dropped" ELSE phases[j]]
    BY <2>1, Phases, BusyPhases DEF phases
  <2>3. Promise!DropRecording(r)
    BY <1>2, <2>2 DEF PermanentlyDelete, Promise!DropRecording, phases
  <2> QED
    BY <2>3 DEF Simulated, Promise!Next
<1> QED
  BY <1>1, <1>2 DEF Library

\* Every transaction is a step of exclusive execution or none.
LEMMA NextSimulated == StoreInv /\ [Next]_vars => Simulated
<1> SUFFICES ASSUME StoreInv, [Next]_vars
             PROVE  Simulated
  OBVIOUS
<1>1. ASSUME NEW j \in Job, NEW o \in Owner,
             ClaimNextQueued(j, o) \/ ClaimQueued(j, o) \/ Execute(j, o)
      PROVE  Simulated
  BY <1>1, ClaimSimulated, ExecuteSimulated DEF ClaimNextQueued, ClaimQueued
<1>2. CASE \E j \in Job : Request(j)
  BY <1>2, RequestSimulated
<1>3. CASE \E r \in Recording : Library(r)
  BY <1>3, LibrarySimulated
<1>4. CASE ClaimFindsNothing
  BY <1>4, RecoverySimulated DEF ClaimFindsNothing, Expired
<1>5. CASE MarkRunningJobsInterrupted
  BY <1>5, RecoverySimulated DEF MarkRunningJobsInterrupted, Abandoned
<1>6. CASE ClearCompleted
  BY <1>6, JobAssumption, DeletionSimulated DEF ClearCompleted, Cleared, Published
<1>7. CASE Tick \/ ClockStepsBack \/ UNCHANGED vars
  BY <1>7, NothingMoves DEF Tick, ClockStepsBack, vars
<1> QED
  BY <1>1, <1>2, <1>3, <1>4, <1>5, <1>6, <1>7 DEF Next

\* Whatever its processes claim, lose, recover, cancel, clear and delete, the
\* job store shows a client nothing but exclusive execution.
THEOREM StoreKeepsItsPromise == Spec => ImplementsExclusiveExecution
<1>1. Init => Promise!Init
  BY Phases DEF Init, Promise!Init
<1>2. StoreInv /\ [Next]_vars => [Promise!Next]_(Promise!vars)
  BY NextSimulated DEF Simulated, Promise!vars, phases
<1> QED
  BY <1>1, <1>2, StoreInvariant, PTL DEF Spec, ImplementsExclusiveExecution, Promise!Spec
=============================================================================
