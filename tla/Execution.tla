----------------------------- MODULE Execution -----------------------------
(***************************************************************************)
(* The programs that execute jobs over the JobStore: the desktop           *)
(* application (TranscriptionCoordinator) and command line transcriptions  *)
(* (CliTranscriptionPersistence, driven by cli/main.cpp).  A program reads *)
(* the database, decides, and writes later; what it believes meanwhile is  *)
(* its session.  Every action is one step of one program: at most one      *)
(* transaction of the JobStore, and the change of the session with it.     *)
(*                                                                         *)
(* An owner token is the identity of a program here: a program has one     *)
(* session at a time and writes only in it, so the fresh token that the    *)
(* desktop draws for every claim would tell nothing more apart.            *)
(* The worker process behind a program is left out: a worker that crashes, *)
(* answers nonsense or hangs makes its program fail or interrupt the job.  *)
(***************************************************************************)
EXTENDS JobStore, FiniteSets

CONSTANTS
    Gui,       \* the desktop applications; every other owner is a command line
    Edits,     \* bound: what manual edits may make of a transcript
    Deletable  \* bound: the recordings a user may move to the trash

ASSUME GuiAssumption       == Gui \subseteq Owner
ASSUME EditsAssumption     == Edits \subseteq Text
ASSUME DeletableAssumption == Deletable \subseteq Recording

Cli == Owner \ Gui

VARIABLES
    session,  \* per program: where it is, and what it remembers of its job
    rows,     \* per job and chunk: what the recognizer last stored for it
    tried     \* per job: the chunks with attempts > 0

execVars == <<vars, session, rows, tried>>

Stage == {"off", "idle", "planning", "requeueing", "waiting", "rewaiting", "resetting",
          "preparing", "loading", "choosing", "transcribing", "saved", "finalizing", "stopping"}
Outcome == {"Failed", "Cancelled", "Interrupted"}

\* The stages of a program that claimed a job and has not let go of it.
Working == {"resetting", "preparing", "loading", "choosing", "transcribing", "saved",
            "finalizing", "stopping"}

Session == [at      : Stage,
            job     : Job \cup {NoJob},
            plan    : [Ordinal -> ChunkState \cup {"absent"}],  \* m_chunks, m_identity.chunks
            tried   : SUBSET Ordinal,  \* those with attempts > 0 when a command line read them
            current : BOOLEAN,             \* their ids are those of the rows in job_chunks
            next    : 0 .. MaxChunks,      \* m_currentChunkIndex + 1
            outcome : Outcome \cup {"none"}]                    \* how "stopping" will end

At(at, j) == [at |-> at, job |-> j, plan |-> NoPlan, tried |-> {}, current |-> TRUE,
              next |-> 0, outcome |-> "none"]
\* A desktop goes on to its next job, a command line exits.
Ended(p) == At(IF p \in Gui THEN "idle" ELSE "off", NoJob)

NoRows == [c \in Ordinal |-> "none"]

ExecTypeOK ==
    /\ TypeOK
    /\ session \in [Owner -> Session]
    /\ rows  \in [Job -> [Ordinal -> {"none", "partial", "final"}]]
    /\ tried \in [Job -> SUBSET Ordinal]

ExecInit ==
    /\ Init
    /\ session = [p \in Owner |-> At("off", NoJob)]
    /\ rows    = [j \in Job |-> NoRows]
    /\ tried   = [j \in Job |-> {}]

-----------------------------------------------------------------------------
(* How steps of the store and of a session go together. *)

Is(p, j, at) == session[p].at = at /\ session[p].job = j
Become(p, s) == session' = [session EXCEPT ![p] = s]
Goto(p, at)  == session' = [session EXCEPT ![p].at = at]

\* The cascades of a deletion.
RowsFollow ==
    /\ rows'  = [j \in Job |-> IF state'[j] = "deleted" THEN NoRows ELSE rows[j]]
    /\ tried' = [j \in Job |-> IF state'[j] = "deleted" THEN {} ELSE tried[j]]

RowsStay == UNCHANGED <<rows, tried>>

\* New chunk rows have new ids: what other programs remember names rows that
\* no longer exist, and the recognizer output of the old rows has no chunk.
NewChunkRows(p, j) ==
    /\ session' = [q \in Owner |->
           IF q = p THEN [session[p] EXCEPT !.plan = chunks'[j], !.tried = {}, !.current = TRUE,
                                            !.at = IF p \in Gui THEN "loading" ELSE @]
           ELSE IF session[q].job = j THEN [session[q] EXCEPT !.current = FALSE]
           ELSE session[q]]
    /\ rows'  = [rows EXCEPT ![j] = NoRows]
    /\ tried' = [tried EXCEPT ![j] = {}]

\* The chunk plan has started, by the database and by what p remembers of it.
Started(j) == tried[j] # {} \/ \E c \in Ordinal : chunks[j][c] \notin {"Pending", "absent"}
StartedBy(p) ==
    session[p].tried # {} \/ \E c \in Ordinal : session[p].plan[c] \notin {"Pending", "absent"}

\* The chunks p has still to look at, and the one it works on.
Ahead(p) == {c \in Ordinal : c >= session[p].next /\ session[p].plan[c] \notin {"Completed", "absent"}}
First(c, S) == c \in S /\ \A d \in S : c <= d
Current(p) == {c \in Ordinal : c + 1 = session[p].next}

-----------------------------------------------------------------------------
(* The desktop between jobs. *)

RecoverAbandoned ==
    \/ MarkRunningJobsInterrupted
    \/ Abandoned = {} /\ lease = NoLease /\ UNCHANGED vars

Launch(p) ==
    /\ p \in Gui /\ session[p].at = "off"
    /\ RecoverAbandoned
    /\ Become(p, At("idle", NoJob))
    /\ RowsStay

\* Mutant: only the start of a program recovers jobs.
RecoverAtStartOnly(p) ==
    /\ session[p].at = "off"
    /\ MarkRunningJobsInterrupted
    /\ RowsStay /\ UNCHANGED session

\* The scheduler, once a second while no lease is live; a command line
\* recovers when it starts, before it looks at any job.
Recover(p) ==
    /\ session[p].at = IF p \in Gui THEN "idle" ELSE "off"
    /\ p \in Gui => ~LeaseLive
    /\ MarkRunningJobsInterrupted
    /\ RowsStay /\ UNCHANGED session

ClaimNext(p, j) ==
    /\ p \in Gui /\ session[p].at = "idle"
    /\ ClaimNextQueued(j, p)
    /\ Become(p, At("preparing", j))
    /\ RowsStay

FindNothing(p) ==
    /\ p \in Gui /\ session[p].at = "idle"
    /\ ClaimFindsNothing
    /\ RowsStay /\ UNCHANGED session

-----------------------------------------------------------------------------
(* The command line up to its claim. *)

BeginNew(p, j) ==
    /\ p \in Cli /\ session[p].at = "off"
    /\ CreateQueued(j, TRUE)
    /\ Become(p, At("planning", j))
    /\ RowsStay

StorePlan(p, j) ==
    /\ Is(p, j, "planning")
    /\ ReplaceChunksWhileQueued(j)
    /\ Become(p, [At("waiting", j) EXCEPT !.plan = chunks'[j]])
    /\ RowsStay

\* --resume-job: the chunks are read here and written at ResetChunk.
BeginResume(p, j) ==
    /\ p \in Cli /\ session[p].at = "off"
    /\ state[j] \in {"Interrupted", "Failed"} /\ chunks[j] # NoPlan
    /\ Become(p, [At("requeueing", j) EXCEPT !.plan = chunks[j], !.tried = tried[j]])
    /\ RowsStay /\ UNCHANGED vars

RequeueToResume(p, j) ==
    /\ Is(p, j, "requeueing")
    /\ Requeue(j)
    /\ Goto(p, "rewaiting")
    /\ RowsStay

\* waitForExecutionClaim, every quarter of a second.
ClaimOwn(p, j) ==
    /\ session[p].job = j /\ session[p].at \in {"waiting", "rewaiting"}
    /\ ClaimQueued(j, p)
    /\ Goto(p, IF session[p].at = "waiting" THEN "preparing" ELSE "resetting")
    /\ RowsStay

\* The job is not what the program waits for any more.
GiveUp(p, j) ==
    /\ session[p].job = j
    /\ \/ session[p].at = "planning" /\ (state[j] # "Queued" \/ chunks[j] # NoPlan)
       \/ session[p].at = "requeueing" /\ state[j] \notin {"Interrupted", "Failed", "Cancelled"}
       \/ /\ session[p].at \in {"waiting", "rewaiting"}
          /\ \/ state[j] \in {"Cancelling", "Cancelled", "deleted"}
             \/ ~LeaseLive /\ Running \subseteq Expired /\ state[j] # "Queued"
    /\ Become(p, Ended(p))
    /\ RowsStay /\ UNCHANGED vars

\* After the claim, every remembered chunk that is not completed goes back to
\* pending, with the remembered attempts.
ResetChunk(p, j) ==
    /\ Is(p, j, "resetting") /\ session[p].current
    /\ \E c \in Ordinal :
           /\ First(c, Ahead(p))
           /\ UpdateChunk(j, c, "Pending", p)
           /\ Become(p, [session[p] EXCEPT !.plan[c] = "Pending", !.next = c + 1])
           /\ tried' = [tried EXCEPT ![j] = IF c \in session[p].tried THEN @ \cup {c} ELSE @ \ {c}]
    /\ UNCHANGED rows

ResetDone(p, j) ==
    /\ Is(p, j, "resetting") /\ Ahead(p) = {}
    /\ Become(p, [session[p] EXCEPT !.at = "preparing", !.next = 0])
    /\ RowsStay /\ UNCHANGED vars

\* A reset that fails ends the program; a cancelled job is left to recovery.
ResetFails(p, j) ==
    /\ Is(p, j, "resetting") /\ Ahead(p) # {}
    /\ IF state[j] = "Cancelling" THEN UNCHANGED vars ELSE StopExecution(j, "Interrupted", p)
    /\ Become(p, Ended(p))
    /\ RowsStay

-----------------------------------------------------------------------------
(* Preparation: the stages of the pipeline and the chunk plan. *)

\* The moves each program makes; the job state machine allows more.
GuiStages(p, j) ==
    CASE session[p].at = "preparing" ->
             {"Normalizing"} \cup (IF chunks[j] = NoPlan THEN {"AnalyzingSpeech"} ELSE {})
      [] session[p].at = "loading" ->
             IF state[j] = "WaitingForModel" THEN {"LoadingModel"} ELSE {"WaitingForModel"}
      [] OTHER -> {}

CliStages(p, j) ==
    IF session[p].at # "preparing" THEN {}
    ELSE IF state[j] = "LoadingModel" THEN {"AnalyzingSpeech"}
    ELSE {"Normalizing", "LoadingModel"}

Advance(p, j) ==
    /\ session[p].job = j
    /\ \E s \in IF p \in Gui THEN GuiStages(p, j) ELSE CliStages(p, j) : AdvanceStage(j, s, p)
    /\ RowsStay /\ UNCHANGED session

\* prepareChunks of a job that has a plan.
KeepPlan(p, j) ==
    /\ p \in Gui /\ Is(p, j, "preparing")
    /\ chunks[j] # NoPlan
    /\ Become(p, [session[p] EXCEPT !.at = "loading", !.plan = chunks[j]])
    /\ RowsStay /\ UNCHANGED vars

\* Mutant: a new plan whenever the old one does not suit the audio.
MakePlanAnyTime(p, j) ==
    /\ p \in Gui /\ Is(p, j, "preparing")
    /\ ReplaceChunks(j, p)
    /\ NewChunkRows(p, j)

\* prepareChunks of a job that has none, or one that has not started and does
\* not suit the audio.
MakePlan(p, j) ==
    /\ p \in Gui /\ Is(p, j, "preparing")
    /\ ~Started(j)
    /\ ReplaceChunks(j, p)
    /\ NewChunkRows(p, j)

\* replaceChunkPlan asks what it remembers whether the plan has started.  (It
\* is not called either if the job had reached the stage Transcribing before,
\* which the module leaves out.)
Replan(p, j) ==
    /\ p \in Cli /\ Is(p, j, "preparing")
    /\ ~StartedBy(p)
    /\ ReplaceChunks(j, p)
    /\ NewChunkRows(p, j)

\* A command line that analysed the speech has to replace the plan before.
BeginTranscription(p, j) ==
    /\ Is(p, j, IF p \in Gui THEN "loading" ELSE "preparing")
    /\ state[j] = "AnalyzingSpeech" => p \in Cli /\ ~StartedBy(p)
    /\ AdvanceStage(j, "Transcribing", p)
    /\ Become(p, [session[p] EXCEPT !.at = "choosing", !.tried = {}])  \* not read again
    /\ RowsStay

-----------------------------------------------------------------------------
(* Transcription, chunk by chunk. *)

StartChunk(p, j) ==
    /\ Is(p, j, "choosing") /\ session[p].current
    /\ \E c \in Ordinal :
           /\ First(c, Ahead(p))
           /\ UpdateChunk(j, c, "Running", p)
           /\ Become(p, [session[p] EXCEPT !.at = "transcribing", !.plan[c] = "Running",
                                           !.next = c + 1])
           /\ tried' = [tried EXCEPT ![j] = @ \cup {c}]
    /\ UNCHANGED rows

StoreRows(p, j, what) ==
    /\ ReplaceChunk(j, p)
    /\ rows' = [rows EXCEPT ![j] = [c \in Ordinal |-> IF c \in Current(p) THEN what ELSE @[c]]]
    /\ UNCHANGED tried

SavePartial(p, j) ==
    /\ Is(p, j, "transcribing")
    /\ StoreRows(p, j, "partial")
    /\ UNCHANGED session

\* Mutant: the chunk is completed first, its text is saved afterwards.
CompleteThenSave(p, j) ==
    /\ Is(p, j, "transcribing")
    /\ \E c \in Current(p) :
           /\ UpdateChunk(j, c, "Completed", p)
           /\ Become(p, [session[p] EXCEPT !.at = "saved", !.plan[c] = "Completed"])
    /\ RowsStay

\* Two transactions make a chunk complete: its final text ...
SaveFinal(p, j) ==
    /\ Is(p, j, "transcribing")
    /\ StoreRows(p, j, "final")
    /\ Goto(p, "saved")

\* Mutant: the completion is written and not remembered.
FinishChunkUnremembered(p, j) ==
    /\ Is(p, j, "saved")
    /\ \E c \in Current(p) : UpdateChunk(j, c, "Completed", p)
    /\ Goto(p, "choosing")
    /\ RowsStay

\* ... and then its state.
FinishChunk(p, j) ==
    /\ Is(p, j, "saved")
    /\ \E c \in Current(p) :
           /\ UpdateChunk(j, c, "Completed", p)
           /\ Become(p, [session[p] EXCEPT !.at = "choosing", !.plan[c] = "Completed"])
    /\ RowsStay

\* Mutant: the last chunk is taken for done.
FinalizeOneEarly(p, j) ==
    /\ Is(p, j, "choosing") /\ Cardinality(Ahead(p)) <= 1
    /\ AdvanceStage(j, "Finalizing", p)
    /\ Goto(p, "finalizing")
    /\ RowsStay

\* A command line looks at the database once more before it finalizes.
Finalize(p, j) ==
    /\ Is(p, j, "choosing") /\ Ahead(p) = {}
    /\ p \in Cli => \A c \in Ordinal : chunks[j][c] \in {"Completed", "absent"}
    /\ AdvanceStage(j, "Finalizing", p)
    /\ Goto(p, "finalizing")
    /\ RowsStay

Complete(p, j) ==
    /\ Is(p, j, "finalizing")
    /\ CompleteAndActivate(j, p)
    /\ Become(p, Ended(p))
    /\ rows' = [k \in Job |-> IF k \in Superseded(j) THEN NoRows ELSE rows[k]]
    /\ UNCHANGED tried

-----------------------------------------------------------------------------
(* The ends of an execution that does not complete. *)

Heartbeat(p, j) ==
    /\ session[p].job = j /\ session[p].at \in Working
    /\ RenewLease(j, p)
    /\ RowsStay /\ UNCHANGED session

\* Mutant: a lease row that is gone is not taken for a lost lease.
LoseLeaseToOther(p, j) ==
    /\ session[p].job = j /\ session[p].at \in Working
    /\ ~Holds(j, p) /\ lease # NoLease
    /\ Become(p, Ended(p))
    /\ RowsStay /\ UNCHANGED vars

\* Whoever finds its lease lost, by the heartbeat or a refused write, drops
\* the job without another write.
LoseLease(p, j) ==
    /\ session[p].job = j /\ session[p].at \in Working
    /\ ~Holds(j, p)
    /\ Become(p, Ended(p))
    /\ RowsStay /\ UNCHANGED vars

\* A local error, a worker that died, or the program being closed.  All but
\* the desktop that is closed look for a cancellation before.
Stop(p, j) ==
    /\ session[p].job = j /\ session[p].at \in Working \ {"resetting", "stopping"}
    /\ Holds(j, p)
    /\ \E out \in {"Failed", "Interrupted"} :
           /\ state[j] = "Cancelling" => p \in Gui /\ out = "Interrupted"
           /\ Become(p, [session[p] EXCEPT !.at = "stopping", !.outcome = out])
    /\ RowsStay /\ UNCHANGED vars

\* Mutant: cancellation is looked for between chunks only.
NoticeBetweenChunks(p, j) ==
    /\ Is(p, j, "choosing")
    /\ Holds(j, p) /\ state[j] = "Cancelling"
    /\ Become(p, [session[p] EXCEPT !.at = "stopping", !.outcome = "Cancelled"])
    /\ RowsStay /\ UNCHANGED vars

\* The durable cancellation wins over everything but a lost lease, over a
\* failure or interruption that is already being written too.
NoticeCancellation(p, j) ==
    /\ session[p].job = j /\ session[p].at \in Working \ {"resetting"}
    /\ session[p].outcome # "Cancelled"
    /\ Holds(j, p) /\ state[j] = "Cancelling"
    /\ Become(p, [session[p] EXCEPT !.at = "stopping", !.outcome = "Cancelled"])
    /\ RowsStay /\ UNCHANGED vars

\* Mutant: the job is stopped, its chunks are left alone.
NothingToCheckpoint(p, j) == {}

\* The chunks to write before the job: the desktop writes the one it works on,
\* the command line what it remembers as running, and what the database says
\* when it is cancelled.
ToCheckpoint(p, j) ==
    LET stopped == IF session[p].outcome = "Cancelled" THEN {"Running", "Interrupted", "Failed"}
                                                       ELSE {"Running"}
    IN  IF p \in Gui THEN {c \in Current(p) : session[p].plan[c] \in stopped}
        ELSE IF session[p].outcome = "Cancelled" THEN {c \in Ordinal : chunks[j][c] \in stopped}
        ELSE {c \in Ordinal : session[p].plan[c] \in stopped}

Checkpoint(p, j) ==
    /\ Is(p, j, "stopping")
    /\ \E c \in Ordinal, out \in Outcome :
           /\ First(c, ToCheckpoint(p, j)) /\ session[p].outcome = out
           /\ UpdateChunk(j, c, out, p)
           /\ Become(p, [session[p] EXCEPT !.plan[c] = out])
    /\ RowsStay

\* Mutant: the last write of an execution does not show its token.
StopJobUnfenced(p, j) ==
    /\ Is(p, j, "stopping") /\ ToCheckpoint(p, j) = {}
    /\ state' = [state EXCEPT ![j] = session[p].outcome]
    /\ lease' = LeaseWithout(j)
    /\ UNCHANGED <<rec, active, hidden, chunks, text>>
    /\ Become(p, Ended(p))
    /\ RowsStay

StopJob(p, j) ==
    /\ Is(p, j, "stopping") /\ ToCheckpoint(p, j) = {}
    /\ \E out \in Outcome : session[p].outcome = out /\ StopExecution(j, out, p)
    /\ Become(p, Ended(p))
    /\ RowsStay

Crash(p) ==
    /\ session[p].at # "off"
    /\ Become(p, At("off", NoJob))
    /\ RowsStay /\ UNCHANGED vars

-----------------------------------------------------------------------------
\* Users of either program, at any time and whichever programs run.
User ==
    /\ \/ \E j \in Job :
              \/ CreateQueued(j, FALSE)  \/ RequestCancellation(j)
              \/ CancelWithoutExecutor(j) \/ Requeue(j)
              \/ \E t \in Edits : SaveEditedTranscript(j, t)
              \/ DeleteTerminalJob(j)
       \/ \E r \in Deletable : Library(r)
       \/ ClearCompleted
    /\ RowsFollow /\ UNCHANGED session

Clock == (Tick \/ ClockStepsBack) /\ RowsStay /\ UNCHANGED session

Resume(p, j) == \/ BeginResume(p, j) \/ RequeueToResume(p, j)
                \/ ResetChunk(p, j) \/ ResetDone(p, j) \/ ResetFails(p, j)
Claiming(p, j) == \/ ClaimNext(p, j) \/ BeginNew(p, j) \/ StorePlan(p, j)
                  \/ ClaimOwn(p, j) \/ GiveUp(p, j)
Preparing(p, j) == \/ Advance(p, j) \/ KeepPlan(p, j) \/ MakePlan(p, j) \/ Replan(p, j)
                   \/ BeginTranscription(p, j)
Transcribing(p, j) == \/ StartChunk(p, j) \/ SavePartial(p, j) \/ SaveFinal(p, j)
                      \/ FinishChunk(p, j) \/ Finalize(p, j) \/ Complete(p, j)
Stopping(p, j) == \/ Heartbeat(p, j) \/ LoseLease(p, j) \/ Stop(p, j)
                  \/ NoticeCancellation(p, j) \/ Checkpoint(p, j) \/ StopJob(p, j)

ExecNext ==
    \/ \E p \in Owner, j \in Job :
           \/ Claiming(p, j) \/ Resume(p, j) \/ Preparing(p, j)
           \/ Transcribing(p, j) \/ Stopping(p, j)
    \/ \E p \in Owner : Launch(p) \/ Recover(p) \/ FindNothing(p) \/ Crash(p)
    \/ User \/ Clock

ExecSpec == ExecInit /\ [][ExecNext]_execVars

\* What the event loop and the timers of a program do without being asked: look for work, recover lost
\* jobs, find a cancellation or a lost lease, write a stop that was decided, reset the chunks of a
\* resume. That the user starts the desktop again some day is an assumption about the user; nothing is
\* assumed of recognition, which may go on for ever, or of command lines that have not been started.
Unasked(p) ==
    \/ Launch(p)
    \/ p \in Gui /\ Recover(p)
    \/ \E j \in Job : \/ ClaimNext(p, j)
                      \/ LoseLease(p, j) \/ NoticeCancellation(p, j) \/ Checkpoint(p, j) \/ StopJob(p, j)
                      \/ ResetChunk(p, j) \/ ResetDone(p, j) \/ ResetFails(p, j)

Fairness == WF_execVars(Tick /\ Clock) /\ \A p \in Owner : WF_execVars(Unasked(p))

FairExecSpec == ExecSpec /\ Fairness

-----------------------------------------------------------------------------
(* Invariants. *)

\* A chunk counts as completed only when its final text is stored: no crash,
\* takeover or resume skips a chunk whose text is missing or provisional
\* (finalizeCurrentChunk and completeChunk write the two separately).
CompletedChunkIsSaved ==
    \A j \in Job, c \in Ordinal :
        chunks[j][c] = "Completed" /\ state[j] # "Completed" => rows[j][c] = "final"

\* A published transcript has all its chunks, each with its final text.
PublishedIsWhole ==
    \A r \in Recording : active[r] # NoJob =>
        /\ chunks[active[r]] # NoPlan
        /\ \A c \in Ordinal :
               \/ chunks[active[r]][c] = "absent"
               \/ chunks[active[r]][c] = "Completed" /\ rows[active[r]][c] = "final"

\* No chunk is left running by a job that is not, and no job has two.
RunningChunkIsRun ==
    \A j \in Job, c \in Ordinal : chunks[j][c] = "Running" =>
        /\ IsRunning(state[j])
        /\ \A d \in Ordinal \ {c} : chunks[j][d] # "Running"

\* What a desktop remembers of the chunks is what the database says for as
\* long as it holds the lease: it may decide by its memory.
MemoryIsCurrent ==
    \A p \in Gui, j \in Job :
        session[p].job = j /\ session[p].plan # NoPlan /\ Holds(j, p) =>
            session[p].plan = chunks[j]

-----------------------------------------------------------------------------
(* Action properties. *)

\* docs/user/cli.md:45: "Completed chunks are retained and only interrupted or
\* failed chunks run again".  Nothing takes a completed chunk back while no
\* program or a desktop executes the job, whatever a command line that resumes
\* it still has in mind; the command line itself, once it holds the lease, may
\* (CliTranscriptionPersistence.cpp:313, see the README).
CompletedChunksRetained ==
    [][\A j \in Job, c \in Ordinal :
           chunks[j][c] = "Completed" /\ (\A p \in Cli : ~Holds(j, p)) =>
               chunks'[j][c] = "Completed" \/ state'[j] = "deleted"]_execVars

\* Whatever the programs do, crash or race for, the database sees nothing but
\* steps of the JobStore: everything proved of it holds of the programs.
ImplementsJobStore == Spec

-----------------------------------------------------------------------------
(* Liveness. *)

\* From some time on the clock is not set back (a step that lengthens a lease
\* is a heartbeat), and programs do not crash.
ClockSettles   == <>[][ClockStepsBack => \E p \in Owner, j \in Job : Heartbeat(p, j)]_execVars
CrashesSubside == <>[][\A p \in Owner : ~Crash(p)]_execVars

\* An accepted cancellation is carried out, by the executor or, if it has
\* crashed or lost its lease, by whoever recovers the job.
CancellationCarriedOut ==
    ClockSettles =>
        \A j \in Job : (state[j] = "Cancelling") ~> (state[j] # "Cancelling")

\* A job whose executor is gone does not stay running in the database.
LostJobRecovered ==
    ClockSettles =>
        \A j \in Job : (j \in Abandoned) ~> (j \notin Abandoned)

\* A visible queued job does not wait while nothing runs: no program that lost
\* its lease, and no row of an executor that died, blocks the queue for ever.
QueueMoves ==
    ClockSettles /\ CrashesSubside =>
        \A j \in Job : (state[j] = "Queued" /\ ~hidden[j]) ~> (state[j] # "Queued" \/ Running # {})
=============================================================================
