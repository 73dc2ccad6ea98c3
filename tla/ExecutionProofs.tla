-------------------------- MODULE ExecutionProofs ---------------------------
(***************************************************************************)
(* What the programs guarantee for any number of desktop applications and  *)
(* command lines, jobs and chunks.  First: they implement the job store,   *)
(* and completed chunks have their final text.  Then: what programs        *)
(* remember of a job, and that published transcripts are whole.            *)
(***************************************************************************)
EXTENDS Execution, JobStoreProofs

-----------------------------------------------------------------------------
(* The programs implement the job store. *)

\* Claiming a job is a step of the store or only of the session.
LEMMA ClaimingIsStore ==
    ASSUME NEW p \in Owner, NEW j \in Job, Claiming(p, j)
    PROVE  [Next]_vars
<1>1. ClaimNext(p, j) => Next
  BY DEF ClaimNext, Next
<1>2. BeginNew(p, j) => Next
  BY DEF BeginNew, Next, Request
<1>3. StorePlan(p, j) => Next
  BY DEF StorePlan, Next, Request
<1>4. ClaimOwn(p, j) => Next
  BY DEF ClaimOwn, Next
<1>5. GiveUp(p, j) => UNCHANGED vars
  BY DEF GiveUp
<1> QED
  BY <1>1, <1>2, <1>3, <1>4, <1>5 DEF Claiming

\* So is resuming one.
LEMMA ResumeIsStore ==
    ASSUME NEW p \in Owner, NEW j \in Job, Resume(p, j)
    PROVE  [Next]_vars
<1>1. BeginResume(p, j) => UNCHANGED vars
  BY DEF BeginResume
<1>2. RequeueToResume(p, j) => Next
  BY DEF RequeueToResume, Next, Request
<1>3. ResetChunk(p, j) => Next
  BY DEF ResetChunk, Next, Execute, ChunkState
<1>4. ResetDone(p, j) => UNCHANGED vars
  BY DEF ResetDone
<1>5. ResetFails(p, j) => Next \/ UNCHANGED vars
  BY DEF ResetFails, Next, Execute
<1> QED
  BY <1>1, <1>2, <1>3, <1>4, <1>5 DEF Resume

\* So is preparing one: the stages a program moves through are executing ones.
LEMMA PreparingIsStore ==
    ASSUME NEW p \in Owner, NEW j \in Job, Preparing(p, j)
    PROVE  [Next]_vars
<1>1. Advance(p, j) => Next
  <2>1. \A s : s \in GuiStages(p, j) => s \in ExecutingState
    BY DEF GuiStages, ExecutingState
  <2>2. \A s : s \in CliStages(p, j) => s \in ExecutingState
    BY DEF CliStages, ExecutingState
  <2>3. Advance(p, j) => \E s \in ExecutingState : AdvanceStage(j, s, p)
    BY <2>1, <2>2 DEF Advance
  <2> QED
    BY <2>3 DEF Next, Execute
<1>2. KeepPlan(p, j) => UNCHANGED vars
  BY DEF KeepPlan
<1>3. MakePlan(p, j) \/ Replan(p, j) => Next
  BY DEF MakePlan, Replan, Next, Execute
<1>4. BeginTranscription(p, j) => Next
  BY DEF BeginTranscription, Next, Execute, ExecutingState
<1> QED
  BY <1>1, <1>2, <1>3, <1>4 DEF Preparing

\* So is transcribing one.
LEMMA TranscribingIsStore ==
    ASSUME NEW p \in Owner, NEW j \in Job, Transcribing(p, j)
    PROVE  [Next]_vars
<1>1. StartChunk(p, j) => Next
  BY DEF StartChunk, Next, Execute, ChunkState
<1>2. SavePartial(p, j) \/ SaveFinal(p, j) => Next
  BY DEF SavePartial, SaveFinal, StoreRows, Next, Execute
<1>3. FinishChunk(p, j) => Next
  <2>1. \A c \in Current(p) : c \in Ordinal
    BY DEF Current
  <2> QED
    BY <2>1 DEF FinishChunk, Next, Execute, ChunkState
<1>4. Finalize(p, j) => Next
  BY DEF Finalize, Next, Execute, ExecutingState
<1>5. Complete(p, j) => Next
  BY DEF Complete, Next, Execute
<1> QED
  BY <1>1, <1>2, <1>3, <1>4, <1>5 DEF Transcribing

\* So is giving one up: the last writes of an execution show their token.
LEMMA StoppingIsStore ==
    ASSUME NEW p \in Owner, NEW j \in Job, Stopping(p, j)
    PROVE  [Next]_vars
<1>1. Heartbeat(p, j) => Next
  BY DEF Heartbeat, Next, Execute
<1>2. LoseLease(p, j) \/ Stop(p, j) \/ NoticeCancellation(p, j) => UNCHANGED vars
  BY DEF LoseLease, Stop, NoticeCancellation
<1>3. Checkpoint(p, j) => Next
  BY DEF Checkpoint, Next, Execute, ChunkState, Outcome
<1>4. StopJob(p, j) => Next
  BY DEF StopJob, Next, Execute, Outcome
<1> QED
  BY <1>1, <1>2, <1>3, <1>4 DEF Stopping

\* Every step of the programs, their users and the clock is a step of the
\* store, or changes nothing in it.
LEMMA StepIsStore ==
    ASSUME [ExecNext]_execVars
    PROVE  [Next]_vars
<1>1. CASE \E p \in Owner, j \in Job :
              \/ Claiming(p, j) \/ Resume(p, j) \/ Preparing(p, j)
              \/ Transcribing(p, j) \/ Stopping(p, j)
  BY <1>1, ClaimingIsStore, ResumeIsStore, PreparingIsStore, TranscribingIsStore, StoppingIsStore
<1>2. CASE \E p \in Owner : Launch(p) \/ Recover(p) \/ FindNothing(p) \/ Crash(p)
  BY <1>2 DEF Launch, RecoverAbandoned, Recover, FindNothing, Crash, Next
<1>3. CASE User
  BY <1>3, EditsAssumption, DeletableAssumption DEF User, Next, Request
<1>4. CASE Clock
  BY <1>4 DEF Clock, Next
<1>5. CASE UNCHANGED execVars
  BY <1>5 DEF execVars
<1> QED
  BY <1>1, <1>2, <1>3, <1>4, <1>5 DEF ExecNext

\* Whatever desktop applications and command lines do, crash or race for, the
\* database sees nothing but steps of the job store: what is proved of it
\* holds of the programs.
THEOREM ProgramsImplementStore == ExecSpec => ImplementsJobStore
<1>1. ExecInit => Init
  BY DEF ExecInit
<1> QED
  BY <1>1, StepIsStore, PTL DEF ExecSpec, Spec, ImplementsJobStore
-----------------------------------------------------------------------------
(* Type correctness. *)

\* What a program remembers after it moved on, alone or with other fields.
LEMMA SessionTyped ==
    ASSUME ExecTypeOK, NEW p \in Owner
    PROVE  /\ \A s \in Session : Become(p, s) => session' \in [Owner -> Session]
           /\ \A a \in Stage : Goto(p, a) => session' \in [Owner -> Session]
           /\ session[p] \in Session
<1>1. session[p] \in Session
  BY DEF ExecTypeOK
<1>2. \A a \in Stage : [session[p] EXCEPT !.at = a] \in Session
  BY <1>1 DEF Session
<1> QED
  BY <1>1, <1>2 DEF Become, Goto, ExecTypeOK

\* A fresh session is one.
LEMMA FreshSession ==
    ASSUME NEW a \in Stage, NEW j \in Job \cup {NoJob}
    PROVE  At(a, j) \in Session
  BY PlanTyped, BoundAssumption DEF At, Session

\* The numbers a program counts chunks with.
LEMMA NextTyped ==
    /\ \A c \in Ordinal : c + 1 \in 0 .. MaxChunks
    /\ 0 \in 0 .. MaxChunks
  BY BoundAssumption DEF Ordinal

\* A program that goes on to its next job or exits.
LEMMA EndedTyped == \A p : Ended(p) \in Session
  BY FreshSession DEF Ended, Stage

\* The memory of a program after each kind of step.
LEMMA SessionClaiming ==
    ASSUME ExecTypeOK, TypeOK', NEW p \in Owner, NEW j \in Job, Claiming(p, j)
    PROVE  session' \in [Owner -> Session]
<1> USE SessionTyped, FreshSession, EndedTyped DEF Stage
<1>1. CASE ClaimNext(p, j)
  BY <1>1 DEF ClaimNext
<1>2. CASE BeginNew(p, j)
  BY <1>2 DEF BeginNew
<1>3. CASE StorePlan(p, j)
  <2>1. chunks'[j] \in [Ordinal -> ChunkState \cup {"absent"}]
    BY DEF TypeOK
  <2>2. [At("waiting", j) EXCEPT !.plan = chunks'[j]] \in Session
    BY <2>1 DEF Session
  <2> QED
    BY <2>2, <1>3 DEF StorePlan
<1>4. CASE ClaimOwn(p, j)
  BY <1>4 DEF ClaimOwn
<1>5. CASE GiveUp(p, j)
  BY <1>5 DEF GiveUp
<1> QED
  BY <1>1, <1>2, <1>3, <1>4, <1>5 DEF Claiming

\* Resuming.
LEMMA SessionResume ==
    ASSUME ExecTypeOK, NEW p \in Owner, NEW j \in Job, Resume(p, j)
    PROVE  session' \in [Owner -> Session]
<1> USE SessionTyped, FreshSession, EndedTyped DEF Stage
<1>0. session[p] \in Session
  OBVIOUS
<1>1. CASE BeginResume(p, j)
  <2>1. chunks[j] \in [Ordinal -> ChunkState \cup {"absent"}] /\ tried[j] \in SUBSET Ordinal
    BY DEF ExecTypeOK, TypeOK
  <2>2. At("requeueing", j) \in Session
    OBVIOUS
  <2>3. [At("requeueing", j) EXCEPT !.plan = chunks[j], !.tried = tried[j]] \in Session
    BY ONLY <2>1, <2>2 DEF Session
  <2> QED
    BY <2>3, <1>1 DEF BeginResume
<1>2. CASE RequeueToResume(p, j)
  BY <1>2 DEF RequeueToResume
<1>3. CASE ResetChunk(p, j)
  <2>1. PICK c \in Ordinal :
            Become(p, [session[p] EXCEPT !.plan[c] = "Pending", !.next = c + 1])
    BY <1>3 DEF ResetChunk
  <2>2. [session[p] EXCEPT !.plan[c] = "Pending", !.next = c + 1] \in Session
    BY ONLY <1>0, NextTyped DEF Session, ChunkState
  <2> QED
    BY <2>1, <2>2
<1>4. CASE ResetDone(p, j)
  <2>1. [session[p] EXCEPT !.at = "preparing", !.next = 0] \in Session
    BY ONLY <1>0, NextTyped DEF Session, Stage
  <2> QED
    BY <2>1, <1>4 DEF ResetDone
<1>5. CASE ResetFails(p, j)
  BY <1>5 DEF ResetFails
<1> QED
  BY <1>1, <1>2, <1>3, <1>4, <1>5 DEF Resume

\* A new plan, which the others do not know of.
LEMMA SessionNewRows ==
    ASSUME ExecTypeOK, TypeOK', NEW p \in Owner, NEW j \in Job, NewChunkRows(p, j)
    PROVE  session' \in [Owner -> Session]
<1>1. chunks'[j] \in [Ordinal -> ChunkState \cup {"absent"}]
  BY DEF TypeOK
<1>2. \A q \in Owner : session[q] \in Session
  BY DEF ExecTypeOK
<1>3. \A q \in Owner : [session[q] EXCEPT !.current = FALSE] \in Session
  BY <1>2 DEF Session
<1>4. \A s \in Session, f \in [Ordinal -> ChunkState \cup {"absent"}], a \in Stage :
          [s EXCEPT !.plan = f, !.tried = {}, !.current = TRUE, !.at = a] \in Session
  BY DEF Session
<1>5. (IF p \in Gui THEN "loading" ELSE session[p].at) \in Stage
  BY <1>2 DEF Session, Stage
<1>6. [session[p] EXCEPT !.plan = chunks'[j], !.tried = {}, !.current = TRUE,
                         !.at = IF p \in Gui THEN "loading" ELSE session[p].at] \in Session
  BY <1>1, <1>2, <1>4, <1>5
<1>7. session' = [q \in Owner |->
           IF q = p THEN [session[p] EXCEPT !.plan = chunks'[j], !.tried = {}, !.current = TRUE,
                                            !.at = IF p \in Gui THEN "loading" ELSE session[p].at]
           ELSE IF session[q].job = j THEN [session[q] EXCEPT !.current = FALSE]
           ELSE session[q]]
  BY <1>2 DEF NewChunkRows, Session
<1> QED
  BY <1>2, <1>3, <1>6, <1>7

\* Preparing.
LEMMA SessionPreparing ==
    ASSUME ExecTypeOK, TypeOK', NEW p \in Owner, NEW j \in Job, Preparing(p, j)
    PROVE  session' \in [Owner -> Session]
<1> USE SessionTyped DEF Stage
<1>1. CASE Advance(p, j)
  BY <1>1 DEF Advance, ExecTypeOK
<1>2. CASE KeepPlan(p, j)
  <2>1. chunks[j] \in [Ordinal -> ChunkState \cup {"absent"}]
    BY DEF ExecTypeOK, TypeOK
  <2>2. session[p] \in Session
    OBVIOUS
  <2>3. [session[p] EXCEPT !.at = "loading", !.plan = chunks[j]] \in Session
    BY ONLY <2>1, <2>2 DEF Session, Stage
  <2> QED
    BY <2>3, <1>2 DEF KeepPlan
<1>3. CASE MakePlan(p, j) \/ Replan(p, j)
  BY <1>3, SessionNewRows DEF MakePlan, Replan
<1>4. CASE BeginTranscription(p, j)
  <2>0. session[p] \in Session
    OBVIOUS
  <2>1. [session[p] EXCEPT !.at = "choosing", !.tried = {}] \in Session
    BY ONLY <2>0 DEF Session, Stage
  <2> QED
    BY <2>1, <1>4 DEF BeginTranscription
<1> QED
  BY <1>1, <1>2, <1>3, <1>4 DEF Preparing

\* Transcribing.
LEMMA SessionTranscribing ==
    ASSUME ExecTypeOK, NEW p \in Owner, NEW j \in Job, Transcribing(p, j)
    PROVE  session' \in [Owner -> Session]
<1> USE SessionTyped, EndedTyped, NextTyped DEF Stage
<1>1. CASE StartChunk(p, j)
  <2>1. PICK c \in Ordinal :
            Become(p, [session[p] EXCEPT !.at = "transcribing", !.plan[c] = "Running", !.next = c + 1])
    BY <1>1 DEF StartChunk
  <2>2. [session[p] EXCEPT !.at = "transcribing", !.plan[c] = "Running", !.next = c + 1] \in Session
    <3>1. session[p] \in Session
      OBVIOUS
    <3>2. [session[p].plan EXCEPT ![c] = "Running"] \in [Ordinal -> ChunkState \cup {"absent"}]
      BY ONLY <3>1 DEF Session, ChunkState
    <3>3. c + 1 \in 0 .. MaxChunks
      BY BoundAssumption DEF Ordinal
    <3> QED
      BY ONLY <3>1, <3>2, <3>3 DEF Session, Stage
  <2> QED
    BY <2>1, <2>2
<1>2. CASE SavePartial(p, j)
  BY <1>2 DEF SavePartial, ExecTypeOK
<1>3. CASE SaveFinal(p, j)
  BY <1>3 DEF SaveFinal
<1>4. CASE FinishChunk(p, j)
  <2>1. PICK c \in Ordinal :
            Become(p, [session[p] EXCEPT !.at = "choosing", !.plan[c] = "Completed"])
    BY <1>4 DEF FinishChunk, Current
  <2>2. [session[p] EXCEPT !.at = "choosing", !.plan[c] = "Completed"] \in Session
    <3>1. session[p] \in Session
      OBVIOUS
    <3>2. [session[p].plan EXCEPT ![c] = "Completed"] \in [Ordinal -> ChunkState \cup {"absent"}]
      BY ONLY <3>1 DEF Session, ChunkState
    <3> QED
      BY ONLY <3>1, <3>2 DEF Session, Stage
  <2> QED
    BY <2>1, <2>2
<1>5. CASE Finalize(p, j)
  BY <1>5 DEF Finalize
<1>6. CASE Complete(p, j)
  BY <1>6 DEF Complete
<1> QED
  BY <1>1, <1>2, <1>3, <1>4, <1>5, <1>6 DEF Transcribing

\* Giving up.
LEMMA SessionStopping ==
    ASSUME ExecTypeOK, NEW p \in Owner, NEW j \in Job, Stopping(p, j)
    PROVE  session' \in [Owner -> Session]
<1> USE SessionTyped, EndedTyped DEF Stage, Outcome
<1>1. CASE Heartbeat(p, j)
  BY <1>1 DEF Heartbeat, ExecTypeOK
<1>2. CASE LoseLease(p, j) \/ StopJob(p, j)
  BY <1>2 DEF LoseLease, StopJob
<1>3. CASE Stop(p, j) \/ NoticeCancellation(p, j)
  <2>1. \A out \in Outcome : [session[p] EXCEPT !.at = "stopping", !.outcome = out] \in Session
    <3>1. session[p] \in Session
      OBVIOUS
    <3> HIDE DEF Outcome
    <3> QED
      BY <3>1 DEF Session
  <2> QED
    BY <2>1, <1>3 DEF Stop, NoticeCancellation
<1>4. CASE Checkpoint(p, j)
  <2>1. PICK c \in Ordinal, out \in Outcome : Become(p, [session[p] EXCEPT !.plan[c] = out])
    BY <1>4 DEF Checkpoint
  <2>2. [session[p] EXCEPT !.plan[c] = out] \in Session
    BY DEF Session, ChunkState
  <2> QED
    BY <2>1, <2>2
<1> QED
  BY <1>1, <1>2, <1>3, <1>4 DEF Stopping

\* Every step leaves programs with a well-formed memory.
LEMMA SessionNext ==
    ASSUME ExecTypeOK, [ExecNext]_execVars
    PROVE  TypeOK' /\ session' \in [Owner -> Session]
<1>0. TypeOK'
  BY StepIsStore, TypeNext DEF ExecTypeOK
<1>1. CASE \E p \in Owner, j \in Job :
              \/ Claiming(p, j) \/ Resume(p, j) \/ Preparing(p, j)
              \/ Transcribing(p, j) \/ Stopping(p, j)
  BY <1>0, <1>1, SessionClaiming, SessionResume, SessionPreparing, SessionTranscribing,
     SessionStopping
<1>2. CASE \E p \in Owner : Launch(p) \/ Recover(p) \/ FindNothing(p) \/ Crash(p)
  <2>1. At("idle", NoJob) \in Session /\ At("off", NoJob) \in Session
    BY FreshSession DEF Stage
  <2> QED
    BY <1>0, <1>2, <2>1, SessionTyped DEF Launch, Recover, FindNothing, Crash, ExecTypeOK
<1>3. CASE User \/ Clock \/ UNCHANGED execVars
  BY <1>0, <1>3 DEF User, Clock, execVars, ExecTypeOK
<1> QED
  BY <1>1, <1>2, <1>3 DEF ExecNext

\* The rows of the recognizer and the attempts keep their types.
LEMMA RowsNext ==
    ASSUME ExecTypeOK, [ExecNext]_execVars
    PROVE  /\ rows'  \in [Job -> [Ordinal -> {"none", "partial", "final"}]]
           /\ tried' \in [Job -> SUBSET Ordinal]
<1> DEFINE Row == [Ordinal -> {"none", "partial", "final"}]
<1>0. NoRows \in Row
  BY DEF NoRows
<1>1. /\ rows \in [Job -> Row]
      /\ tried \in [Job -> SUBSET Ordinal]
  BY DEF ExecTypeOK
<1>2. CASE RowsStay \/ RowsFollow \/ UNCHANGED execVars
  BY <1>0, <1>1, <1>2 DEF RowsStay, RowsFollow, execVars
<1>3. ASSUME NEW p \in Owner, NEW j \in Job, NewChunkRows(p, j)
      PROVE  rows' \in [Job -> Row] /\ tried' \in [Job -> SUBSET Ordinal]
  BY <1>0, <1>1, <1>3 DEF NewChunkRows
<1>4. ASSUME NEW p \in Owner, NEW j \in Job, ResetChunk(p, j) \/ StartChunk(p, j)
      PROVE  rows' \in [Job -> Row] /\ tried' \in [Job -> SUBSET Ordinal]
  <2>1. \E S \in SUBSET Ordinal : tried' = [tried EXCEPT ![j] = S]
    BY <1>1, <1>4 DEF ResetChunk, StartChunk
  <2> QED
    BY <1>1, <1>4, <2>1 DEF ResetChunk, StartChunk
<1>5. ASSUME NEW p \in Owner, NEW j \in Job, SavePartial(p, j) \/ SaveFinal(p, j)
      PROVE  rows' \in [Job -> Row] /\ tried' \in [Job -> SUBSET Ordinal]
  <2>1. \E what \in {"partial", "final"} : StoreRows(p, j, what)
    BY <1>5 DEF SavePartial, SaveFinal
  <2>2. PICK what \in {"partial", "final"} : StoreRows(p, j, what)
    BY <2>1
  <2>3. [c \in Ordinal |-> IF c \in Current(p) THEN what ELSE rows[j][c]] \in Row
    BY <1>1
  <2> QED
    BY <1>1, <2>2, <2>3 DEF StoreRows
<1>6. ASSUME NEW p \in Owner, NEW j \in Job, Complete(p, j)
      PROVE  rows' \in [Job -> Row] /\ tried' \in [Job -> SUBSET Ordinal]
  <2>1. /\ rows' = [k \in Job |-> IF k \in Superseded(j) THEN NoRows ELSE rows[k]]
        /\ tried' = tried
    BY <1>6 DEF Complete
  <2>2. \A k \in Job : (IF k \in Superseded(j) THEN NoRows ELSE rows[k]) \in Row
    BY <1>0, <1>1
  <2> HIDE DEF Row
  <2> QED
    BY <1>1, <2>1, <2>2
<1>7. CASE \E p \in Owner, j \in Job : Claiming(p, j) \/ Stopping(p, j)
  <2>1. PICK p \in Owner, j \in Job : Claiming(p, j) \/ Stopping(p, j)
    BY <1>7
  <2>2. CASE Claiming(p, j)
    BY <1>2, <2>2 DEF Claiming, ClaimNext, BeginNew, StorePlan, ClaimOwn, GiveUp
  <2>3. CASE Stopping(p, j)
    BY <1>2, <2>3 DEF Stopping, Heartbeat, LoseLease, Stop, NoticeCancellation, Checkpoint, StopJob
  <2> QED
    BY <2>1, <2>2, <2>3
<1>8. CASE \E p \in Owner, j \in Job : Resume(p, j) \/ Preparing(p, j) \/ Transcribing(p, j)
  <2>1. PICK p \in Owner, j \in Job : Resume(p, j) \/ Preparing(p, j) \/ Transcribing(p, j)
    BY <1>8
  <2>2. CASE Resume(p, j)
    BY <1>2, <1>4, <2>2 DEF Resume, BeginResume, RequeueToResume, ResetDone, ResetFails
  <2>3. CASE Preparing(p, j)
    BY <1>2, <1>3, <2>3 DEF Preparing, Advance, KeepPlan, MakePlan, Replan, BeginTranscription
  <2>4. CASE Transcribing(p, j)
    BY <1>2, <1>4, <1>5, <1>6, <2>4 DEF Transcribing, FinishChunk, Finalize
  <2> QED
    BY <2>1, <2>2, <2>3, <2>4
<1>9. CASE \E p \in Owner : Launch(p) \/ Recover(p) \/ FindNothing(p) \/ Crash(p)
  BY <1>2, <1>9 DEF Launch, Recover, FindNothing, Crash
<1>10. CASE User \/ Clock
  BY <1>2, <1>10 DEF User, Clock
<1> QED
  BY <1>2, <1>7, <1>8, <1>9, <1>10 DEF ExecNext

\* Programs, rows and the database are well typed in every reachable state.
THEOREM ExecTypeCorrect == ExecSpec => []ExecTypeOK
<1>1. ExecInit => ExecTypeOK
  <2>1. At("off", NoJob) \in Session
    BY FreshSession DEF Stage
  <2> QED
    BY <2>1, TypeInit DEF ExecInit, ExecTypeOK, NoRows
<1>2. ExecTypeOK /\ [ExecNext]_execVars => ExecTypeOK'
  BY SessionNext, RowsNext DEF ExecTypeOK
<1> QED
  BY <1>1, <1>2, PTL DEF ExecSpec

-----------------------------------------------------------------------------
(* A chunk is completed in two transactions, its final text first. No crash,
 * takeover, resume, deletion or second program comes between them in a way
 * that leaves a completed chunk without its final text. *)

\* p is named by the lease row, expired or not, as the executor of j.
Owns(j, p) == Leased(j) /\ lease.owner = p

\* p is between the start and the completion of a chunk of a job it owns.
Hand == {"transcribing", "saved"}
InHand(p) == session[p].at \in Hand /\ Owns(session[p].job, p)

\* The chunk a program has in hand is not completed in the database, and its
\* text is final once it is saved.  Leases that ran out are included: the
\* clock may be set back and the program go on.
HandOK(p) ==
    InHand(p) => \A c \in Current(p) :
        /\ chunks[session[p].job][c] # "Completed"
        /\ session[p].at = "saved" => rows[session[p].job][c] = "final"
ChunkInHand == \A p \in Owner : HandOK(p)

\* A job without a row has no chunk rows.
GoneHasNoChunks == \A j \in Job : state[j] \in {"unborn", "deleted"} => chunks[j] = NoPlan

-----------------------------------------------------------------------------
(* What transactions of the store leave alone. *)

\* No chunk becomes completed.
NoNewCompletion ==
    \A j \in Job, c \in Ordinal : chunks'[j][c] = "Completed" => chunks[j][c] = "Completed"

\* A completed job is completed until it is deleted.
CompletedStays == \A j \in Job : state[j] = "Completed" => state'[j] \in {"Completed", "deleted"}

\* Recovery completes no chunk.
LEMMA RecoveryCompletesNothing ==
    ASSUME TypeOK, NEW S, NEW j \in Job, NEW c \in Ordinal,
           RecoveredChunks(S)[j][c] = "Completed"
    PROVE  chunks[j][c] = "Completed"
  BY DEF RecoveredChunks, ChunkAfterLoss

\* Neither do claims, recovery, users and the clock.
LEMMA OthersCompleteNothing ==
    ASSUME TypeOK
    PROVE  /\ \A j \in Job, o \in Owner : Claim(j, o) => NoNewCompletion
           /\ MarkRunningJobsInterrupted \/ ClaimFindsNothing => NoNewCompletion
           /\ \A j \in Job : Request(j) => NoNewCompletion
           /\ (\E r \in Recording : Library(r)) \/ ClearCompleted => NoNewCompletion
           /\ Tick \/ ClockStepsBack \/ UNCHANGED vars => NoNewCompletion
<1>1. ASSUME NEW S, chunks' = RecoveredChunks(S)
      PROVE  NoNewCompletion
  BY <1>1, RecoveryCompletesNothing DEF NoNewCompletion
<1>2. \A j \in Job, o \in Owner : Claim(j, o) => NoNewCompletion
  BY <1>1 DEF Claim
<1>3. MarkRunningJobsInterrupted \/ ClaimFindsNothing => NoNewCompletion
  BY <1>1 DEF MarkRunningJobsInterrupted, ClaimFindsNothing
<1>4. UNCHANGED chunks => NoNewCompletion
  BY DEF NoNewCompletion
<1>5. ASSUME NEW S, DeleteJobs(S)
      PROVE  NoNewCompletion
  BY <1>5 DEF DeleteJobs, NoPlan, NoNewCompletion
<1>6. ASSUME NEW j \in Job, ReplaceChunksWhileQueued(j)
      PROVE  NoNewCompletion
  BY <1>6 DEF ReplaceChunksWhileQueued, Plan, NoNewCompletion, TypeOK
<1>7. \A j \in Job : Request(j) => NoNewCompletion
  BY <1>4, <1>5, <1>6 DEF Request, CreateQueued, RequestCancellation, CancelWithoutExecutor, Requeue,
     SaveEditedTranscript, DeleteTerminalJob
<1>8. (\E r \in Recording : Library(r)) \/ ClearCompleted => NoNewCompletion
  BY <1>4, <1>5 DEF Library, MoveToTrash, Restore, PermanentlyDelete, ClearCompleted
<1>9. Tick \/ ClockStepsBack \/ UNCHANGED vars => NoNewCompletion
  BY <1>4 DEF Tick, ClockStepsBack, vars
<1> QED
  BY <1>2, <1>3, <1>7, <1>8, <1>9

\* Nor do an executor's other writes.
LEMMA WritesCompleteNothing ==
    ASSUME TypeOK, NEW j \in Job, NEW o \in Owner
    PROVE  /\ RenewLease(j, o) \/ CompleteAndActivate(j, o) \/ ReplaceChunk(j, o) => NoNewCompletion
           /\ \A s : AdvanceStage(j, s, o) \/ StopExecution(j, s, o) => NoNewCompletion
           /\ ReplaceChunks(j, o) => NoNewCompletion
           /\ \A c \in Ordinal, s \in ChunkState \ {"Completed"} :
                  UpdateChunk(j, c, s, o) => NoNewCompletion
<1>1. UNCHANGED chunks => NoNewCompletion
  BY DEF NoNewCompletion
<1>2. RenewLease(j, o) \/ CompleteAndActivate(j, o) \/ ReplaceChunk(j, o) => NoNewCompletion
  BY <1>1 DEF RenewLease, CompleteAndActivate, ReplaceChunk
<1>3. \A s : AdvanceStage(j, s, o) \/ StopExecution(j, s, o) => NoNewCompletion
  BY <1>1 DEF AdvanceStage, StopExecution
<1>4. ReplaceChunks(j, o) => NoNewCompletion
  BY DEF ReplaceChunks, Plan, NoNewCompletion, TypeOK
<1>5. \A c \in Ordinal, s \in ChunkState \ {"Completed"} :
          UpdateChunk(j, c, s, o) => NoNewCompletion
  BY DEF UpdateChunk, NoNewCompletion, TypeOK
<1> QED
  BY <1>2, <1>3, <1>4, <1>5

\* A completed job stays completed until it is deleted.
LEMMA CompletedStaysNext ==
    ASSUME TypeOK, ExecutionIsLeased, [Next]_vars
    PROVE  CompletedStays
<1>1. ASSUME NEW j \in Job, NEW o \in Owner, Execute(j, o)
      PROVE  CompletedStays
  <2>1. Holds(j, o)
    BY <1>1 DEF Execute, RenewLease, AdvanceStage, StopExecution, CompleteAndActivate, ReplaceChunks,
           UpdateChunk, ReplaceChunk
  <2>2. state[j] # "Completed"
    BY <2>1, RunningStates, LeasedJobByJob DEF Holds, LiveOn, LeaseLive, Leased
  <2>3. \A k \in Job \ {j} : state'[k] = state[k]
    BY <1>1 DEF Execute, RenewLease, AdvanceStage, StopExecution, CompleteAndActivate, ReplaceChunks,
           UpdateChunk, ReplaceChunk, TypeOK
  <2> QED
    BY <2>2, <2>3 DEF CompletedStays
<1>2. ASSUME NEW j \in Job, NEW o \in Owner, ClaimNextQueued(j, o) \/ ClaimQueued(j, o)
      PROVE  CompletedStays
  BY <1>2, RecoveryTyped, RecoverySparesCompleted
     DEF ClaimNextQueued, ClaimQueued, Claim, Expired, CompletedStays
<1>3. CASE MarkRunningJobsInterrupted \/ ClaimFindsNothing
  BY <1>3, RecoverySparesCompleted
     DEF MarkRunningJobsInterrupted, ClaimFindsNothing, Expired, Abandoned, CompletedStays
<1>4. ASSUME NEW S, DeleteJobs(S)
      PROVE  CompletedStays
  BY <1>4 DEF DeleteJobs, CompletedStays
<1>5. UNCHANGED state => CompletedStays
  BY DEF CompletedStays
<1>6. ASSUME NEW j \in Job, Request(j)
      PROVE  CompletedStays
  <2>1. CASE \E hide \in BOOLEAN : CreateQueued(j, hide)
    BY <2>1 DEF CreateQueued, CompletedStays, TypeOK
  <2>2. CASE RequestCancellation(j)
    BY <2>2, RunningStates DEF RequestCancellation, CompletedStays, TypeOK
  <2>3. CASE CancelWithoutExecutor(j) \/ Requeue(j)
    BY <2>3 DEF CancelWithoutExecutor, Requeue, CompletedStays, TypeOK
  <2>4. CASE ReplaceChunksWhileQueued(j) \/ \E t \in Text : SaveEditedTranscript(j, t)
    BY <2>4, <1>5 DEF ReplaceChunksWhileQueued, SaveEditedTranscript
  <2>5. CASE DeleteTerminalJob(j)
    BY <2>5, <1>4, <1>5 DEF DeleteTerminalJob
  <2> QED
    BY <1>6, <2>1, <2>2, <2>3, <2>4, <2>5 DEF Request
<1>7. CASE (\E r \in Recording : Library(r)) \/ ClearCompleted
  BY <1>7, <1>4, <1>5 DEF Library, MoveToTrash, Restore, PermanentlyDelete, ClearCompleted
<1>8. CASE Tick \/ ClockStepsBack \/ UNCHANGED vars
  BY <1>8, <1>5 DEF Tick, ClockStepsBack, vars
<1> QED
  BY <1>1, <1>2, <1>3, <1>6, <1>7, <1>8 DEF Next

\* Chunk rows go with their job, and come only to jobs that have a row.
LEMMA GoneHasNoChunksNext ==
    ASSUME TypeOK, TypeOK', ExecutionIsLeased, GoneHasNoChunks, [Next]_vars
    PROVE  GoneHasNoChunks'
<1> DEFINE Gone(s) == s \in {"unborn", "deleted"}
<1>0. \A s : Gone(s) => ~IsRunning(s) /\ s # "Queued"
  BY RunningStates
<1>1. ASSUME NEW j \in Job, NEW o \in Owner, Execute(j, o)
      PROVE  GoneHasNoChunks'
  <2>1. Holds(j, o)
    BY <1>1 DEF Execute, RenewLease, AdvanceStage, StopExecution, CompleteAndActivate, ReplaceChunks,
           UpdateChunk, ReplaceChunk
  <2>2. ~Gone(state[j])
    BY <1>0, <2>1, LeasedJobByJob DEF Holds, LiveOn, LeaseLive, Leased
  <2>3. \A k \in Job \ {j} : state'[k] = state[k] /\ chunks'[k] = chunks[k]
    BY <1>1 DEF Execute, RenewLease, AdvanceStage, StopExecution, CompleteAndActivate, ReplaceChunks,
           UpdateChunk, ReplaceChunk, TypeOK
  <2>4. ~Gone(state'[j])
    BY <1>1, <2>2 DEF Execute, RenewLease, AdvanceStage, StopExecution, CompleteAndActivate,
           ReplaceChunks, UpdateChunk, ReplaceChunk, TypeOK, ExecutingState
  <2> QED
    BY <2>3, <2>4 DEF GoneHasNoChunks
<1>2. ASSUME NEW S, S \subseteq Running
      PROVE  \A k \in Job : Gone(RecoveredState(S)[k]) =>
                 Gone(state[k]) /\ RecoveredChunks(S)[k] = chunks[k]
  BY <1>0, <1>2 DEF RecoveredState, RecoveredChunks, StateAfterLoss, Running
<1>3. Expired \subseteq Running /\ Abandoned \subseteq Running
  BY DEF Expired, Abandoned
<1>4. ASSUME NEW j \in Job, NEW o \in Owner, ClaimNextQueued(j, o) \/ ClaimQueued(j, o)
      PROVE  GoneHasNoChunks'
  <2>1. state' = [RecoveredState(Expired) EXCEPT ![j] = "Preparing"] /\ chunks' = RecoveredChunks(Expired)
    BY <1>4 DEF ClaimNextQueued, ClaimQueued, Claim
  <2>2. \A k \in Job : Gone(state'[k]) => Gone(RecoveredState(Expired)[k])
    BY <2>1, RecoveryTyped
  <2> QED
    BY <1>2, <1>3, <2>1, <2>2 DEF GoneHasNoChunks
<1>5. CASE MarkRunningJobsInterrupted \/ ClaimFindsNothing
  BY <1>2, <1>3, <1>5 DEF MarkRunningJobsInterrupted, ClaimFindsNothing, GoneHasNoChunks
<1>6. ASSUME NEW S, DeleteJobs(S)
      PROVE  GoneHasNoChunks'
  BY <1>6 DEF DeleteJobs, GoneHasNoChunks
<1>7. UNCHANGED <<state, chunks>> => GoneHasNoChunks'
  BY DEF GoneHasNoChunks
<1>8. ASSUME NEW j \in Job, Request(j)
      PROVE  GoneHasNoChunks'
  <2>1. CASE \E hide \in BOOLEAN : CreateQueued(j, hide)
    BY <2>1 DEF CreateQueued, GoneHasNoChunks, TypeOK
  <2>2. CASE RequestCancellation(j) \/ CancelWithoutExecutor(j) \/ Requeue(j)
    BY <2>2 DEF RequestCancellation, CancelWithoutExecutor, Requeue, GoneHasNoChunks, TypeOK
  <2>3. CASE ReplaceChunksWhileQueued(j)
    BY <2>3 DEF ReplaceChunksWhileQueued, GoneHasNoChunks, TypeOK
  <2>4. CASE DeleteTerminalJob(j) \/ \E t \in Text : SaveEditedTranscript(j, t)
    BY <2>4, <1>6, <1>7 DEF DeleteTerminalJob, SaveEditedTranscript
  <2> QED
    BY <1>8, <2>1, <2>2, <2>3, <2>4 DEF Request
<1>9. CASE (\E r \in Recording : Library(r)) \/ ClearCompleted
  BY <1>9, <1>6, <1>7 DEF Library, MoveToTrash, Restore, PermanentlyDelete, ClearCompleted
<1>10. CASE Tick \/ ClockStepsBack \/ UNCHANGED vars
  BY <1>10, <1>7 DEF Tick, ClockStepsBack, vars
<1> QED
  BY <1>1, <1>4, <1>5, <1>8, <1>9, <1>10 DEF Next

\* Nobody becomes an owner.
NoNewOwner == \A q \in Owner, k \in Job : Owns(k, q)' => Owns(k, q)

\* A lease row that stays, goes, or keeps its job and owner makes no owner.
LEMMA OwnershipKept ==
    ASSUME TypeOK, TypeOK'
    PROVE  /\ UNCHANGED lease => NoNewOwner
           /\ lease' = NoLease => NoNewOwner
           /\ lease # NoLease /\ lease'.job = lease.job /\ lease'.owner = lease.owner => NoNewOwner
  BY DEF NoNewOwner, Owns, Leased

\* Recovery, requests, deletions and the clock make no owner.
LEMMA OthersOwnNothing ==
    ASSUME TypeOK, TypeOK'
    PROVE  /\ MarkRunningJobsInterrupted \/ ClaimFindsNothing => NoNewOwner
           /\ \A j \in Job : Request(j) => NoNewOwner
           /\ (\E r \in Recording : Library(r)) \/ ClearCompleted => NoNewOwner
           /\ Tick \/ ClockStepsBack \/ UNCHANGED vars => NoNewOwner
<1> USE OwnershipKept
<1>1. MarkRunningJobsInterrupted \/ ClaimFindsNothing => NoNewOwner
  BY DEF MarkRunningJobsInterrupted, ClaimFindsNothing
<1>2. ASSUME NEW S, DeleteJobs(S)
      PROVE  NoNewOwner
  BY <1>2 DEF DeleteJobs
<1>3. \A j : lease' = LeaseWithout(j) => NoNewOwner
  BY DEF LeaseWithout
<1>4. \A j \in Job : Request(j) => NoNewOwner
  BY <1>2, <1>3 DEF Request, CreateQueued, ReplaceChunksWhileQueued, RequestCancellation,
     CancelWithoutExecutor, Requeue, SaveEditedTranscript, DeleteTerminalJob
<1>5. (\E r \in Recording : Library(r)) \/ ClearCompleted => NoNewOwner
  BY <1>2 DEF Library, MoveToTrash, Restore, PermanentlyDelete, ClearCompleted
<1>6. ASSUME NEW t, lease # NoLease, lease' = [lease EXCEPT !.ttl = t]
      PROVE  NoNewOwner
  <2>1. lease \in Lease
    BY <1>6 DEF TypeOK
  <2>2. lease'.job = lease.job /\ lease'.owner = lease.owner
    BY <1>6, <2>1 DEF Lease
  <2> QED
    BY <1>6, <2>2
<1>7. Tick \/ ClockStepsBack \/ UNCHANGED vars => NoNewOwner
  BY <1>6 DEF Tick, ClockStepsBack, LeaseLive, vars
<1> QED
  BY <1>1, <1>4, <1>5, <1>7

\* Nor does a write under the lease.
LEMMA WritesOwnNothing ==
    ASSUME TypeOK, TypeOK', NEW j \in Job, NEW o \in Owner, Execute(j, o)
    PROVE  NoNewOwner /\ Owns(j, o)
<1> USE OwnershipKept
<1>1. Holds(j, o)
  BY DEF Execute, RenewLease, AdvanceStage, StopExecution, CompleteAndActivate, ReplaceChunks,
         UpdateChunk, ReplaceChunk
<1>2. Owns(j, o)
  BY <1>1 DEF Holds, LiveOn, LeaseLive, Owns, Leased
<1>3. CASE RenewLease(j, o)
  <2>1. lease \in Lease /\ lease' = [lease EXCEPT !.ttl = LeaseTTL] /\ lease # NoLease
    BY <1>3 DEF RenewLease, Holds, LiveOn, LeaseLive, TypeOK
  <2>2. lease'.job = lease.job /\ lease'.owner = lease.owner
    BY <2>1 DEF Lease
  <2> QED
    BY <1>2, <2>1, <2>2
<1>4. lease' = LeaseWithout(j) => NoNewOwner
  BY DEF LeaseWithout
<1> QED
  BY <1>2, <1>3, <1>4 DEF Execute, AdvanceStage, StopExecution, CompleteAndActivate, ReplaceChunks,
     UpdateChunk, ReplaceChunk

-----------------------------------------------------------------------------
(* Steps that neither complete a chunk nor touch the recognizer's rows. *)

\* The recognizer's rows go only with their job.
RowsKept == \A j \in Job : state'[j] # "deleted" => rows'[j] = rows[j]

\* What q has in hand it had in hand before.
SameHand(q) ==
    InHand(q)' => /\ InHand(q)
                  /\ session'[q].at = session[q].at
                  /\ session'[q].job = session[q].job
                  /\ session'[q].next = session[q].next

\* What holds of every step before its own action is looked at.
StepContext ==
    /\ ExecTypeOK /\ ExecTypeOK'
    /\ ExecutionIsLeased /\ ExecutionIsLeased'
    /\ GoneHasNoChunks' /\ CompletedStays
    /\ CompletedChunkIsSaved /\ ChunkInHand

\* A job in hand is a job that runs.
LEMMA HandRuns ==
    ASSUME StepContext, NEW p \in Owner, InHand(p)'
    PROVE  /\ session'[p].job \in Job /\ state'[session'[p].job] # "deleted"
           /\ lease' # NoLease /\ lease'.job = session'[p].job /\ lease'.owner = p
<1>1. lease' # NoLease /\ lease'.job = session'[p].job /\ lease'.owner = p
  BY DEF InHand, Owns, Leased
<1>2. lease'.job \in Job
  BY <1>1 DEF StepContext, ExecTypeOK, TypeOK, Lease
<1>3. \A k \in Job : lease'.job = k => Leased(k)'
  BY <1>1 DEF Leased
<1>4. \A k \in Job : lease'.job = k => IsRunning(state'[k])
  BY <1>3, LeasedJobByJobPrime DEF StepContext, ExecTypeOK
<1>5. IsRunning(state'[lease'.job])
  BY <1>2, <1>4
<1> QED
  BY <1>1, <1>2, <1>5, RunningStates

\* A chunk in hand that no step touches.
LEMMA HandKept ==
    ASSUME StepContext, NoNewCompletion, RowsKept, NEW p \in Owner, SameHand(p)
    PROVE  HandOK(p)'
<1> SUFFICES ASSUME InHand(p)', NEW c \in Current(p)'
             PROVE  /\ chunks'[session'[p].job][c] # "Completed"
                    /\ session'[p].at = "saved" => rows'[session'[p].job][c] = "final"
  BY DEF HandOK
<1> DEFINE j == session[p].job
<1>1. /\ InHand(p)
      /\ session'[p].at = session[p].at
      /\ session'[p].job = j
      /\ session'[p].next = session[p].next
  BY DEF SameHand
<1>2. c \in Current(p) /\ c \in Ordinal
  BY <1>1 DEF Current
<1>3. j \in Job /\ state'[j] # "deleted"
  BY <1>1, HandRuns
<1>4. /\ chunks[j][c] # "Completed"
      /\ session[p].at = "saved" => rows[j][c] = "final"
  BY <1>1, <1>2 DEF StepContext, ChunkInHand, HandOK
<1> QED
  BY <1>1, <1>2, <1>3, <1>4 DEF NoNewCompletion, RowsKept

\* Completed chunks that no step touches.
LEMMA SavedKept ==
    ASSUME StepContext, NoNewCompletion, RowsKept
    PROVE  CompletedChunkIsSaved'
<1>1. \A j \in Job : state'[j] = "deleted" => \A c \in Ordinal : chunks'[j][c] # "Completed"
  BY DEF StepContext, GoneHasNoChunks, NoPlan
<1> QED
  BY <1>1 DEF StepContext, CompletedChunkIsSaved, NoNewCompletion, CompletedStays, RowsKept

\* The database names one owner: under its writes nobody else has a chunk in hand.
LEMMA NoOtherHand ==
    ASSUME StepContext, NEW p \in Owner, NEW j \in Job, Execute(j, p), NEW q \in Owner \ {p}
    PROVE  HandOK(q)'
<1>1. NoNewOwner /\ Owns(j, p)
  BY WritesOwnNothing DEF StepContext, ExecTypeOK
<1>2. ~InHand(q)'
  <2> SUFFICES ASSUME InHand(q)' PROVE FALSE
    OBVIOUS
  <2>1. PICK k \in Job : k = lease'.job /\ lease' # NoLease /\ lease'.owner = q
    BY HandRuns
  <2>2. Owns(k, q)'
    BY <2>1 DEF Owns, Leased
  <2>3. Owns(k, q)
    BY <1>1, <2>2 DEF NoNewOwner
  <2> QED
    BY <1>1, <2>3 DEF Owns
<1> QED
  BY <1>2 DEF HandOK
\* What a step leaves of the checkpoints.
Checkpoints == CompletedChunkIsSaved /\ ChunkInHand

\* Programs other than p remember what they did.
OthersKeep(p) == \A q \in Owner \ {p} : session'[q] = session[q]

\* The two ways a program's memory changes.
LEMMA SessionFrame ==
    ASSUME ExecTypeOK, NEW p \in Owner
    PROVE  /\ \A s : Become(p, s) => OthersKeep(p) /\ session'[p] = s
           /\ \A a : Goto(p, a) => /\ OthersKeep(p)
                                   /\ session'[p].at = a
                                   /\ session'[p].job = session[p].job
                                   /\ session'[p].next = session[p].next
           /\ session[p] \in Session
  BY DEF ExecTypeOK, Become, Goto, OthersKeep, Session

\* A write under the lease that completes no chunk and keeps the rows, of a
\* program that has no chunk in hand afterwards.
LEMMA QuietWrite ==
    ASSUME StepContext, NoNewCompletion, RowsKept, NEW p \in Owner, NEW j \in Job, Execute(j, p),
           session'[p].at \notin Hand
    PROVE  Checkpoints'
<1>1. HandOK(p)'
  BY DEF HandOK, InHand
<1> QED
  BY <1>1, SavedKept, NoOtherHand DEF ChunkInHand, Checkpoints

\* Who remembers what it did, and became no owner, has in hand what it had.
LEMMA MemoryKept ==
    ASSUME StepContext, NoNewOwner, NEW q \in Owner, session'[q] = session[q]
    PROVE  SameHand(q)
<1> SUFFICES ASSUME InHand(q)' PROVE InHand(q)
  BY DEF SameHand
<1>1. PICK k \in Job : k = lease'.job /\ lease' # NoLease /\ lease'.owner = q /\ k = session[q].job
  BY HandRuns
<1>2. Owns(k, q)'
  BY <1>1 DEF Owns, Leased
<1>3. Owns(k, q)
  BY <1>2 DEF NoNewOwner
<1> QED
  BY <1>1, <1>3 DEF InHand

\* A step that makes no owner, completes no chunk and keeps the rows, after
\* which p has no chunk in hand or remembers what it did.
LEMMA QuietStep ==
    ASSUME StepContext, NoNewCompletion, NoNewOwner, RowsKept, NEW p \in Owner, OthersKeep(p),
           session'[p].at \notin Hand \/ session'[p] = session[p]
    PROVE  Checkpoints'
<1>1. ASSUME NEW q \in Owner, session'[q] = session[q]
      PROVE  HandOK(q)'
  BY <1>1, MemoryKept, HandKept
<1>2. session'[p].at \notin Hand => HandOK(p)'
  BY DEF HandOK, InHand
<1>3. ChunkInHand'
  BY <1>1, <1>2 DEF ChunkInHand, OthersKeep
<1> QED
  BY <1>3, SavedKept DEF Checkpoints

\* A claim takes what others had in hand, and its program has nothing in hand.
LEMMA QuietClaim ==
    ASSUME StepContext, NEW p \in Owner, NEW j \in Job, Claim(j, p), RowsKept, session'[p].at \notin Hand
    PROVE  Checkpoints'
<1>1. NoNewCompletion
  BY OthersCompleteNothing DEF StepContext, ExecTypeOK
<1>2. lease'.owner = p
  BY DEF Claim
<1>3. ASSUME NEW q \in Owner
      PROVE  HandOK(q)'
  <2>1. CASE q = p
    BY <2>1 DEF HandOK, InHand
  <2>2. CASE q # p
    BY <2>2, <1>2, HandRuns DEF HandOK
  <2> QED
    BY <2>1, <2>2
<1> QED
  BY <1>1, <1>3, SavedKept DEF ChunkInHand, Checkpoints

\* Rows that stay, or go with the job, are kept.
LEMMA RowsAreKept == ExecTypeOK /\ (RowsStay \/ RowsFollow \/ rows' = rows) => RowsKept
  BY DEF RowsStay, RowsFollow, RowsKept, ExecTypeOK

-----------------------------------------------------------------------------
(* The steps of a program. *)

\* Claiming.
LEMMA CheckpointsClaiming ==
    ASSUME StepContext, NEW p \in Owner, NEW j \in Job, Claiming(p, j)
    PROVE  Checkpoints'
<1> USE SessionFrame, RowsAreKept DEF Hand
<1>0. ExecTypeOK /\ TypeOK /\ TypeOK'
  BY DEF StepContext, ExecTypeOK
<1>1. CASE ClaimNext(p, j)
  <2>1. Claim(j, p) /\ RowsKept /\ session'[p] = At("preparing", j)
    BY <1>0, <1>1 DEF ClaimNext, ClaimNextQueued
  <2> QED
    BY <2>1, QuietClaim DEF At
<1>2. CASE BeginNew(p, j) \/ StorePlan(p, j)
  <2>1. Request(j)
    BY <1>2 DEF BeginNew, StorePlan, Request
  <2>2. NoNewOwner /\ NoNewCompletion
    BY <1>0, <2>1, OthersCompleteNothing, OthersOwnNothing
  <2>3. OthersKeep(p) /\ session'[p].at \notin Hand
    <3>1. CASE BeginNew(p, j)
      BY <1>0, <3>1 DEF BeginNew, At
    <3>2. CASE StorePlan(p, j)
      <4>1. OthersKeep(p) /\ session'[p] = [At("waiting", j) EXCEPT !.plan = chunks'[j]]
        BY <1>0, <3>2 DEF StorePlan
      <4> QED
        BY <4>1 DEF At
    <3> QED
      BY <1>2, <3>1, <3>2
  <2>4. RowsKept
    BY <1>0, <1>2 DEF BeginNew, StorePlan
  <2> QED
    BY <2>2, <2>3, <2>4, QuietStep
<1>3. CASE ClaimOwn(p, j)
  <2>1. Claim(j, p) /\ RowsKept
    BY <1>0, <1>3 DEF ClaimOwn, ClaimQueued
  <2>2. session'[p].at \in {"preparing", "resetting"}
    BY <1>0, <1>3 DEF ClaimOwn
  <2> QED
    BY <2>1, <2>2, QuietClaim
<1>4. CASE GiveUp(p, j)
  <2>1. UNCHANGED vars /\ RowsKept /\ OthersKeep(p) /\ session'[p] = Ended(p)
    BY <1>0, <1>4 DEF GiveUp
  <2>2. NoNewOwner /\ NoNewCompletion
    BY <1>0, <2>1, OthersCompleteNothing, OthersOwnNothing
  <2>3. session'[p].at \notin Hand
    BY <2>1 DEF Ended, At
  <2> QED
    BY <2>1, <2>2, <2>3, QuietStep
<1> QED
  BY <1>1, <1>2, <1>3, <1>4 DEF Claiming
\* Resuming.
LEMMA CheckpointsResume ==
    ASSUME StepContext, NEW p \in Owner, NEW j \in Job, Resume(p, j)
    PROVE  Checkpoints'
<1> USE SessionFrame, RowsAreKept DEF Hand
<1>0. ExecTypeOK /\ TypeOK /\ TypeOK' /\ session[p] \in Session
  BY DEF StepContext, ExecTypeOK
<1>1. UNCHANGED vars => NoNewOwner /\ NoNewCompletion
  BY <1>0, OthersCompleteNothing, OthersOwnNothing
<1>2. CASE BeginResume(p, j)
  <2>1. /\ UNCHANGED vars /\ RowsKept /\ OthersKeep(p)
        /\ session'[p] = [At("requeueing", j) EXCEPT !.plan = chunks[j], !.tried = tried[j]]
    BY <1>0, <1>2 DEF BeginResume
  <2>2. session'[p].at = "requeueing"
    BY <2>1 DEF At
  <2> QED
    BY <1>1, <2>1, <2>2, QuietStep
<1>3. CASE RequeueToResume(p, j)
  <2>1. Request(j) /\ RowsKept /\ OthersKeep(p) /\ session'[p].at = "rewaiting"
    BY <1>0, <1>3 DEF RequeueToResume, Request
  <2>2. NoNewOwner /\ NoNewCompletion
    BY <1>0, <2>1, OthersCompleteNothing, OthersOwnNothing
  <2> QED
    BY <2>1, <2>2, QuietStep
<1>4. CASE ResetChunk(p, j)
  <2>1. PICK c \in Ordinal :
            /\ UpdateChunk(j, c, "Pending", p)
            /\ Become(p, [session[p] EXCEPT !.plan[c] = "Pending", !.next = c + 1])
    BY <1>4 DEF ResetChunk
  <2>2. Execute(j, p) /\ NoNewCompletion
    BY <1>0, <2>1, WritesCompleteNothing DEF Execute, ChunkState
  <2>3. session'[p].at = "resetting"
    <3>1. session'[p] = [session[p] EXCEPT !.plan[c] = "Pending", !.next = c + 1]
      BY <1>0, <2>1
    <3>2. session[p].at = "resetting"
      BY <1>4 DEF ResetChunk, Is
    <3> QED
      BY <1>0, <3>1, <3>2 DEF Session
  <2>4. RowsKept
    BY <1>0, <1>4 DEF ResetChunk
  <2> QED
    BY <2>2, <2>3, <2>4, QuietWrite
<1>5. CASE ResetDone(p, j)
  <2>1. /\ UNCHANGED vars /\ RowsKept /\ OthersKeep(p)
        /\ session'[p] = [session[p] EXCEPT !.at = "preparing", !.next = 0]
    BY <1>0, <1>5 DEF ResetDone
  <2>2. session'[p].at = "preparing"
    BY <1>0, <2>1 DEF Session
  <2> QED
    BY <1>1, <2>1, <2>2, QuietStep
<1>6. CASE ResetFails(p, j)
  <2>1. RowsKept /\ OthersKeep(p) /\ session'[p] = Ended(p)
    BY <1>0, <1>6 DEF ResetFails
  <2>2. session'[p].at \notin Hand
    BY <2>1 DEF Ended, At
  <2>3. CASE UNCHANGED vars
    BY <1>1, <2>1, <2>2, <2>3, QuietStep
  <2>4. CASE StopExecution(j, "Interrupted", p)
    BY <1>0, <2>1, <2>2, <2>4, QuietWrite, WritesCompleteNothing DEF Execute
  <2> QED
    BY <1>6, <2>3, <2>4 DEF ResetFails
<1> QED
  BY <1>2, <1>3, <1>4, <1>5, <1>6 DEF Resume

\* Preparing.  A new plan has new rows and no completed chunk.
LEMMA CheckpointsPreparing ==
    ASSUME StepContext, NEW p \in Owner, NEW j \in Job, Preparing(p, j)
    PROVE  Checkpoints'
<1> USE SessionFrame, RowsAreKept DEF Hand
<1>0. ExecTypeOK /\ ExecTypeOK' /\ TypeOK /\ TypeOK' /\ session[p] \in Session
  BY DEF StepContext, ExecTypeOK
<1>1. CASE Advance(p, j)
  <2>1. PICK s \in ExecutingState : AdvanceStage(j, s, p)
    BY <1>1 DEF Advance, GuiStages, CliStages, ExecutingState
  <2>2. Execute(j, p) /\ NoNewCompletion
    BY <1>0, <2>1, WritesCompleteNothing DEF Execute
  <2>3. session[p].at \in {"preparing", "loading"}
    BY <1>1 DEF Advance, GuiStages, CliStages
  <2>4. session'[p].at \notin Hand /\ RowsKept
    BY <1>0, <1>1, <2>3 DEF Advance
  <2> QED
    BY <2>2, <2>4, QuietWrite
<1>2. CASE KeepPlan(p, j)
  <2>1. /\ UNCHANGED vars /\ RowsKept /\ OthersKeep(p)
        /\ session'[p] = [session[p] EXCEPT !.at = "loading", !.plan = chunks[j]]
    BY <1>0, <1>2 DEF KeepPlan
  <2>2. session'[p].at = "loading"
    BY <1>0, <2>1 DEF Session
  <2>3. NoNewOwner /\ NoNewCompletion
    BY <1>0, <2>1, OthersCompleteNothing, OthersOwnNothing
  <2> QED
    BY <2>1, <2>2, <2>3, QuietStep
<1>3. CASE MakePlan(p, j) \/ Replan(p, j)
  <2>1. session[p].at = "preparing" /\ ReplaceChunks(j, p) /\ NewChunkRows(p, j)
    BY <1>3 DEF MakePlan, Replan, Is
  <2>2. Execute(j, p)
    BY <2>1 DEF Execute
  <2>3. session'[p].at \in {"preparing", "loading"}
    <3>1. session'[p] = [session[p] EXCEPT !.plan = chunks'[j], !.tried = {}, !.current = TRUE,
                              !.at = IF p \in Gui THEN "loading" ELSE session[p].at]
      BY <1>0, <2>1 DEF NewChunkRows, Session
    <3>2. session'[p].at = IF p \in Gui THEN "loading" ELSE session[p].at
      BY <1>0, <3>1 DEF Session
    <3> QED
      BY <2>1, <3>2
  <2>4. HandOK(p)'
    BY <2>3 DEF HandOK, InHand
  <2>5. \A c \in Ordinal : chunks'[j][c] # "Completed"
    BY <1>0, <2>1 DEF ReplaceChunks, Plan, TypeOK
  <2>6. \A k \in Job \ {j} : chunks'[k] = chunks[k] /\ state'[k] = state[k] /\ rows'[k] = rows[k]
    BY <1>0, <2>1 DEF ReplaceChunks, NewChunkRows, TypeOK, ExecTypeOK
  <2>7. CompletedChunkIsSaved'
    BY <2>5, <2>6 DEF CompletedChunkIsSaved, StepContext
  <2> QED
    BY <2>2, <2>4, <2>7, NoOtherHand DEF ChunkInHand, Checkpoints
<1>4. CASE BeginTranscription(p, j)
  <2>1. Execute(j, p) /\ NoNewCompletion
    BY <1>0, <1>4, WritesCompleteNothing DEF BeginTranscription, Execute, ExecutingState
  <2>2. RowsKept /\ session'[p] = [session[p] EXCEPT !.at = "choosing", !.tried = {}]
    BY <1>0, <1>4 DEF BeginTranscription
  <2>3. session'[p].at = "choosing"
    BY <1>0, <2>2 DEF Session
  <2> QED
    BY <2>1, <2>2, <2>3, QuietWrite
<1> QED
  BY <1>1, <1>2, <1>3, <1>4 DEF Preparing
\* Transcribing.  The final text of a chunk is stored before the chunk is
\* completed, and the provisional text only of a chunk that is not.
LEMMA CheckpointsTranscribing ==
    ASSUME StepContext, NEW p \in Owner, NEW j \in Job, Transcribing(p, j)
    PROVE  Checkpoints'
<1> USE SessionFrame, RowsAreKept DEF Hand
<1>0. ExecTypeOK /\ ExecTypeOK' /\ TypeOK /\ TypeOK' /\ session[p] \in Session
  BY DEF StepContext, ExecTypeOK
<1>1. CASE StartChunk(p, j)
  <2>1. PICK c \in Ordinal :
            /\ UpdateChunk(j, c, "Running", p)
            /\ Become(p, [session[p] EXCEPT !.at = "transcribing", !.plan[c] = "Running",
                                            !.next = c + 1])
    BY <1>1 DEF StartChunk
  <2>2. Execute(j, p) /\ NoNewCompletion
    BY <1>0, <2>1, WritesCompleteNothing DEF Execute, ChunkState
  <2>3. session'[p] = [session[p] EXCEPT !.at = "transcribing", !.plan[c] = "Running",
                                         !.next = c + 1]
    BY <1>0, <2>1
  <2>4. session[p].job = j /\ RowsKept
    BY <1>0, <1>1 DEF StartChunk, Is
  <2>5. /\ session'[p].at = "transcribing" /\ session'[p].job = j
        /\ session'[p].next = c + 1
    BY <1>0, <2>3, <2>4 DEF Session
  <2>6. \A d \in Current(p)' : d = c
    BY <2>5 DEF Current, Ordinal
  <2>7. chunks'[j][c] = "Running"
    BY <1>0, <2>1 DEF UpdateChunk, TypeOK
  <2>8. HandOK(p)'
    BY <2>5, <2>6, <2>7 DEF HandOK
  <2> QED
    BY <2>2, <2>4, <2>8, SavedKept, NoOtherHand DEF ChunkInHand, Checkpoints
<1>2. CASE SavePartial(p, j) \/ SaveFinal(p, j)
  <2>1. PICK what \in {"partial", "final"} :
            /\ StoreRows(p, j, what)
            /\ session'[p].at = "saved" => what = "final"
    BY <1>0, <1>2 DEF SavePartial, SaveFinal, Is
  <2>2. Execute(j, p) /\ Owns(j, p)
    <3>1. Execute(j, p)
      BY <2>1 DEF StoreRows, Execute
    <3> QED
      BY <1>0, <3>1, WritesOwnNothing
  <2>3. InHand(p) /\ session[p].job = j
    BY <1>2, <2>2 DEF SavePartial, SaveFinal, Is, InHand
  <2>4. session'[p].job = j /\ session'[p].next = session[p].next
    BY <1>0, <1>2, <2>3 DEF SavePartial, SaveFinal
  <2>5. chunks' = chunks /\ state' = state
    BY <2>1 DEF StoreRows, ReplaceChunk
  <2>6. \A c \in Current(p) : c \in Ordinal /\ chunks[j][c] # "Completed"
    BY <2>3 DEF StepContext, ChunkInHand, HandOK, Current
  <2>7. /\ \A k \in Job \ {j} : rows'[k] = rows[k]
        /\ \A c \in Ordinal : rows'[j][c] = IF c \in Current(p) THEN what ELSE rows[j][c]
    BY <1>0, <2>1 DEF StoreRows, ExecTypeOK
  <2>8. CompletedChunkIsSaved'
    BY <2>5, <2>6, <2>7 DEF StepContext, CompletedChunkIsSaved
  <2>9. HandOK(p)'
    <3>1. \A c \in Current(p)' : c \in Current(p) /\ c \in Ordinal
      BY <2>4 DEF Current
    <3> QED
      BY <2>1, <2>4, <2>5, <2>6, <2>7, <3>1 DEF HandOK
  <2> QED
    BY <2>2, <2>8, <2>9, NoOtherHand DEF ChunkInHand, Checkpoints
<1>3. CASE FinishChunk(p, j)
  <2>1. PICK c \in Current(p) :
            /\ UpdateChunk(j, c, "Completed", p)
            /\ Become(p, [session[p] EXCEPT !.at = "choosing", !.plan[c] = "Completed"])
    BY <1>3 DEF FinishChunk
  <2>2. c \in Ordinal
    BY DEF Current
  <2>3. Execute(j, p)
    BY <2>1, <2>2 DEF Execute, ChunkState
  <2>4. Owns(j, p)
    BY <1>0, <2>3, WritesOwnNothing
  <2>5. rows[j][c] = "final"
    <3>1. session[p].at = "saved" /\ session[p].job = j
      BY <1>3 DEF FinishChunk, Is
    <3>2. InHand(p)
      BY <2>4, <3>1 DEF InHand
    <3> QED
      BY <3>1, <3>2 DEF StepContext, ChunkInHand, HandOK
  <2>6. session'[p].at = "choosing"
    <3>1. session'[p] = [session[p] EXCEPT !.at = "choosing", !.plan[c] = "Completed"]
      BY <1>0, <2>1
    <3> QED
      BY <1>0, <3>1 DEF Session
  <2>7. rows' = rows /\ state' = state
    BY <1>3, <2>1 DEF FinishChunk, RowsStay, UpdateChunk
  <2>8. \A k \in Job, d \in Ordinal :
            chunks'[k][d] = "Completed" => chunks[k][d] = "Completed" \/ (k = j /\ d = c)
    BY <1>0, <2>1, <2>2 DEF UpdateChunk, TypeOK
  <2>9. CompletedChunkIsSaved'
    BY <2>5, <2>7, <2>8 DEF StepContext, CompletedChunkIsSaved
  <2>10. HandOK(p)'
    BY <2>6 DEF HandOK, InHand
  <2> QED
    BY <2>3, <2>9, <2>10, NoOtherHand DEF ChunkInHand, Checkpoints
<1>4. CASE Finalize(p, j)
  <2>1. Execute(j, p) /\ NoNewCompletion
    BY <1>0, <1>4, WritesCompleteNothing DEF Finalize, Execute, ExecutingState
  <2>2. RowsKept /\ session'[p].at = "finalizing"
    BY <1>0, <1>4 DEF Finalize
  <2> QED
    BY <2>1, <2>2, QuietWrite
<1>5. CASE Complete(p, j)
  <2>1. CompleteAndActivate(j, p) /\ session'[p] = Ended(p)
    BY <1>0, <1>5 DEF Complete
  <2>2. Execute(j, p) /\ chunks' = chunks
    BY <2>1 DEF Execute, CompleteAndActivate
  <2>3. \A k \in Job : state'[k] # "Completed" =>
            state[k] # "Completed" /\ rows'[k] = rows[k]
    <3>1. \A k \in Job : state[k] = "Completed" => state'[k] # "deleted"
      BY <1>0, <2>1 DEF CompleteAndActivate, TypeOK
    <3>2. \A k \in Job : state[k] = "Completed" => state'[k] = "Completed"
      BY <3>1 DEF StepContext, CompletedStays
    <3>3. \A k \in Superseded(j) : state[k] = "Completed"
      BY DEF Superseded
    <3> QED
      BY <1>5, <3>2, <3>3 DEF Complete
  <2>4. CompletedChunkIsSaved'
    BY <2>2, <2>3 DEF StepContext, CompletedChunkIsSaved
  <2>5. HandOK(p)'
    BY <2>1 DEF HandOK, InHand, Ended, At
  <2> QED
    BY <2>2, <2>4, <2>5, NoOtherHand DEF ChunkInHand, Checkpoints
<1> QED
  BY <1>1, <1>2, <1>3, <1>4, <1>5 DEF Transcribing
\* Giving up.
LEMMA CheckpointsStopping ==
    ASSUME StepContext, NEW p \in Owner, NEW j \in Job, Stopping(p, j)
    PROVE  Checkpoints'
<1> USE SessionFrame, RowsAreKept DEF Hand
<1>0. ExecTypeOK /\ TypeOK /\ TypeOK' /\ session[p] \in Session
  BY DEF StepContext, ExecTypeOK
<1>1. CASE Heartbeat(p, j)
  <2>1. Execute(j, p) /\ NoNewCompletion /\ RowsKept
    BY <1>0, <1>1, WritesCompleteNothing DEF Heartbeat, Execute
  <2>2. NoNewOwner
    BY <1>0, <2>1, WritesOwnNothing
  <2>3. OthersKeep(p) /\ session'[p] = session[p]
    BY <1>1 DEF Heartbeat, OthersKeep
  <2> QED
    BY <2>1, <2>2, <2>3, QuietStep
<1>2. CASE LoseLease(p, j) \/ Stop(p, j) \/ NoticeCancellation(p, j)
  <2>1. UNCHANGED vars /\ RowsKept
    BY <1>0, <1>2 DEF LoseLease, Stop, NoticeCancellation
  <2>2. NoNewOwner /\ NoNewCompletion
    BY <1>0, <2>1, OthersCompleteNothing, OthersOwnNothing
  <2>3. OthersKeep(p) /\ session'[p].at \notin Hand
    <3>1. CASE LoseLease(p, j)
      BY <1>0, <3>1 DEF LoseLease, Ended, At
    <3>2. CASE Stop(p, j) \/ NoticeCancellation(p, j)
      <4>1. PICK out \in Outcome :
                Become(p, [session[p] EXCEPT !.at = "stopping", !.outcome = out])
        BY <3>2 DEF Stop, NoticeCancellation, Outcome
      <4>2. OthersKeep(p) /\ session'[p] = [session[p] EXCEPT !.at = "stopping", !.outcome = out]
        BY <1>0, <4>1
      <4> QED
        BY <1>0, <4>2 DEF Session
    <3> QED
      BY <1>2, <3>1, <3>2
  <2> QED
    BY <2>1, <2>2, <2>3, QuietStep
<1>3. CASE Checkpoint(p, j)
  <2>1. PICK c \in Ordinal, out \in Outcome :
            UpdateChunk(j, c, out, p) /\ Become(p, [session[p] EXCEPT !.plan[c] = out])
    BY <1>3 DEF Checkpoint
  <2>2. out \in ChunkState \ {"Completed"}
    BY DEF Outcome, ChunkState
  <2>3. Execute(j, p) /\ NoNewCompletion
    BY <1>0, <2>1, <2>2, WritesCompleteNothing DEF Execute
  <2>4. session[p].at = "stopping" /\ RowsKept
    BY <1>0, <1>3 DEF Checkpoint, Is
  <2>5. session'[p] = [session[p] EXCEPT !.plan[c] = out]
    BY <1>0, <2>1
  <2>6. session'[p].at = "stopping"
    BY <1>0, <2>4, <2>5 DEF Session
  <2> QED
    BY <2>3, <2>4, <2>6, QuietWrite
<1>4. CASE StopJob(p, j)
  <2>1. PICK out \in Outcome : StopExecution(j, out, p)
    BY <1>4 DEF StopJob
  <2>2. Execute(j, p) /\ NoNewCompletion
    BY <1>0, <2>1, WritesCompleteNothing DEF Execute, Outcome
  <2>3. RowsKept /\ session'[p].at \notin Hand
    BY <1>0, <1>4 DEF StopJob, Ended, At
  <2> QED
    BY <2>2, <2>3, QuietWrite
<1> QED
  BY <1>1, <1>2, <1>3, <1>4 DEF Stopping

\* Every step keeps the checkpoints.
LEMMA CheckpointsNext ==
    ASSUME StepContext, [ExecNext]_execVars
    PROVE  Checkpoints'
<1> USE SessionFrame, RowsAreKept DEF Hand
<1>0. ExecTypeOK /\ TypeOK /\ TypeOK'
  BY DEF StepContext, ExecTypeOK
<1>1. CASE \E p \in Owner, j \in Job :
              \/ Claiming(p, j) \/ Resume(p, j) \/ Preparing(p, j)
              \/ Transcribing(p, j) \/ Stopping(p, j)
  BY <1>1, CheckpointsClaiming, CheckpointsResume, CheckpointsPreparing, CheckpointsTranscribing,
     CheckpointsStopping
<1>2. ASSUME NEW p \in Owner, Launch(p) \/ Recover(p) \/ FindNothing(p) \/ Crash(p)
      PROVE  Checkpoints'
  <2>1. MarkRunningJobsInterrupted \/ ClaimFindsNothing \/ UNCHANGED vars
    BY <1>2 DEF Launch, RecoverAbandoned, Recover, FindNothing, Crash
  <2>2. NoNewOwner /\ NoNewCompletion
    BY <1>0, <2>1, OthersCompleteNothing, OthersOwnNothing
  <2>3. OthersKeep(p) /\ (session'[p].at \notin Hand \/ session'[p] = session[p])
    BY <1>0, <1>2 DEF Launch, Recover, FindNothing, Crash, At, OthersKeep
  <2>4. RowsKept
    BY <1>0, <1>2 DEF Launch, Recover, FindNothing, Crash
  <2> QED
    BY <2>2, <2>3, <2>4, QuietStep
<1>3. CASE User \/ Clock \/ UNCHANGED execVars
  <2>1. \/ \E j \in Job : Request(j)
        \/ (\E r \in Recording : Library(r)) \/ ClearCompleted
        \/ Tick \/ ClockStepsBack \/ UNCHANGED vars
    BY <1>3, EditsAssumption, DeletableAssumption DEF User, Clock, execVars, Request
  <2>2. NoNewOwner /\ NoNewCompletion
    BY <1>0, <2>1, OthersCompleteNothing, OthersOwnNothing
  <2>3. RowsKept /\ session' = session
    BY <1>0, <1>3 DEF User, Clock, execVars
  <2>4. \A q \in Owner : SameHand(q)
    BY <2>2, <2>3, MemoryKept
  <2> QED
    BY <2>2, <2>3, <2>4, HandKept, SavedKept DEF ChunkInHand, Checkpoints
<1> QED
  BY <1>1, <1>2, <1>3 DEF ExecNext

-----------------------------------------------------------------------------
(* The theorem. *)

\* The inductive invariant: completed chunks are saved because the chunk in
\* hand is not completed and has its text, which needs that the lease names
\* one owner and the job that runs.
CheckpointInv ==
    ExecTypeOK /\ ExecutionIsLeased /\ GoneHasNoChunks /\ ChunkInHand /\ CompletedChunkIsSaved

\* It holds at first.
LEMMA CheckpointInit == ExecInit => CheckpointInv
<1> SUFFICES ASSUME ExecInit PROVE CheckpointInv
  OBVIOUS
<1>1. ExecTypeOK
  <2>1. At("off", NoJob) \in Session
    BY FreshSession DEF Stage
  <2> QED
    BY <2>1, TypeInit DEF ExecInit, ExecTypeOK, NoRows
<1>2. ExecutionIsLeased
  BY RunningStates DEF ExecInit, Init, ExecutionIsLeased, Running
<1>3. GoneHasNoChunks /\ CompletedChunkIsSaved
  BY DEF ExecInit, Init, GoneHasNoChunks, CompletedChunkIsSaved, NoPlan
<1>4. ChunkInHand
  BY DEF ExecInit, At, ChunkInHand, HandOK, InHand, Hand
<1> QED
  BY <1>1, <1>2, <1>3, <1>4 DEF CheckpointInv

\* No step breaks it.
LEMMA CheckpointKept == CheckpointInv /\ [ExecNext]_execVars => CheckpointInv'
<1> SUFFICES ASSUME CheckpointInv, [ExecNext]_execVars PROVE CheckpointInv'
  OBVIOUS
<1>1. [Next]_vars
  BY StepIsStore
<1>2. ExecTypeOK /\ ExecTypeOK' /\ TypeOK /\ TypeOK'
  BY SessionNext, RowsNext DEF CheckpointInv, ExecTypeOK
<1>3. ExecutionIsLeased /\ ExecutionIsLeased'
  BY <1>1, <1>2, LeasedNext DEF CheckpointInv
<1>4. GoneHasNoChunks'
  BY <1>1, <1>2, <1>3, GoneHasNoChunksNext DEF CheckpointInv
<1>5. CompletedStays
  BY <1>1, <1>2, <1>3, CompletedStaysNext
<1>6. StepContext
  BY <1>2, <1>3, <1>4, <1>5 DEF CheckpointInv, StepContext
<1>7. Checkpoints'
  BY <1>6, CheckpointsNext
<1> QED
  BY <1>2, <1>3, <1>4, <1>7 DEF CheckpointInv, Checkpoints

\* No chunk counts as completed whose final text is not stored, whatever
\* programs crash, lose their lease, resume or delete in between.
THEOREM CheckpointsAreSaved == ExecSpec => []CompletedChunkIsSaved
<1>1. CheckpointInv => CompletedChunkIsSaved
  BY DEF CheckpointInv
<1> QED
  BY <1>1, CheckpointInit, CheckpointKept, PTL DEF ExecSpec

-----------------------------------------------------------------------------
(***************************************************************************)
(* What a program remembers of its job, and what the database says of it.  *)
(* From the two follow that a desktop may decide by its memory, that no    *)
(* chunk is left running by a job that is not, that a published transcript *)
(* is whole, and that completed chunks are retained.                       *)
(***************************************************************************)

\* A chunk there is nothing more to do for.
Done == {"Completed", "absent"}

\* The stages of a command line before its claim, those in which a program
\* works through a plan, and those in which a command line has one already.
Unclaimed == {"planning", "requeueing", "waiting", "rewaiting"}
Planful   == {"loading", "choosing", "transcribing", "saved", "finalizing"}
Resumable == {"requeueing", "waiting", "rewaiting", "resetting", "preparing"}

\* The memory of a program by itself: between jobs it has none, only command
\* lines wait for a claim of their own, every chunk behind the next one is done.
Shape(p, at, job, plan, next) ==
    /\ at \in {"off", "idle"} => job = NoJob
    /\ p \in Gui => at \notin Unclaimed \cup {"resetting"}
    /\ at \in Unclaimed \cup {"off", "idle", "preparing", "loading"} => next = 0
    /\ at = "choosing" => \A c \in Ordinal : c < next => plan[c] \in Done
    /\ at \in Hand => \A c \in Ordinal : c + 1 < next => plan[c] \in Done
    /\ p \in Gui /\ at \in Planful \ {"finalizing"} => plan # NoPlan
MemoryShaped(p) == Shape(p, session[p].at, session[p].job, session[p].plan, session[p].next)

\* A job that is worked on has a plan, or was deleted.
NeedsPlan(p, at) == at \in Planful \/ (p \in Cli /\ at \in Resumable)
HasPlan(p) ==
    \A j \in Job : session[p].job = j /\ NeedsPlan(p, session[p].at) =>
        chunks[j] # NoPlan \/ state[j] = "deleted"

\* The memory of a program whose lease is not replaced, expired or not: it is
\* at work; the chunk that runs is the one it works on, and remembered as
\* running; a desktop's plan is the database's; nothing is left at the end.
Knows(p, at, plan, next, row) ==
    /\ at \in Working
    /\ \A c \in Ordinal : row[c] = "Running" =>
           at \in Hand \cup {"stopping"} /\ c + 1 = next /\ plan[c] = "Running"
    /\ p \in Gui /\ plan # NoPlan => plan = row
    /\ at = "finalizing" => \A c \in Ordinal : row[c] \in Done
OwnerKnows(p) ==
    \A j \in Job : session[p].job = j /\ Owns(j, p) =>
        Knows(p, session[p].at, session[p].plan, session[p].next, chunks[j])

-----------------------------------------------------------------------------
(* What each step makes of the memory of the program that takes it. *)

\* A step leaves what q works on, and its place in the plan, alone.
Kept(q) == /\ session'[q].at = session[q].at     /\ session'[q].job = session[q].job
           /\ session'[q].plan = session[q].plan /\ session'[q].next = session[q].next
OthersKept(p) == \A q \in Owner \ {p} : Kept(q)

\* After the step p is here, and the others where they were.
Now(p, at, j, plan, n) ==
    /\ session'[p].at = at /\ session'[p].job = j
    /\ session'[p].plan = plan /\ session'[p].next = n
    /\ OthersKept(p)

\* The two ways a memory is replaced, field by field.
LEMMA NowBecome ==
    ASSUME ExecTypeOK, NEW p \in Owner, NEW s, Become(p, s)
    PROVE  Now(p, s.at, s.job, s.plan, s.next)
  BY DEF ExecTypeOK, Become, Now, OthersKept, Kept

\* A step of the stage alone.
LEMMA NowGoto ==
    ASSUME ExecTypeOK, NEW p \in Owner, NEW a, Goto(p, a)
    PROVE  Now(p, a, session[p].job, session[p].plan, session[p].next)
  BY DEF ExecTypeOK, Goto, Now, OthersKept, Kept, Session

\* A fresh memory, and that of a program that goes on to its next job.
LEMMA NowFresh ==
    ASSUME ExecTypeOK, NEW p \in Owner
    PROVE  /\ \A a, j : Become(p, At(a, j)) => Now(p, a, j, NoPlan, 0)
           /\ Become(p, Ended(p)) => \E a \in {"off", "idle"} : Now(p, a, NoJob, NoPlan, 0)
<1>1. ASSUME NEW a, NEW j, Become(p, At(a, j))
      PROVE  Now(p, a, j, NoPlan, 0)
  BY <1>1, NowBecome DEF At
<1>2. ASSUME Become(p, Ended(p))
      PROVE  \E a \in {"off", "idle"} : Now(p, a, NoJob, NoPlan, 0)
  BY <1>1, <1>2 DEF Ended
<1> QED
  BY <1>1, <1>2

\* Before and at the claim.
LEMMA NowClaiming ==
    ASSUME ExecTypeOK, NEW p \in Owner, NEW j \in Job
    PROVE  /\ ClaimNext(p, j) => Now(p, "preparing", j, NoPlan, 0)
           /\ BeginNew(p, j)  => Now(p, "planning", j, NoPlan, 0)
           /\ StorePlan(p, j) => Now(p, "waiting", j, chunks'[j], 0)
           /\ ClaimOwn(p, j)  =>
                  Now(p, IF session[p].at = "waiting" THEN "preparing" ELSE "resetting",
                      j, session[p].plan, session[p].next)
           /\ BeginResume(p, j) => Now(p, "requeueing", j, chunks[j], 0)
           /\ RequeueToResume(p, j) => Now(p, "rewaiting", j, session[p].plan, session[p].next)
<1>1. ClaimNext(p, j) => Now(p, "preparing", j, NoPlan, 0)
  BY NowFresh DEF ClaimNext
<1>2. BeginNew(p, j) => Now(p, "planning", j, NoPlan, 0)
  BY NowFresh DEF BeginNew
<1>3. ASSUME StorePlan(p, j)
      PROVE  Now(p, "waiting", j, chunks'[j], 0)
  <2> DEFINE s == [At("waiting", j) EXCEPT !.plan = chunks'[j]]
  <2>1. s.at = "waiting" /\ s.job = j /\ s.plan = chunks'[j] /\ s.next = 0
    BY DEF At
  <2>2. Now(p, s.at, s.job, s.plan, s.next)
    BY <1>3, NowBecome DEF StorePlan
  <2> QED
    BY <2>1, <2>2
<1>4. ASSUME ClaimOwn(p, j)
      PROVE  Now(p, IF session[p].at = "waiting" THEN "preparing" ELSE "resetting",
                 j, session[p].plan, session[p].next)
  BY <1>4, NowGoto DEF ClaimOwn
<1>5. ASSUME BeginResume(p, j)
      PROVE  Now(p, "requeueing", j, chunks[j], 0)
  <2> DEFINE s == [At("requeueing", j) EXCEPT !.plan = chunks[j], !.tried = tried[j]]
  <2>1. s.at = "requeueing" /\ s.job = j /\ s.plan = chunks[j] /\ s.next = 0
    BY DEF At
  <2>2. Now(p, s.at, s.job, s.plan, s.next)
    BY <1>5, NowBecome DEF BeginResume
  <2> QED
    BY <2>1, <2>2
<1>6. ASSUME RequeueToResume(p, j)
      PROVE  Now(p, "rewaiting", j, session[p].plan, session[p].next)
  BY <1>6, NowGoto DEF RequeueToResume, Is
<1> QED
  BY <1>1, <1>2, <1>3, <1>4, <1>5, <1>6

\* Resetting and preparing.
LEMMA NowPreparing ==
    ASSUME ExecTypeOK, NEW p \in Owner, NEW j \in Job
    PROVE  /\ ResetChunk(p, j) => \E c \in Ordinal :
                  Now(p, "resetting", j, [session[p].plan EXCEPT ![c] = "Pending"], c + 1)
           /\ ResetDone(p, j) => Now(p, "preparing", j, session[p].plan, 0)
           /\ KeepPlan(p, j)  => Now(p, "loading", j, chunks[j], session[p].next)
           /\ MakePlan(p, j)  => Now(p, "loading", j, chunks'[j], session[p].next)
           /\ Replan(p, j)    => Now(p, "preparing", j, chunks'[j], session[p].next)
           /\ BeginTranscription(p, j) =>
                  Now(p, "choosing", j, session[p].plan, session[p].next)
<1>0. session[p] \in Session
  BY DEF ExecTypeOK
<1>1. ASSUME ResetChunk(p, j)
      PROVE  \E c \in Ordinal :
                 Now(p, "resetting", j, [session[p].plan EXCEPT ![c] = "Pending"], c + 1)
  <2>1. PICK c \in Ordinal :
            Become(p, [session[p] EXCEPT !.plan[c] = "Pending", !.next = c + 1])
    BY <1>1 DEF ResetChunk
  <2> DEFINE s == [session[p] EXCEPT !.plan[c] = "Pending", !.next = c + 1]
  <2>2. /\ s.at = session[p].at /\ s.job = session[p].job /\ s.next = c + 1
        /\ s.plan = [session[p].plan EXCEPT ![c] = "Pending"]
    BY <1>0 DEF Session
  <2>3. Now(p, s.at, s.job, s.plan, s.next)
    BY <2>1, NowBecome
  <2>4. session[p].at = "resetting" /\ session[p].job = j
    BY <1>1 DEF ResetChunk, Is
  <2> QED
    BY <2>2, <2>3, <2>4
<1>2. ASSUME ResetDone(p, j)
      PROVE  Now(p, "preparing", j, session[p].plan, 0)
  <2> DEFINE s == [session[p] EXCEPT !.at = "preparing", !.next = 0]
  <2>1. s.at = "preparing" /\ s.job = session[p].job /\ s.plan = session[p].plan /\ s.next = 0
    BY <1>0 DEF Session
  <2>2. Now(p, s.at, s.job, s.plan, s.next)
    BY <1>2, NowBecome DEF ResetDone
  <2> QED
    BY <1>2, <2>1, <2>2 DEF ResetDone, Is
<1>3. ASSUME KeepPlan(p, j)
      PROVE  Now(p, "loading", j, chunks[j], session[p].next)
  <2> DEFINE s == [session[p] EXCEPT !.at = "loading", !.plan = chunks[j]]
  <2>1. s.at = "loading" /\ s.job = session[p].job /\ s.plan = chunks[j] /\ s.next = session[p].next
    BY <1>0 DEF Session
  <2>2. Now(p, s.at, s.job, s.plan, s.next)
    BY <1>3, NowBecome DEF KeepPlan
  <2> QED
    BY <1>3, <2>1, <2>2 DEF KeepPlan, Is
<1>4. ASSUME NewChunkRows(p, j)
      PROVE  Now(p, IF p \in Gui THEN "loading" ELSE session[p].at, session[p].job, chunks'[j],
                 session[p].next)
  <2>1. \A q \in Owner : session[q] \in Session
    BY DEF ExecTypeOK
  <2>2. OthersKept(p)
    BY <1>4, <2>1 DEF NewChunkRows, OthersKept, Kept, Session
  <2>3. session'[p] = [session[p] EXCEPT !.plan = chunks'[j], !.tried = {}, !.current = TRUE,
                            !.at = IF p \in Gui THEN "loading" ELSE session[p].at]
    BY <1>0, <1>4 DEF NewChunkRows, Session
  <2> QED
    BY <1>0, <2>2, <2>3 DEF Now, Session
<1>5. ASSUME MakePlan(p, j)
      PROVE  Now(p, "loading", j, chunks'[j], session[p].next)
  BY <1>4, <1>5 DEF MakePlan, Is
<1>6. ASSUME Replan(p, j)
      PROVE  Now(p, "preparing", j, chunks'[j], session[p].next)
  BY <1>4, <1>6 DEF Replan, Is, Cli
<1>7. ASSUME BeginTranscription(p, j)
      PROVE  Now(p, "choosing", j, session[p].plan, session[p].next)
  <2> DEFINE s == [session[p] EXCEPT !.at = "choosing", !.tried = {}]
  <2>1. /\ s.at = "choosing" /\ s.job = session[p].job /\ s.plan = session[p].plan
        /\ s.next = session[p].next
    BY <1>0 DEF Session
  <2>2. Now(p, s.at, s.job, s.plan, s.next)
    BY <1>7, NowBecome DEF BeginTranscription
  <2> QED
    BY <1>7, <2>1, <2>2 DEF BeginTranscription, Is
<1> QED
  BY <1>1, <1>2, <1>3, <1>5, <1>6, <1>7

\* Transcribing.
LEMMA NowTranscribing ==
    ASSUME ExecTypeOK, NEW p \in Owner, NEW j \in Job
    PROVE  /\ \A c \in Ordinal :
                  Become(p, [session[p] EXCEPT !.at = "transcribing", !.plan[c] = "Running",
                                               !.next = c + 1])
                  => Now(p, "transcribing", session[p].job,
                         [session[p].plan EXCEPT ![c] = "Running"], c + 1)
           /\ SaveFinal(p, j) => Now(p, "saved", j, session[p].plan, session[p].next)
           /\ \A c \in Ordinal :
                  Become(p, [session[p] EXCEPT !.at = "choosing", !.plan[c] = "Completed"])
                  => Now(p, "choosing", session[p].job,
                         [session[p].plan EXCEPT ![c] = "Completed"], session[p].next)
           /\ Finalize(p, j) => Now(p, "finalizing", j, session[p].plan, session[p].next)
<1>0. session[p] \in Session
  BY DEF ExecTypeOK
<1>1. ASSUME NEW c \in Ordinal,
             Become(p, [session[p] EXCEPT !.at = "transcribing", !.plan[c] = "Running",
                                          !.next = c + 1])
      PROVE  Now(p, "transcribing", session[p].job,
                 [session[p].plan EXCEPT ![c] = "Running"], c + 1)
  <2> DEFINE s == [session[p] EXCEPT !.at = "transcribing", !.plan[c] = "Running",
                                     !.next = c + 1]
  <2>1. /\ s.at = "transcribing" /\ s.job = session[p].job /\ s.next = c + 1
        /\ s.plan = [session[p].plan EXCEPT ![c] = "Running"]
    BY <1>0 DEF Session
  <2>2. Now(p, s.at, s.job, s.plan, s.next)
    BY <1>1, NowBecome
  <2> QED
    BY <2>1, <2>2
<1>2. ASSUME SaveFinal(p, j)
      PROVE  Now(p, "saved", j, session[p].plan, session[p].next)
  BY <1>2, NowGoto DEF SaveFinal, Is
<1>3. ASSUME NEW c \in Ordinal,
             Become(p, [session[p] EXCEPT !.at = "choosing", !.plan[c] = "Completed"])
      PROVE  Now(p, "choosing", session[p].job,
                 [session[p].plan EXCEPT ![c] = "Completed"], session[p].next)
  <2> DEFINE s == [session[p] EXCEPT !.at = "choosing", !.plan[c] = "Completed"]
  <2>1. /\ s.at = "choosing" /\ s.job = session[p].job /\ s.next = session[p].next
        /\ s.plan = [session[p].plan EXCEPT ![c] = "Completed"]
    BY <1>0 DEF Session
  <2>2. Now(p, s.at, s.job, s.plan, s.next)
    BY <1>3, NowBecome
  <2> QED
    BY <2>1, <2>2
<1>4. ASSUME Finalize(p, j)
      PROVE  Now(p, "finalizing", j, session[p].plan, session[p].next)
  BY <1>4, NowGoto DEF Finalize, Is
<1> QED
  BY <1>1, <1>2, <1>3, <1>4

\* Stopping, and ending in whatever way.
LEMMA NowStopping ==
    ASSUME ExecTypeOK, NEW p \in Owner, NEW j \in Job
    PROVE  /\ Stop(p, j) \/ NoticeCancellation(p, j) =>
                  Now(p, "stopping", j, session[p].plan, session[p].next)
           /\ \A c \in Ordinal, out \in Outcome :
                  Become(p, [session[p] EXCEPT !.plan[c] = out])
                  => Now(p, session[p].at, session[p].job,
                         [session[p].plan EXCEPT ![c] = out], session[p].next)
           /\ \/ GiveUp(p, j) \/ ResetFails(p, j) \/ LoseLease(p, j) \/ StopJob(p, j)
              \/ Complete(p, j) \/ Crash(p) \/ Launch(p)
              => \E a \in {"off", "idle"} : Now(p, a, NoJob, NoPlan, 0)
<1>0. session[p] \in Session
  BY DEF ExecTypeOK
<1>1. ASSUME Stop(p, j) \/ NoticeCancellation(p, j)
      PROVE  Now(p, "stopping", j, session[p].plan, session[p].next)
  <2>1. PICK out \in Outcome : Become(p, [session[p] EXCEPT !.at = "stopping", !.outcome = out])
    BY <1>1 DEF Stop, NoticeCancellation, Outcome
  <2> DEFINE s == [session[p] EXCEPT !.at = "stopping", !.outcome = out]
  <2>2. /\ s.at = "stopping" /\ s.job = session[p].job /\ s.plan = session[p].plan
        /\ s.next = session[p].next
    BY <1>0 DEF Session
  <2>3. Now(p, s.at, s.job, s.plan, s.next)
    BY <2>1, NowBecome
  <2> QED
    BY <1>1, <2>2, <2>3 DEF Stop, NoticeCancellation
<1>2. ASSUME NEW c \in Ordinal, NEW out \in Outcome, Become(p, [session[p] EXCEPT !.plan[c] = out])
      PROVE  Now(p, session[p].at, session[p].job,
                 [session[p].plan EXCEPT ![c] = out], session[p].next)
  <2> DEFINE s == [session[p] EXCEPT !.plan[c] = out]
  <2>1. /\ s.at = session[p].at /\ s.job = session[p].job /\ s.next = session[p].next
        /\ s.plan = [session[p].plan EXCEPT ![c] = out]
    BY <1>0 DEF Session
  <2>2. Now(p, s.at, s.job, s.plan, s.next)
    BY <1>2, NowBecome
  <2> QED
    BY <2>1, <2>2
<1>3. GiveUp(p, j) \/ ResetFails(p, j) \/ LoseLease(p, j) \/ StopJob(p, j) \/ Complete(p, j)
      => Become(p, Ended(p))
  BY DEF GiveUp, ResetFails, LoseLease, StopJob, Complete
<1>4. Crash(p) \/ Launch(p) => \E a \in {"off", "idle"} : Become(p, At(a, NoJob))
  BY DEF Crash, Launch
<1> QED
  BY <1>1, <1>2, <1>3, <1>4, NowFresh

-----------------------------------------------------------------------------
(* The shape of the memories. *)

Shaped == \A q \in Owner : MemoryShaped(q)

\* A step changes one memory, to one that has the shape.
LEMMA ShapedStep ==
    ASSUME Shaped, NEW p \in Owner, NEW at, NEW job, NEW plan, NEW next,
           Now(p, at, job, plan, next), Shape(p, at, job, plan, next)
    PROVE  Shaped'
<1>1. MemoryShaped(p)'
  BY DEF Now, MemoryShaped
<1>2. \A q \in Owner \ {p} : MemoryShaped(q)'
  BY DEF Now, OthersKept, Kept, Shaped, MemoryShaped
<1> QED
  BY <1>1, <1>2 DEF Shaped

\* A step that leaves all memories where they were.
LEMMA ShapedStay ==
    ASSUME Shaped, \A q \in Owner : Kept(q)
    PROVE  Shaped'
  BY DEF Shaped, MemoryShaped, Kept

\* A plan of at least one chunk is a plan.
LEMMA PlanIsOne == \A n \in 1 .. MaxChunks : Plan(n) # NoPlan /\ Plan(n)[0] = "Pending"
<1>1. 0 \in Ordinal
  BY BoundAssumption DEF Ordinal
<1> QED
  BY <1>1 DEF Plan, NoPlan

\* Before the claim, and when a job is dropped.
LEMMA ShapedClaiming ==
    ASSUME ExecTypeOK, Shaped, NEW p \in Owner, NEW j \in Job, Claiming(p, j)
    PROVE  Shaped'
<1> USE DEF Shape, Unclaimed, Hand, Planful
<1>1. CASE ClaimNext(p, j)
  <2>1. Shape(p, "preparing", j, NoPlan, 0)
    OBVIOUS
  <2> QED
    BY <1>1, <2>1, NowClaiming, ShapedStep
<1>2. CASE BeginNew(p, j)
  <2>1. Shape(p, "planning", j, NoPlan, 0)
    BY <1>2 DEF BeginNew, Cli
  <2> QED
    BY <1>2, <2>1, NowClaiming, ShapedStep
<1>3. CASE StorePlan(p, j)
  <2>1. p \notin Gui
    BY <1>3 DEF StorePlan, Is, Shaped, MemoryShaped
  <2>2. Shape(p, "waiting", j, chunks'[j], 0)
    BY <2>1
  <2> QED
    BY <1>3, <2>2, NowClaiming, ShapedStep
<1>4. CASE ClaimOwn(p, j)
  <2>1. p \notin Gui /\ session[p].next = 0
    BY <1>4 DEF ClaimOwn, Shaped, MemoryShaped
  <2>2. Shape(p, IF session[p].at = "waiting" THEN "preparing" ELSE "resetting",
              j, session[p].plan, session[p].next)
    BY <2>1
  <2> QED
    BY <1>4, <2>2, NowClaiming, ShapedStep
<1>5. CASE GiveUp(p, j)
  <2>1. \A a \in {"off", "idle"} : Shape(p, a, NoJob, NoPlan, 0)
    OBVIOUS
  <2> QED
    BY <1>5, <2>1, NowStopping, ShapedStep
<1> QED
  BY <1>1, <1>2, <1>3, <1>4, <1>5 DEF Claiming

\* Resuming: only command lines do.
LEMMA ShapedResume ==
    ASSUME ExecTypeOK, Shaped, NEW p \in Owner, NEW j \in Job, Resume(p, j)
    PROVE  Shaped'
<1> USE DEF Shape, Unclaimed, Hand, Planful
<1>1. CASE BeginResume(p, j)
  <2>1. Shape(p, "requeueing", j, chunks[j], 0)
    BY <1>1 DEF BeginResume, Cli
  <2> QED
    BY <1>1, <2>1, NowClaiming, ShapedStep
<1>2. CASE RequeueToResume(p, j)
  <2>1. p \notin Gui /\ session[p].next = 0
    BY <1>2 DEF RequeueToResume, Is, Shaped, MemoryShaped
  <2>2. Shape(p, "rewaiting", j, session[p].plan, session[p].next)
    BY <2>1
  <2> QED
    BY <1>2, <2>2, NowClaiming, ShapedStep
<1>3. CASE ResetChunk(p, j) \/ ResetDone(p, j)
  <2>1. p \notin Gui
    BY <1>3 DEF ResetChunk, ResetDone, Is, Shaped, MemoryShaped
  <2>2. \A plan, n : Shape(p, "resetting", j, plan, n) /\ Shape(p, "preparing", j, plan, 0)
    BY <2>1
  <2>3. \E at, plan, n : Now(p, at, j, plan, n) /\ Shape(p, at, j, plan, n)
    <3> HIDE DEF Shape
    <3> QED
      BY <1>3, <2>2, NowPreparing
  <2> QED
    BY <2>3, ShapedStep
<1>4. CASE ResetFails(p, j)
  <2>1. \A a \in {"off", "idle"} : Shape(p, a, NoJob, NoPlan, 0)
    OBVIOUS
  <2> QED
    BY <1>4, <2>1, NowStopping, ShapedStep
<1> QED
  BY <1>1, <1>2, <1>3, <1>4 DEF Resume

\* Preparing: a plan is kept or made before a desktop loads the model.
LEMMA ShapedPreparing ==
    ASSUME ExecTypeOK, Shaped, NEW p \in Owner, NEW j \in Job, Preparing(p, j)
    PROVE  Shaped'
<1> USE DEF Shape, Unclaimed, Hand, Planful
<1>0. MemoryShaped(p)
  BY DEF Shaped
<1>1. CASE Advance(p, j)
  BY <1>1, ShapedStay DEF Advance, Kept
<1>2. CASE KeepPlan(p, j)
  <2>1. Shape(p, "loading", j, chunks[j], session[p].next)
    BY <1>0, <1>2 DEF KeepPlan, Is, MemoryShaped
  <2> QED
    BY <1>2, <2>1, NowPreparing, ShapedStep
<1>3. CASE MakePlan(p, j) \/ Replan(p, j)
  <2>1. chunks'[j] # NoPlan
    BY <1>3, PlanIsOne DEF MakePlan, Replan, ReplaceChunks, ExecTypeOK, TypeOK
  <2>2. session[p].next = 0
    BY <1>0, <1>3 DEF MakePlan, Replan, Is, MemoryShaped
  <2>3. Shape(p, "loading", j, chunks'[j], session[p].next)
    BY <2>1, <2>2
  <2>4. Shape(p, "preparing", j, chunks'[j], session[p].next)
    BY <2>2
  <2> QED
    BY <1>3, <2>3, <2>4, NowPreparing, ShapedStep
<1>4. CASE BeginTranscription(p, j)
  <2>1. session[p].next = 0 /\ (p \in Gui => session[p].plan # NoPlan)
    BY <1>0, <1>4 DEF BeginTranscription, Is, MemoryShaped
  <2>2. \A c \in Ordinal : ~(c < 0)
    BY DEF Ordinal
  <2>3. Shape(p, "choosing", j, session[p].plan, session[p].next)
    BY <2>1, <2>2
  <2> QED
    BY <1>4, <2>3, NowPreparing, ShapedStep
<1> QED
  BY <1>1, <1>2, <1>3, <1>4 DEF Preparing

\* Transcribing: the chunk chosen is the first that is not done.
LEMMA ShapedTranscribing ==
    ASSUME ExecTypeOK, Shaped, NEW p \in Owner, NEW j \in Job, Transcribing(p, j)
    PROVE  Shaped'
<1> DEFINE plan == session[p].plan
           next == session[p].next
<1>0. /\ MemoryShaped(p) /\ plan \in [Ordinal -> ChunkState \cup {"absent"}]
      /\ next \in Nat /\ Ordinal \subseteq Nat
  BY BoundAssumption DEF Shaped, ExecTypeOK, Session, Ordinal
<1>1. CASE StartChunk(p, j)
  <2>1. PICK c \in Ordinal :
            /\ First(c, Ahead(p))
            /\ Become(p, [session[p] EXCEPT !.at = "transcribing", !.plan[c] = "Running",
                                            !.next = c + 1])
    BY <1>1 DEF StartChunk
  <2>2. session[p].at = "choosing" /\ session[p].job = j
    BY <1>1 DEF StartChunk, Is
  <2> DEFINE newPlan == [plan EXCEPT ![c] = "Running"]
  <2>3. \A d \in Ordinal : d + 1 < c + 1 => newPlan[d] \in Done
    <3> SUFFICES ASSUME NEW d \in Ordinal, d < c
                 PROVE  plan[d] \in Done
      BY <1>0
    <3>1. d \notin Ahead(p)
      BY <1>0, <2>1 DEF First
    <3>2. d < next \/ plan[d] \in Done
      BY <1>0, <3>1 DEF Ahead, Done
    <3> QED
      BY <1>0, <2>2, <3>2 DEF MemoryShaped, Shape
  <2>4. newPlan # NoPlan
    BY <1>0 DEF NoPlan
  <2>5. Shape(p, "transcribing", j, newPlan, c + 1)
    BY <2>3, <2>4 DEF Shape, Unclaimed, Hand, Planful
  <2>6. Now(p, "transcribing", j, newPlan, c + 1)
    BY <2>1, <2>2, NowTranscribing
  <2> QED
    BY <2>5, <2>6, ShapedStep
<1>2. CASE SavePartial(p, j)
  BY <1>2, ShapedStay DEF SavePartial, Kept
<1>3. CASE SaveFinal(p, j)
  <2>1. Shape(p, "saved", j, plan, next)
    BY <1>0, <1>3 DEF SaveFinal, Is, MemoryShaped, Shape, Unclaimed, Hand, Planful
  <2> QED
    BY <1>3, <2>1, NowTranscribing, ShapedStep
<1>4. CASE FinishChunk(p, j)
  <2>1. PICK c \in Current(p) :
            Become(p, [session[p] EXCEPT !.at = "choosing", !.plan[c] = "Completed"])
    BY <1>4 DEF FinishChunk
  <2>2. /\ session[p].at = "saved" /\ session[p].job = j
        /\ c \in Ordinal /\ c + 1 = next
    BY <1>4 DEF FinishChunk, Is, Current
  <2> DEFINE newPlan == [plan EXCEPT ![c] = "Completed"]
  <2>3. \A d \in Ordinal : d < next => newPlan[d] \in Done
    <3> SUFFICES ASSUME NEW d \in Ordinal, d < next
                 PROVE  newPlan[d] \in Done
      OBVIOUS
    <3>1. d = c \/ d + 1 < next
      BY <1>0, <2>2
    <3>2. d + 1 < next => plan[d] \in Done
      BY <1>0, <2>2 DEF MemoryShaped, Shape, Hand
    <3> QED
      BY <1>0, <2>2, <3>1, <3>2 DEF Done
  <2>4. newPlan # NoPlan
    BY <1>0, <2>2 DEF NoPlan
  <2>5. Shape(p, "choosing", j, newPlan, next)
    BY <2>3, <2>4 DEF Shape, Unclaimed, Hand, Planful
  <2>6. Now(p, "choosing", j, newPlan, next)
    BY <2>1, <2>2, NowTranscribing
  <2> QED
    BY <2>5, <2>6, ShapedStep
<1>5. CASE Finalize(p, j)
  <2>1. Shape(p, "finalizing", j, plan, next)
    BY DEF Shape, Unclaimed, Hand, Planful
  <2> QED
    BY <1>5, <2>1, NowTranscribing, ShapedStep
<1>6. CASE Complete(p, j)
  <2>1. \A a \in {"off", "idle"} : Shape(p, a, NoJob, NoPlan, 0)
    BY DEF Shape, Unclaimed, Hand, Planful
  <2> QED
    BY <1>6, <2>1, NowStopping, ShapedStep
<1> QED
  BY <1>1, <1>2, <1>3, <1>4, <1>5, <1>6 DEF Transcribing

\* Stopping.
LEMMA ShapedStopping ==
    ASSUME ExecTypeOK, Shaped, NEW p \in Owner, NEW j \in Job, Stopping(p, j)
    PROVE  Shaped'
<1> USE DEF Shape, Unclaimed, Hand, Planful
<1>0. \A job, plan, n : Shape(p, "stopping", job, plan, n)
  OBVIOUS
<1>1. CASE Heartbeat(p, j)
  BY <1>1, ShapedStay DEF Heartbeat, Kept
<1>2. CASE LoseLease(p, j) \/ StopJob(p, j)
  <2>1. \A a \in {"off", "idle"} : Shape(p, a, NoJob, NoPlan, 0)
    OBVIOUS
  <2> QED
    BY <1>2, <2>1, NowStopping, ShapedStep
<1>3. CASE Stop(p, j) \/ NoticeCancellation(p, j)
  BY <1>0, <1>3, NowStopping, ShapedStep
<1>4. CASE Checkpoint(p, j)
  <2>1. PICK c \in Ordinal, out \in Outcome : Become(p, [session[p] EXCEPT !.plan[c] = out])
    BY <1>4 DEF Checkpoint
  <2>2. session[p].at = "stopping"
    BY <1>4 DEF Checkpoint, Is
  <2>3. Now(p, "stopping", session[p].job, [session[p].plan EXCEPT ![c] = out], session[p].next)
    BY <2>1, <2>2, NowStopping
  <2> HIDE DEF Shape
  <2> QED
    BY <1>0, <2>3, ShapedStep
<1> QED
  BY <1>1, <1>2, <1>3, <1>4 DEF Stopping

\* Every step keeps the shape of every memory.
LEMMA ShapedNext == ExecTypeOK /\ Shaped /\ [ExecNext]_execVars => Shaped'
<1> SUFFICES ASSUME ExecTypeOK, Shaped, [ExecNext]_execVars PROVE Shaped'
  OBVIOUS
<1>1. CASE \E p \in Owner, j \in Job :
              \/ Claiming(p, j) \/ Resume(p, j) \/ Preparing(p, j)
              \/ Transcribing(p, j) \/ Stopping(p, j)
  BY <1>1, ShapedClaiming, ShapedResume, ShapedPreparing, ShapedTranscribing, ShapedStopping
<1>2. ASSUME NEW p \in Owner, Launch(p) \/ Crash(p)
      PROVE  Shaped'
  <2>1. \A a \in {"off", "idle"} : Shape(p, a, NoJob, NoPlan, 0)
    BY DEF Shape, Unclaimed, Hand, Planful
  <2>2. \E a \in {"off", "idle"} : Become(p, At(a, NoJob))
    BY <1>2 DEF Launch, Crash
  <2> QED
    BY <2>1, <2>2, NowFresh, ShapedStep
<1>3. CASE (\E p \in Owner : Recover(p) \/ FindNothing(p)) \/ User \/ Clock \/ UNCHANGED execVars
  <2>1. session' = session
    BY <1>3 DEF Recover, FindNothing, User, Clock, execVars
  <2> QED
    BY <2>1, ShapedStay DEF Kept
<1> QED
  BY <1>1, <1>2, <1>3 DEF ExecNext

-----------------------------------------------------------------------------
(* What the store leaves of the chunks of a job. *)

\* The transactions that neither claim a job nor show a token.
Outside ==
    \/ MarkRunningJobsInterrupted \/ ClaimFindsNothing
    \/ (\E j \in Job : Request(j)) \/ (\E r \in Recording : Library(r)) \/ ClearCompleted
    \/ Tick \/ ClockStepsBack \/ UNCHANGED vars

\* A plan goes with its job only, and a deleted job is no more heard of.
PlanLasts(j) ==
    /\ chunks'[j] = NoPlan => chunks[j] = NoPlan \/ state'[j] = "deleted"
    /\ state[j] = "deleted" => state'[j] = "deleted"

\* No chunk begins to run, and one that goes on running does not outlive the
\* running of its job.
NothingStarts(j) ==
    \A c \in Ordinal : chunks'[j][c] = "Running" =>
        chunks[j][c] = "Running" /\ (IsRunning(state[j]) => IsRunning(state'[j]))

\* The chunks of a job that keeps its lease row, or stays completed, are left.
ChunksLeft(j) ==
    \/ Leased(j) /\ Leased(j)'
    \/ state[j] = "Completed" /\ state'[j] = "Completed"
    => chunks'[j] = chunks[j]

QuietRow(j) == PlanLasts(j) /\ NothingStarts(j) /\ ChunksLeft(j)

\* A step that does not reach the job.
LEMMA UntouchedIsQuiet ==
    ASSUME NEW j \in Job, chunks'[j] = chunks[j], state'[j] = state[j]
    PROVE  QuietRow(j)
  BY DEF QuietRow, PlanLasts, NothingStarts, ChunksLeft

\* A deletion that takes the lease row with the job.
LEMMA DeletedIsQuiet ==
    ASSUME NEW S, DeleteJobs(S), NEW j \in Job
    PROVE  QuietRow(j)
<1>1. CASE j \in S
  <2>1. chunks'[j] = NoPlan /\ state'[j] = "deleted" /\ ~Leased(j)'
    BY <1>1 DEF DeleteJobs, Leased
  <2> QED
    BY <2>1 DEF QuietRow, PlanLasts, NothingStarts, ChunksLeft, NoPlan
<1>2. CASE j \notin S
  BY <1>2, UntouchedIsQuiet DEF DeleteJobs
<1> QED
  BY <1>1, <1>2

\* Recovery stops what runs, the job and its chunk.
LEMMA RecoveredIsQuiet ==
    ASSUME TypeOK, NEW S, S \subseteq Running, NEW j \in Job, NEW s,
           chunks' = RecoveredChunks(S), state'[j] = s, s # "deleted",
           s = RecoveredState(S)[j] \/ ~IsRunning(state[j]),
           j \in S => ~Leased(j)'
    PROVE  NothingStarts(j) /\ ChunksLeft(j) /\ (chunks'[j] = NoPlan => chunks[j] = NoPlan)
<1>1. CASE j \in S
  <2>1. IsRunning(state[j]) /\ state[j] # "Completed"
    BY <1>1, RunningStates DEF Running
  <2>2. \A c \in Ordinal : chunks'[j][c] = ChunkAfterLoss(state[j], chunks[j][c])
    BY <1>1 DEF RecoveredChunks
  <2>3. \A x, y : ChunkAfterLoss(x, y) # "Running" /\ (ChunkAfterLoss(x, y) = "absent" => y = "absent")
    BY DEF ChunkAfterLoss
  <2>4. chunks'[j] = NoPlan => chunks[j] = NoPlan
    <3>1. SUFFICES ASSUME chunks'[j] = NoPlan PROVE chunks[j] = NoPlan
      OBVIOUS
    <3>2. \A c \in Ordinal : chunks[j][c] = "absent"
      BY <2>2, <2>3, <3>1 DEF NoPlan
    <3> QED
      BY <3>2 DEF TypeOK, NoPlan
  <2> QED
    BY <1>1, <2>1, <2>2, <2>3, <2>4 DEF NothingStarts, ChunksLeft
<1>2. CASE j \notin S
  BY <1>2 DEF RecoveredChunks, RecoveredState, NothingStarts, ChunksLeft
<1> QED
  BY <1>1, <1>2

\* Recovery by itself.
LEMMA RecoveryIsQuiet ==
    ASSUME StoreInv, MarkRunningJobsInterrupted \/ ClaimFindsNothing, NEW j \in Job
    PROVE  QuietRow(j)
<1>1. PICK S : /\ S \subseteq Running /\ chunks' = RecoveredChunks(S) /\ state' = RecoveredState(S)
               /\ j \in S => ~Leased(j)'
  <2>1. CASE MarkRunningJobsInterrupted
    BY <2>1 DEF MarkRunningJobsInterrupted, Abandoned, Leased, LiveOn
  <2>2. CASE ClaimFindsNothing
    BY <2>2 DEF ClaimFindsNothing, Expired, Leased
  <2> QED
    BY <2>1, <2>2
<1>2. state[j] = "deleted" => state'[j] = "deleted"
  BY <1>1, RunningStates DEF RecoveredState, Running
<1>3. CASE state[j] = "deleted"
  <2>1. j \notin S
    BY <1>1, <1>3, RunningStates DEF Running
  <2> QED
    BY <1>1, <2>1, UntouchedIsQuiet DEF RecoveredState, RecoveredChunks
<1>4. CASE state[j] # "deleted"
  <2>1. state'[j] # "deleted"
    BY <1>1, <1>4 DEF RecoveredState, StateAfterLoss
  <2> QED
    BY <1>1, <1>2, <2>1, RecoveredIsQuiet DEF QuietRow, PlanLasts, StoreInv
<1> QED
  BY <1>3, <1>4

\* A claim recovers the job before, and takes one that does not run.
LEMMA ClaimIsQuiet ==
    ASSUME StoreInv, NEW k \in Job, NEW o \in Owner, Claim(k, o), NEW j \in Job
    PROVE  QuietRow(j) /\ (Leased(j)' <=> j = k)
<1>1. /\ Expired \subseteq Running /\ chunks' = RecoveredChunks(Expired)
      /\ state' = [RecoveredState(Expired) EXCEPT ![k] = "Preparing"]
      /\ state[k] = "Queued" /\ lease' = [job |-> k, owner |-> o, ttl |-> LeaseTTL]
  BY DEF Claim, Expired
<1>2. lease' # NoLease
  BY <1>1, LeaseTyped, NoLeaseAssumption DEF StoreInv
<1>3. Leased(j)' <=> j = k
  BY <1>1, <1>2 DEF Leased
<1>4. state'[j] = IF j = k THEN "Preparing" ELSE RecoveredState(Expired)[j]
  BY <1>1, RecoveryTyped DEF StoreInv
<1>5. k \notin Expired /\ ~IsRunning(state[k])
  BY <1>1, RunningStates DEF Running
<1>6. CASE state[j] = "deleted"
  <2>1. j \notin Expired /\ j # k
    BY <1>1, <1>6, RunningStates DEF Running
  <2> QED
    BY <1>1, <1>3, <1>4, <2>1, UntouchedIsQuiet DEF RecoveredState, RecoveredChunks
<1>7. CASE state[j] # "deleted"
  <2>1. state'[j] # "deleted"
    BY <1>4, <1>7 DEF RecoveredState, StateAfterLoss
  <2>2. state'[j] = RecoveredState(Expired)[j] \/ ~IsRunning(state[j])
    BY <1>4, <1>5
  <2>3. j \in Expired => ~Leased(j)'
    BY <1>3, <1>5
  <2> QED
    BY <1>1, <1>3, <1>7, <2>1, <2>2, <2>3, RecoveredIsQuiet DEF QuietRow, PlanLasts, StoreInv
<1> QED
  BY <1>6, <1>7

\* Requests.
LEMMA RequestIsQuiet ==
    ASSUME StoreInv, NEW k \in Job, Request(k), NEW j \in Job
    PROVE  QuietRow(j)
<1> USE UntouchedIsQuiet
<1>1. CASE j # k
  <2>1. CASE DeleteTerminalJob(k)
    BY <2>1, DeletedIsQuiet DEF DeleteTerminalJob
  <2>2. CASE ~DeleteTerminalJob(k)
    BY <1>1, <2>2 DEF Request, CreateQueued, ReplaceChunksWhileQueued, RequestCancellation,
       CancelWithoutExecutor, Requeue, SaveEditedTranscript, StoreInv, TypeOK
  <2> QED
    BY <2>1, <2>2
<1>2. ASSUME j = k, chunks' = chunks, state'[j] # "Completed", state[j] # "deleted",
             IsRunning(state[j]) => IsRunning(state'[j])
      PROVE  QuietRow(j)
  BY <1>2 DEF QuietRow, PlanLasts, NothingStarts, ChunksLeft
<1>3. ASSUME j = k, NEW hide, CreateQueued(k, hide)
      PROVE  QuietRow(j)
  BY <1>2, <1>3, RunningStates DEF CreateQueued, StoreInv, TypeOK
<1>4. CASE j = k /\ ReplaceChunksWhileQueued(k)
  <2>1. PICK n \in 1 .. MaxChunks : chunks' = [chunks EXCEPT ![k] = Plan(n)]
    BY <1>4 DEF ReplaceChunksWhileQueued
  <2>2. chunks'[j] = Plan(n) /\ chunks'[j] # NoPlan
    BY <1>4, <2>1, PlanIsOne DEF StoreInv, TypeOK
  <2>3. state[j] = "Queued" /\ state'[j] = "Queued" /\ ~Leased(j)
    BY <1>4, RunningStates, LeasedJobByJob DEF ReplaceChunksWhileQueued, StoreInv
  <2>4. \A c \in Ordinal : Plan(n)[c] # "Running"
    BY DEF Plan
  <2> QED
    BY <2>2, <2>3, <2>4 DEF QuietRow, PlanLasts, NothingStarts, ChunksLeft
<1>5. CASE j = k /\ RequestCancellation(k)
  BY <1>2, <1>5, RunningStates DEF RequestCancellation, StoreInv, TypeOK
<1>6. CASE j = k /\ (CancelWithoutExecutor(k) \/ Requeue(k))
  BY <1>2, <1>6, RunningStates DEF CancelWithoutExecutor, Requeue, StoreInv, TypeOK
<1>7. ASSUME NEW t, SaveEditedTranscript(k, t)
      PROVE  QuietRow(j)
  BY <1>7 DEF SaveEditedTranscript
<1>8. CASE DeleteTerminalJob(k)
  BY <1>8, DeletedIsQuiet DEF DeleteTerminalJob
<1> QED
  BY <1>1, <1>3, <1>4, <1>5, <1>6, <1>7, <1>8 DEF Request

\* All of them.
LEMMA OutsideIsQuiet ==
    ASSUME StoreInv, Outside, NEW j \in Job
    PROVE  QuietRow(j)
<1>1. CASE MarkRunningJobsInterrupted \/ ClaimFindsNothing
  BY <1>1, RecoveryIsQuiet
<1>2. CASE \E k \in Job : Request(k)
  BY <1>2, RequestIsQuiet
<1>3. CASE (\E r \in Recording : Library(r)) \/ ClearCompleted
  BY <1>3, UntouchedIsQuiet, DeletedIsQuiet
     DEF Library, MoveToTrash, Restore, PermanentlyDelete, ClearCompleted
<1>4. CASE Tick \/ ClockStepsBack \/ UNCHANGED vars
  BY <1>4, UntouchedIsQuiet DEF Tick, ClockStepsBack, vars
<1> QED
  BY <1>1, <1>2, <1>3, <1>4 DEF Outside

\* A write under the lease reaches the chunks of no other job, and takes no plan.
LEMMA WritesReachTheirJob ==
    ASSUME StoreInv, NEW k \in Job, NEW o \in Owner, Execute(k, o)
    PROVE  /\ \A j \in Job \ {k} : chunks'[j] = chunks[j] /\ state'[j] = state[j]
           /\ PlanLasts(k)
<1>1. state[k] # "deleted"
  BY ExecutorRuns, RunningStates
<1>2. CASE RenewLease(k, o) \/ CompleteAndActivate(k, o) \/ ReplaceChunk(k, o)
  BY <1>1, <1>2 DEF RenewLease, CompleteAndActivate, ReplaceChunk, PlanLasts, StoreInv, TypeOK
<1>3. ASSUME NEW s, AdvanceStage(k, s, o) \/ StopExecution(k, s, o)
      PROVE  /\ \A j \in Job \ {k} : chunks'[j] = chunks[j] /\ state'[j] = state[j]
             /\ PlanLasts(k)
  BY <1>1, <1>3 DEF AdvanceStage, StopExecution, PlanLasts, StoreInv, TypeOK
<1>4. CASE ReplaceChunks(k, o)
  <2>1. PICK n \in 1 .. MaxChunks : chunks' = [chunks EXCEPT ![k] = Plan(n)]
    BY <1>4 DEF ReplaceChunks
  <2>2. state' = state
    BY <1>4 DEF ReplaceChunks
  <2> QED
    BY <1>1, <2>1, <2>2, PlanIsOne DEF PlanLasts, StoreInv, TypeOK
<1>5. ASSUME NEW c \in Ordinal, NEW s \in ChunkState, UpdateChunk(k, c, s, o)
      PROVE  /\ \A j \in Job \ {k} : chunks'[j] = chunks[j] /\ state'[j] = state[j]
             /\ PlanLasts(k)
  <2>1. /\ chunks' = [chunks EXCEPT ![k][c] = s] /\ state' = state
        /\ chunks[k][c] # "absent"
    BY <1>5 DEF UpdateChunk
  <2>2. chunks'[k][c] = s
    BY <2>1 DEF StoreInv, TypeOK
  <2>3. chunks'[k] # NoPlan
    BY <2>2 DEF NoPlan, ChunkState
  <2>4. PlanLasts(k)
    BY <1>1, <2>3 DEF PlanLasts
  <2> QED
    BY <2>1, <2>4 DEF StoreInv, TypeOK
<1> QED
  BY <1>2, <1>3, <1>4, <1>5 DEF Execute

-----------------------------------------------------------------------------
(* How a step keeps what the programs know. *)

Remembered == \A q \in Owner : OwnerKnows(q) /\ HasPlan(q)

\* What holds of every step before its own action is looked at.
ProgressContext ==
    /\ ExecTypeOK /\ ExecTypeOK'
    /\ StoreInv /\ StoreInv'
    /\ Shaped /\ Remembered /\ RunningChunkIsRun

\* What it has to leave.
Progress == Remembered' /\ RunningChunkIsRun'

\* The steps of the store that a program p may be the cause of.
StepBy(p) == Outside \/ \E k \in Job : Claim(k, p) \/ Execute(k, p)

\* Who owns a job owned it before, and finds its chunks as they were.
SameJobs(q) == \A k \in Job : Owns(k, q)' => Owns(k, q) /\ chunks'[k] = chunks[k]

\* A job is owned by one program.
LEMMA OneOwner == \A j, k \in Job, p, q \in Owner : Owns(j, p) /\ Owns(k, q) => j = k /\ p = q
  BY DEF Owns, Leased

\* An owned job runs.
LEMMA OwnedRuns ==
    /\ StoreInv => \A j \in Job, p \in Owner : Owns(j, p) => IsRunning(state[j])
    /\ StoreInv' => \A j \in Job, p \in Owner : Owns(j, p)' => IsRunning(state'[j])
  BY LeasedJobByJob, LeasedJobByJobPrime DEF StoreInv, Owns

\* Nobody but an executor finds the chunks of its job changed.
LEMMA OutsideSameJobs ==
    ASSUME ProgressContext, Outside, NEW q \in Owner
    PROVE  SameJobs(q)
<1>1. NoNewOwner
  BY OthersOwnNothing DEF Outside, ProgressContext, StoreInv
<1> QED
  BY <1>1, OutsideIsQuiet DEF ProgressContext, NoNewOwner, Owns, QuietRow, ChunksLeft, SameJobs

\* A step of p takes from the other programs their jobs, or nothing.
LEMMA StepSameJobs ==
    ASSUME ProgressContext, NEW p \in Owner, StepBy(p), NEW q \in Owner \ {p}
    PROVE  SameJobs(q)
<1>1. CASE Outside
  BY <1>1, OutsideSameJobs
<1>2. ASSUME NEW k \in Job, Claim(k, p)
      PROVE  SameJobs(q)
  BY <1>2 DEF Claim, SameJobs, Owns
<1>3. ASSUME NEW k \in Job, Execute(k, p)
      PROVE  SameJobs(q)
  <2>1. NoNewOwner /\ Owns(k, p)
    BY <1>3, WritesOwnNothing DEF ProgressContext, StoreInv
  <2> QED
    BY <2>1, OneOwner DEF NoNewOwner, SameJobs
<1> QED
  BY <1>1, <1>2, <1>3 DEF StepBy

\* No step takes a plan without its job.
LEMMA StepPlanLasts ==
    ASSUME ProgressContext, NEW p \in Owner, StepBy(p), NEW j \in Job
    PROVE  PlanLasts(j)
<1>1. CASE Outside
  BY <1>1, OutsideIsQuiet DEF ProgressContext, QuietRow
<1>2. ASSUME NEW k \in Job, Claim(k, p)
      PROVE  PlanLasts(j)
  BY <1>2, ClaimIsQuiet DEF ProgressContext, QuietRow
<1>3. ASSUME NEW k \in Job, Execute(k, p)
      PROVE  PlanLasts(j)
  BY <1>3, WritesReachTheirJob DEF ProgressContext, PlanLasts
<1> QED
  BY <1>1, <1>2, <1>3 DEF StepBy

\* A program that stays where it was, and whose job is left to it.
LEMMA KeptRemembers ==
    ASSUME ProgressContext, NEW q \in Owner, Kept(q), SameJobs(q), \A k \in Job : PlanLasts(k)
    PROVE  OwnerKnows(q)' /\ HasPlan(q)'
<1>1. OwnerKnows(q) /\ HasPlan(q)
  BY DEF ProgressContext, Remembered
<1>2. OwnerKnows(q)'
  BY <1>1 DEF OwnerKnows, Kept, SameJobs
<1>3. HasPlan(q)'
  BY <1>1 DEF HasPlan, Kept, PlanLasts
<1> QED
  BY <1>2, <1>3

\* A step of p, by what it makes of p's own memory and job.
LEMMA StepRemembers ==
    ASSUME ProgressContext, NEW p \in Owner, StepBy(p),
           NEW at, NEW job, NEW plan, NEW next, Now(p, at, job, plan, next),
           \A k \in Job : job = k /\ Owns(k, p)' => Knows(p, at, plan, next, chunks'[k]),
           \A k \in Job : job = k /\ NeedsPlan(p, at) =>
               chunks'[k] # NoPlan \/ state'[k] = "deleted"
    PROVE  Remembered'
<1>1. \A q \in Owner \ {p} : OwnerKnows(q)' /\ HasPlan(q)'
  BY KeptRemembers, StepSameJobs, StepPlanLasts DEF Now, OthersKept
<1>2. OwnerKnows(p)' /\ HasPlan(p)'
  BY DEF Now, OwnerKnows, HasPlan
<1> QED
  BY <1>1, <1>2 DEF Remembered

\* Without a write under the lease no chunk begins to run, nor outlives its job.
LEMMA QuietRunning ==
    ASSUME ProgressContext, NEW p \in Owner, Outside \/ \E k \in Job : Claim(k, p)
    PROVE  RunningChunkIsRun'
<1>1. \A j \in Job : NothingStarts(j)
  BY OutsideIsQuiet, ClaimIsQuiet DEF ProgressContext, QuietRow
<1> QED
  BY <1>1 DEF ProgressContext, RunningChunkIsRun, NothingStarts

\* A step that is no write, and after which p works on nothing it knew.
LEMMA OutsideProgress ==
    ASSUME ProgressContext, NEW p \in Owner, Outside,
           NEW at, NEW job, NEW plan, NEW next, Now(p, at, job, plan, next),
           \A k \in Job : job = k /\ Owns(k, p)' => Knows(p, at, plan, next, chunks'[k]),
           \A k \in Job : job = k /\ NeedsPlan(p, at) =>
               chunks'[k] # NoPlan \/ state'[k] = "deleted"
    PROVE  Progress
<1>1. StepBy(p)
  BY DEF StepBy
<1> QED
  BY <1>1, StepRemembers, QuietRunning DEF Progress

\* A step after which p has no job and which is no write.
LEMMA DropProgress ==
    ASSUME ProgressContext, NEW p \in Owner, Outside, NEW a, Now(p, a, NoJob, NoPlan, 0)
    PROVE  Progress
  BY OutsideProgress, JobAssumption

\* A step that is no write and moves no program.
LEMMA StayProgress ==
    ASSUME ProgressContext, Outside, \A q \in Owner : Kept(q)
    PROVE  Progress
<1>1. \A q \in Owner : SameJobs(q)
  BY OutsideSameJobs
<1>2. \A k \in Job : PlanLasts(k)
  BY OutsideIsQuiet DEF ProgressContext, QuietRow
<1>3. \A j \in Job : NothingStarts(j)
  BY OutsideIsQuiet DEF ProgressContext, QuietRow
<1>4. RunningChunkIsRun'
  BY <1>3 DEF ProgressContext, RunningChunkIsRun, NothingStarts
<1> QED
  BY <1>1, <1>2, <1>4, KeptRemembers DEF Progress, Remembered

\* A write under the lease touches the running chunks of its own job only.
LEMMA WriteRunning ==
    ASSUME ProgressContext, NEW p \in Owner, NEW j \in Job, Execute(j, p),
           \A c \in Ordinal : chunks'[j][c] = "Running" =>
               IsRunning(state'[j]) /\ \A d \in Ordinal \ {c} : chunks'[j][d] # "Running"
    PROVE  RunningChunkIsRun'
<1>1. \A k \in Job \ {j} : chunks'[k] = chunks[k] /\ state'[k] = state[k]
  BY WritesReachTheirJob DEF ProgressContext
<1> QED
  BY <1>1 DEF ProgressContext, RunningChunkIsRun

\* A write of p that goes on with its job.
LEMMA WriteProgress ==
    ASSUME ProgressContext, NEW p \in Owner, NEW j \in Job, Execute(j, p), IsRunning(state'[j]),
           session[p].job = j, NEW at, NEW plan, NEW next, Now(p, at, j, plan, next),
           next \in Nat, Knows(p, at, plan, next, chunks'[j]),
           NeedsPlan(p, at) => NeedsPlan(p, session[p].at) \/ chunks'[j] # NoPlan
    PROVE  Progress
<1>1. StepBy(p)
  BY DEF StepBy
<1>2. PlanLasts(j)
  BY <1>1, StepPlanLasts
<1>3. HasPlan(p)
  BY DEF ProgressContext, Remembered
<1>4. NeedsPlan(p, at) => chunks'[j] # NoPlan \/ state'[j] = "deleted"
  BY <1>2, <1>3 DEF HasPlan, PlanLasts
<1>5. Remembered'
  BY <1>1, <1>4, StepRemembers
<1>6. \A c, d \in Ordinal : chunks'[j][c] = "Running" /\ chunks'[j][d] = "Running" => c = d
  <2>1. \A c \in Ordinal : chunks'[j][c] = "Running" => c + 1 = next
    BY DEF Knows
  <2>2. Ordinal \subseteq Nat
    BY BoundAssumption DEF Ordinal
  <2> QED
    BY <2>1, <2>2
<1>7. RunningChunkIsRun'
  BY <1>6, WriteRunning
<1> QED
  BY <1>5, <1>7 DEF Progress

\* A write of p that ends its work.
LEMMA EndProgress ==
    ASSUME ProgressContext, NEW p \in Owner, NEW j \in Job, Execute(j, p),
           NEW a, Now(p, a, NoJob, NoPlan, 0), \A c \in Ordinal : chunks'[j][c] # "Running"
    PROVE  Progress
<1>1. StepBy(p)
  BY DEF StepBy
<1>2. Remembered'
  BY <1>1, StepRemembers, JobAssumption
<1> QED
  BY <1>2, WriteRunning DEF Progress

\* What the executor of a job knows when it writes.
LEMMA WriterKnows ==
    ASSUME ProgressContext, NEW p \in Owner, NEW j \in Job, Execute(j, p), session[p].job = j
    PROVE  /\ Knows(p, session[p].at, session[p].plan, session[p].next, chunks[j])
           /\ HasPlan(p) /\ MemoryShaped(p)
           /\ IsRunning(state[j]) /\ Owns(j, p)
<1>1. Owns(j, p)
  BY WritesOwnNothing DEF ProgressContext, StoreInv
<1>2. OwnerKnows(p) /\ HasPlan(p) /\ MemoryShaped(p)
  BY DEF ProgressContext, Remembered, Shaped
<1> QED
  BY <1>1, <1>2, OwnedRuns DEF OwnerKnows, ProgressContext

-----------------------------------------------------------------------------
(* What every program knows, step by step. *)

\* Claiming.  A queued job has no running chunk, and nobody owns it.
LEMMA ProgressClaiming ==
    ASSUME ProgressContext, NEW p \in Owner, NEW j \in Job, Claiming(p, j)
    PROVE  Progress
<1>0. ExecTypeOK /\ StoreInv /\ MemoryShaped(p) /\ HasPlan(p)
  BY DEF ProgressContext, Shaped, Remembered
<1>1. ASSUME Claim(j, p)
      PROVE  /\ StepBy(p) /\ RunningChunkIsRun'
             /\ \A c \in Ordinal : chunks'[j][c] # "Running"
  <2>1. StepBy(p) /\ RunningChunkIsRun'
    BY <1>1, QuietRunning DEF StepBy
  <2>2. ~IsRunning(state[j])
    BY <1>1, RunningStates DEF Claim
  <2>3. NothingStarts(j)
    BY <1>0, <1>1, ClaimIsQuiet DEF QuietRow
  <2> QED
    BY <2>1, <2>2, <2>3 DEF NothingStarts, ProgressContext, RunningChunkIsRun
<1>2. CASE ClaimNext(p, j)
  <2>1. Claim(j, p) /\ Now(p, "preparing", j, NoPlan, 0) /\ p \notin Cli
    BY <1>0, <1>2, NowClaiming DEF ClaimNext, ClaimNextQueued, Cli
  <2>2. Knows(p, "preparing", NoPlan, 0, chunks'[j])
    BY <1>1, <2>1 DEF Knows, Working
  <2>3. ~NeedsPlan(p, "preparing")
    BY <2>1 DEF NeedsPlan, Planful
  <2> QED
    BY <1>1, <2>1, <2>2, <2>3, StepRemembers DEF Progress
<1>3. CASE BeginNew(p, j)
  <2>1. Outside /\ Now(p, "planning", j, NoPlan, 0) /\ state[j] = "unborn"
    BY <1>0, <1>3, NowClaiming DEF BeginNew, CreateQueued, Outside, Request
  <2>2. ~Owns(j, p)'
    BY <2>1, OutsideSameJobs, OwnedRuns, RunningStates DEF SameJobs, ProgressContext
  <2>3. ~NeedsPlan(p, "planning")
    BY DEF NeedsPlan, Planful, Resumable
  <2> QED
    BY <2>1, <2>2, <2>3, OutsideProgress
<1>4. CASE StorePlan(p, j)
  <2>1. /\ Outside /\ Now(p, "waiting", j, chunks'[j], 0) /\ state[j] = "Queued"
        /\ chunks'[j] # NoPlan
    BY <1>0, <1>4, NowClaiming, PlanIsOne
       DEF StorePlan, ReplaceChunksWhileQueued, Outside, Request, ExecTypeOK, TypeOK
  <2>2. ~Owns(j, p)'
    BY <2>1, OutsideSameJobs, OwnedRuns, RunningStates DEF SameJobs, ProgressContext
  <2> QED
    BY <2>1, <2>2, OutsideProgress
<1>5. CASE ClaimOwn(p, j)
  <2> DEFINE at == IF session[p].at = "waiting" THEN "preparing" ELSE "resetting"
  <2>1. /\ Claim(j, p) /\ session[p].at \in {"waiting", "rewaiting"} /\ session[p].job = j
        /\ Now(p, at, j, session[p].plan, session[p].next)
    BY <1>0, <1>5, NowClaiming DEF ClaimOwn, ClaimQueued
  <2>2. p \in Cli
    BY <1>0, <2>1 DEF MemoryShaped, Shape, Unclaimed, Cli
  <2>3. Knows(p, at, session[p].plan, session[p].next, chunks'[j])
    BY <1>1, <2>1, <2>2 DEF Knows, Working, Cli
  <2>4. chunks[j] # NoPlan
    BY <1>0, <2>1, <2>2 DEF HasPlan, NeedsPlan, Resumable, Claim
  <2>5. chunks'[j] # NoPlan \/ state'[j] = "deleted"
    BY <1>1, <2>1, <2>4, StepPlanLasts DEF PlanLasts
  <2> HIDE DEF at
  <2> QED
    BY <1>1, <2>1, <2>3, <2>5, StepRemembers DEF Progress
<1>6. CASE GiveUp(p, j)
  <2>1. Outside /\ \E a : Now(p, a, NoJob, NoPlan, 0)
    BY <1>0, <1>6, NowStopping DEF GiveUp, Outside
  <2> QED
    BY <2>1, DropProgress
<1> QED
  BY <1>2, <1>3, <1>4, <1>5, <1>6 DEF Claiming

\* Resuming.
LEMMA ProgressResume ==
    ASSUME ProgressContext, NEW p \in Owner, NEW j \in Job, Resume(p, j)
    PROVE  Progress
<1>0. ExecTypeOK /\ StoreInv /\ MemoryShaped(p) /\ OwnerKnows(p) /\ HasPlan(p)
  BY DEF ProgressContext, Shaped, Remembered
<1>1. CASE BeginResume(p, j)
  <2>1. /\ Outside /\ Now(p, "requeueing", j, chunks[j], 0)
        /\ state[j] \in {"Interrupted", "Failed"} /\ chunks'[j] # NoPlan
    BY <1>0, <1>1, NowClaiming DEF BeginResume, Outside, vars
  <2>2. ~Owns(j, p)'
    BY <2>1, OutsideSameJobs, OwnedRuns, RunningStates DEF SameJobs, ProgressContext
  <2> QED
    BY <2>1, <2>2, OutsideProgress
<1>2. CASE RequeueToResume(p, j)
  <2>1. /\ Outside /\ Now(p, "rewaiting", j, session[p].plan, session[p].next)
        /\ state[j] \in {"Interrupted", "Failed", "Cancelled"}
        /\ session[p].at = "requeueing" /\ session[p].job = j
    BY <1>0, <1>2, NowClaiming DEF RequeueToResume, Is, Requeue, Outside, Request
  <2>2. ~Owns(j, p)'
    BY <2>1, OutsideSameJobs, OwnedRuns, RunningStates DEF SameJobs, ProgressContext
  <2>3. p \in Cli
    BY <1>0, <2>1 DEF MemoryShaped, Shape, Unclaimed, Cli
  <2>4. chunks[j] # NoPlan
    BY <1>0, <2>1, <2>3 DEF HasPlan, NeedsPlan, Resumable
  <2>5. chunks'[j] # NoPlan \/ state'[j] = "deleted"
    BY <1>0, <2>1, <2>4, OutsideIsQuiet DEF QuietRow, PlanLasts
  <2> QED
    BY <2>1, <2>2, <2>5, OutsideProgress
<1>3. CASE ResetChunk(p, j)
  <2>1. PICK c \in Ordinal : /\ UpdateChunk(j, c, "Pending", p)
                             /\ Become(p, [session[p] EXCEPT !.plan[c] = "Pending", !.next = c + 1])
    BY <1>3 DEF ResetChunk
  <2>2. session[p].at = "resetting" /\ session[p].job = j
    BY <1>3 DEF ResetChunk, Is
  <2>3. Execute(j, p) /\ state' = state /\ chunks' = [chunks EXCEPT ![j][c] = "Pending"]
    BY <2>1 DEF Execute, UpdateChunk, ChunkState
  <2>4. /\ Knows(p, "resetting", session[p].plan, session[p].next, chunks[j])
        /\ IsRunning(state'[j]) /\ p \notin Gui
    BY <2>2, <2>3, WriterKnows DEF MemoryShaped, Shape
  <2>5. PICK d \in Ordinal : Now(p, "resetting", j, [session[p].plan EXCEPT ![d] = "Pending"], d + 1)
    BY <1>0, <1>3, NowPreparing
  <2>6. \A k \in Ordinal : chunks'[j][k] # "Running"
    <3>1. \A k \in Ordinal : chunks[j][k] # "Running"
      BY <2>4 DEF Knows, Hand
    <3> QED
      BY <1>0, <2>3, <3>1 DEF ExecTypeOK, TypeOK
  <2>7. \A plan, n : Knows(p, "resetting", plan, n, chunks'[j])
    BY <2>4, <2>6 DEF Knows, Working
  <2>8. d + 1 \in Nat
    BY BoundAssumption DEF Ordinal
  <2> QED
    BY <2>2, <2>3, <2>4, <2>5, <2>7, <2>8, WriteProgress
<1>4. CASE ResetDone(p, j)
  <2>1. /\ Outside /\ chunks' = chunks /\ state' = state /\ lease' = lease
        /\ Now(p, "preparing", j, session[p].plan, 0)
        /\ session[p].at = "resetting" /\ session[p].job = j
    BY <1>0, <1>4, NowPreparing DEF ResetDone, Is, Outside, vars
  <2>2. p \in Cli /\ p \notin Gui
    BY <1>0, <2>1 DEF MemoryShaped, Shape, Cli
  <2>3. Owns(j, p)' => Knows(p, "preparing", session[p].plan, 0, chunks'[j])
    BY <1>0, <2>1, <2>2 DEF OwnerKnows, Owns, Leased, Knows, Hand, Working
  <2>4. chunks'[j] # NoPlan \/ state'[j] = "deleted"
    BY <1>0, <2>1, <2>2 DEF HasPlan, NeedsPlan, Resumable
  <2> QED
    BY <2>1, <2>3, <2>4, OutsideProgress
<1>5. CASE ResetFails(p, j)
  <2>1. PICK a : Now(p, a, NoJob, NoPlan, 0)
    BY <1>0, <1>5, NowStopping
  <2>2. CASE UNCHANGED vars
    BY <2>1, <2>2, DropProgress DEF Outside
  <2>3. CASE StopExecution(j, "Interrupted", p)
    <3>1. Execute(j, p) /\ chunks' = chunks
      BY <2>3 DEF Execute, StopExecution
    <3>2. session[p].at = "resetting" /\ session[p].job = j
      BY <1>5 DEF ResetFails, Is
    <3>3. \A c \in Ordinal : chunks'[j][c] # "Running"
      BY <3>1, <3>2, WriterKnows DEF Knows, Hand
    <3> QED
      BY <2>1, <3>1, <3>3, EndProgress
  <2> QED
    BY <1>5, <2>2, <2>3 DEF ResetFails
<1> QED
  BY <1>1, <1>2, <1>3, <1>4, <1>5 DEF Resume

\* Preparing.  No chunk runs, and a plan that is made or kept is remembered.
LEMMA ProgressPreparing ==
    ASSUME ProgressContext, NEW p \in Owner, NEW j \in Job, Preparing(p, j)
    PROVE  Progress
<1>0. /\ ExecTypeOK /\ StoreInv /\ MemoryShaped(p) /\ OwnerKnows(p) /\ HasPlan(p)
      /\ session[p].next \in Nat
  BY BoundAssumption DEF ProgressContext, Shaped, Remembered, ExecTypeOK, Session
<1>1. CASE Advance(p, j)
  <2>1. PICK s \in ExecutingState : AdvanceStage(j, s, p)
    BY <1>1 DEF Advance, GuiStages, CliStages, ExecutingState
  <2>2. session[p].job = j /\ session' = session
    BY <1>1 DEF Advance
  <2>3. Execute(j, p) /\ chunks' = chunks /\ IsRunning(state'[j])
    BY <1>0, <2>1, RunningStates DEF Execute, AdvanceStage, ExecTypeOK, TypeOK
  <2>4. Knows(p, session[p].at, session[p].plan, session[p].next, chunks'[j])
    BY <2>2, <2>3, WriterKnows
  <2>5. Now(p, session[p].at, j, session[p].plan, session[p].next)
    BY <2>2 DEF Now, OthersKept, Kept
  <2> QED
    BY <1>0, <2>2, <2>3, <2>4, <2>5, WriteProgress
<1>2. CASE KeepPlan(p, j)
  <2>1. /\ Outside /\ chunks' = chunks /\ lease' = lease
        /\ Now(p, "loading", j, chunks[j], session[p].next)
        /\ session[p].at = "preparing" /\ session[p].job = j /\ chunks[j] # NoPlan
    BY <1>0, <1>2, NowPreparing DEF KeepPlan, Is, Outside, vars
  <2>2. Owns(j, p)' => Knows(p, "loading", chunks[j], session[p].next, chunks'[j])
    BY <1>0, <2>1 DEF OwnerKnows, Owns, Leased, Knows, Hand, Working
  <2> QED
    BY <2>1, <2>2, OutsideProgress
<1>3. CASE MakePlan(p, j) \/ Replan(p, j)
  <2>1. PICK at \in {"loading", "preparing"} : Now(p, at, j, chunks'[j], session[p].next)
    BY <1>0, <1>3, NowPreparing
  <2>2. ReplaceChunks(j, p) /\ session[p].job = j
    BY <1>3 DEF MakePlan, Replan, Is
  <2>3. Execute(j, p) /\ state' = state
    BY <2>2 DEF Execute, ReplaceChunks
  <2>4. PICK n \in 1 .. MaxChunks : chunks'[j] = Plan(n)
    BY <1>0, <2>2 DEF ReplaceChunks, ExecTypeOK, TypeOK
  <2>5. chunks'[j] # NoPlan /\ \A c \in Ordinal : chunks'[j][c] # "Running"
    BY <2>4, PlanIsOne DEF Plan
  <2>6. Knows(p, at, chunks'[j], session[p].next, chunks'[j])
    BY <2>5 DEF Knows, Working
  <2>7. IsRunning(state'[j])
    BY <2>2, <2>3, WriterKnows
  <2> QED
    BY <1>0, <2>1, <2>2, <2>3, <2>5, <2>6, <2>7, WriteProgress
<1>4. CASE BeginTranscription(p, j)
  <2>1. /\ AdvanceStage(j, "Transcribing", p)
        /\ session[p].at = (IF p \in Gui THEN "loading" ELSE "preparing")
        /\ session[p].job = j
    BY <1>4 DEF BeginTranscription, Is
  <2>2. Execute(j, p) /\ chunks' = chunks /\ IsRunning(state'[j])
    BY <1>0, <2>1, RunningStates DEF Execute, AdvanceStage, ExecutingState, ExecTypeOK, TypeOK
  <2>3. Now(p, "choosing", j, session[p].plan, session[p].next)
    BY <1>0, <1>4, NowPreparing
  <2>4. Knows(p, session[p].at, session[p].plan, session[p].next, chunks'[j])
    BY <2>1, <2>2, WriterKnows
  <2>5. Knows(p, "choosing", session[p].plan, session[p].next, chunks'[j])
    BY <2>1, <2>4 DEF Knows, Hand, Working
  <2>6. NeedsPlan(p, session[p].at)
    BY <2>1 DEF NeedsPlan, Planful, Resumable, Cli
  <2> QED
    BY <1>0, <2>1, <2>2, <2>3, <2>5, <2>6, WriteProgress
<1> QED
  BY <1>1, <1>2, <1>3, <1>4 DEF Preparing

\* Transcribing.  The chunk that runs is the one in hand, in the database and
\* in the memory; the job is finalized when every chunk is done.
LEMMA ProgressTranscribing ==
    ASSUME ProgressContext, NEW p \in Owner, NEW j \in Job, Transcribing(p, j)
    PROVE  Progress
<1> DEFINE plan == session[p].plan
           next == session[p].next
<1>0. /\ ExecTypeOK /\ StoreInv /\ MemoryShaped(p)
      /\ next \in Nat /\ Ordinal \subseteq Nat
      /\ plan \in [Ordinal -> ChunkState \cup {"absent"}]
      /\ chunks[j] \in [Ordinal -> ChunkState \cup {"absent"}]
  BY BoundAssumption DEF ProgressContext, Shaped, ExecTypeOK, Session, Ordinal, TypeOK
<1>1. CASE StartChunk(p, j)
  <2>1. PICK c \in Ordinal :
            /\ UpdateChunk(j, c, "Running", p)
            /\ Become(p, [session[p] EXCEPT !.at = "transcribing", !.plan[c] = "Running",
                                            !.next = c + 1])
    BY <1>1 DEF StartChunk
  <2> DEFINE newPlan == [plan EXCEPT ![c] = "Running"]
  <2>2. session[p].at = "choosing" /\ session[p].job = j
    BY <1>1 DEF StartChunk, Is
  <2>3. /\ Execute(j, p) /\ state' = state
        /\ chunks'[j] = [chunks[j] EXCEPT ![c] = "Running"]
    BY <1>0, <2>1 DEF Execute, UpdateChunk, ChunkState, ExecTypeOK, TypeOK
  <2>4. Knows(p, "choosing", plan, next, chunks[j]) /\ IsRunning(state'[j])
    BY <2>2, <2>3, WriterKnows
  <2>5. Now(p, "transcribing", j, newPlan, c + 1)
    BY <1>0, <2>1, <2>2, NowTranscribing
  <2>6. \A d \in Ordinal : chunks'[j][d] = "Running" => d = c
    BY <1>0, <2>3, <2>4 DEF Knows, Hand
  <2>7. p \in Gui => newPlan = chunks'[j]
    BY <1>0, <2>2, <2>3, <2>4 DEF Knows, MemoryShaped, Shape, Planful
  <2>8. Knows(p, "transcribing", newPlan, c + 1, chunks'[j])
    BY <1>0, <2>6, <2>7 DEF Knows, Hand, Working
  <2>9. NeedsPlan(p, session[p].at) /\ c + 1 \in Nat
    BY <1>0, <2>2 DEF NeedsPlan, Planful
  <2> QED
    BY <2>2, <2>3, <2>4, <2>5, <2>8, <2>9, WriteProgress
<1>2. CASE SavePartial(p, j) \/ SaveFinal(p, j)
  <2>1. PICK what : StoreRows(p, j, what)
    BY <1>2 DEF SavePartial, SaveFinal
  <2>2. session[p].at = "transcribing" /\ session[p].job = j
    BY <1>2 DEF SavePartial, SaveFinal, Is
  <2>3. Execute(j, p) /\ chunks' = chunks /\ state' = state
    BY <2>1 DEF StoreRows, Execute, ReplaceChunk
  <2>4. Knows(p, "transcribing", plan, next, chunks'[j]) /\ IsRunning(state'[j])
    BY <2>2, <2>3, WriterKnows
  <2>5. PICK at \in Hand : Now(p, at, j, plan, next)
    <3>1. CASE SavePartial(p, j)
      BY <2>2, <3>1 DEF SavePartial, Now, OthersKept, Kept, Hand
    <3>2. CASE SaveFinal(p, j)
      BY <1>0, <3>2, NowTranscribing DEF Hand
    <3> QED
      BY <1>2, <3>1, <3>2
  <2>6. Knows(p, at, plan, next, chunks'[j])
    BY <2>4 DEF Knows, Hand, Working
  <2>7. NeedsPlan(p, session[p].at)
    BY <2>2 DEF NeedsPlan, Planful
  <2> QED
    BY <1>0, <2>2, <2>3, <2>4, <2>5, <2>6, <2>7, WriteProgress
<1>3. CASE FinishChunk(p, j)
  <2>1. PICK c \in Current(p) :
            /\ UpdateChunk(j, c, "Completed", p)
            /\ Become(p, [session[p] EXCEPT !.at = "choosing", !.plan[c] = "Completed"])
    BY <1>3 DEF FinishChunk
  <2> DEFINE newPlan == [plan EXCEPT ![c] = "Completed"]
  <2>2. session[p].at = "saved" /\ session[p].job = j /\ c \in Ordinal /\ c + 1 = next
    BY <1>3 DEF FinishChunk, Is, Current
  <2>3. /\ Execute(j, p) /\ state' = state
        /\ chunks'[j] = [chunks[j] EXCEPT ![c] = "Completed"]
    BY <1>0, <2>1, <2>2 DEF Execute, UpdateChunk, ChunkState, ExecTypeOK, TypeOK
  <2>4. Knows(p, "saved", plan, next, chunks[j]) /\ IsRunning(state'[j])
    BY <2>2, <2>3, WriterKnows
  <2>5. Now(p, "choosing", j, newPlan, next)
    BY <1>0, <2>1, <2>2, NowTranscribing
  <2>6. \A d \in Ordinal : chunks'[j][d] # "Running"
    <3> SUFFICES ASSUME NEW d \in Ordinal, chunks'[j][d] = "Running" PROVE FALSE
      OBVIOUS
    <3>1. d # c /\ chunks[j][d] = "Running"
      BY <1>0, <2>2, <2>3
    <3>2. d + 1 = next
      BY <2>4, <3>1 DEF Knows
    <3> QED
      BY <1>0, <2>2, <3>1, <3>2
  <2>7. p \in Gui => newPlan = chunks'[j]
    BY <1>0, <2>2, <2>3, <2>4 DEF Knows, MemoryShaped, Shape, Planful
  <2>8. Knows(p, "choosing", newPlan, next, chunks'[j])
    BY <2>6, <2>7 DEF Knows, Working
  <2>9. NeedsPlan(p, session[p].at)
    BY <2>2 DEF NeedsPlan, Planful
  <2> QED
    BY <1>0, <2>2, <2>3, <2>4, <2>5, <2>8, <2>9, WriteProgress
<1>4. CASE Finalize(p, j)
  <2>1. session[p].at = "choosing" /\ session[p].job = j /\ Ahead(p) = {}
    BY <1>4 DEF Finalize, Is
  <2>2. Execute(j, p) /\ chunks' = chunks /\ IsRunning(state'[j])
    BY <1>0, <1>4, RunningStates
       DEF Finalize, Execute, AdvanceStage, ExecutingState, ExecTypeOK, TypeOK
  <2>3. Knows(p, "choosing", plan, next, chunks[j])
    BY <2>1, <2>2, WriterKnows
  <2>4. Now(p, "finalizing", j, plan, next)
    BY <1>0, <1>4, NowTranscribing
  <2>5. \A c \in Ordinal : chunks[j][c] \in Done
    <3>1. CASE p \in Gui
      <4>1. plan = chunks[j]
        BY <1>0, <2>1, <2>3, <3>1 DEF Knows, MemoryShaped, Shape, Planful
      <4> SUFFICES ASSUME NEW c \in Ordinal PROVE plan[c] \in Done
        BY <4>1
      <4>2. c < next => plan[c] \in Done
        BY <1>0, <2>1 DEF MemoryShaped, Shape
      <4>3. c >= next => plan[c] \in Done
        BY <2>1 DEF Ahead, Done
      <4> QED
        BY <1>0, <4>2, <4>3
    <3>2. CASE p \notin Gui
      BY <1>4, <3>2 DEF Finalize, Cli, Done
    <3> QED
      BY <3>1, <3>2
  <2>6. Knows(p, "finalizing", plan, next, chunks'[j])
    BY <2>2, <2>3, <2>5 DEF Knows, Hand, Working
  <2>7. NeedsPlan(p, session[p].at)
    BY <2>1 DEF NeedsPlan, Planful
  <2> QED
    BY <1>0, <2>1, <2>2, <2>4, <2>6, <2>7, WriteProgress
<1>5. CASE Complete(p, j)
  <2>1. PICK a : Now(p, a, NoJob, NoPlan, 0)
    BY <1>0, <1>5, NowStopping
  <2>2. session[p].at = "finalizing" /\ session[p].job = j
    BY <1>5 DEF Complete, Is
  <2>3. Execute(j, p) /\ chunks' = chunks
    BY <1>5 DEF Complete, Execute, CompleteAndActivate
  <2>4. \A c \in Ordinal : chunks'[j][c] # "Running"
    BY <2>2, <2>3, WriterKnows DEF Knows, Hand
  <2> QED
    BY <2>1, <2>3, <2>4, EndProgress
<1> QED
  BY <1>1, <1>2, <1>3, <1>4, <1>5 DEF Transcribing

\* A running chunk is among those that are written before the job is.
LEMMA NothingLeftRunning ==
    ASSUME ProgressContext, NEW p \in Owner, NEW j \in Job, session[p].job = j,
           Knows(p, session[p].at, session[p].plan, session[p].next, chunks[j]),
           ToCheckpoint(p, j) = {}, NEW c \in Ordinal
    PROVE  chunks[j][c] # "Running"
<1> SUFFICES ASSUME chunks[j][c] = "Running" PROVE FALSE
  OBVIOUS
<1>1. c \in Current(p) /\ session[p].plan[c] = "Running"
  BY DEF Knows, Current
<1> QED
  BY <1>1 DEF ToCheckpoint

\* Stopping.
LEMMA ProgressStopping ==
    ASSUME ProgressContext, NEW p \in Owner, NEW j \in Job, Stopping(p, j)
    PROVE  Progress
<1> DEFINE plan == session[p].plan
           next == session[p].next
<1>0. /\ ExecTypeOK /\ StoreInv /\ OwnerKnows(p)
      /\ next \in Nat /\ Ordinal \subseteq Nat
      /\ plan \in [Ordinal -> ChunkState \cup {"absent"}]
      /\ chunks[j] \in [Ordinal -> ChunkState \cup {"absent"}]
  BY BoundAssumption DEF ProgressContext, Remembered, ExecTypeOK, Session, Ordinal, TypeOK
<1>1. CASE Heartbeat(p, j)
  <2>1. session[p].job = j /\ session' = session
    BY <1>1 DEF Heartbeat
  <2>2. Execute(j, p) /\ chunks' = chunks /\ state' = state
    BY <1>1 DEF Heartbeat, Execute, RenewLease
  <2>3. Knows(p, session[p].at, plan, next, chunks'[j]) /\ IsRunning(state'[j])
    BY <2>1, <2>2, WriterKnows
  <2>4. Now(p, session[p].at, j, plan, next)
    BY <2>1 DEF Now, OthersKept, Kept
  <2> QED
    BY <1>0, <2>1, <2>2, <2>3, <2>4, WriteProgress
<1>2. CASE LoseLease(p, j)
  <2>1. Outside /\ \E a : Now(p, a, NoJob, NoPlan, 0)
    BY <1>0, <1>2, NowStopping DEF LoseLease, Outside
  <2> QED
    BY <2>1, DropProgress
<1>3. CASE Stop(p, j) \/ NoticeCancellation(p, j)
  <2>1. /\ Outside /\ chunks' = chunks /\ lease' = lease
        /\ session[p].job = j /\ session[p].at \in Working \ {"resetting"}
        /\ Now(p, "stopping", j, plan, next)
    BY <1>0, <1>3, NowStopping DEF Stop, NoticeCancellation, Outside, vars
  <2>2. Owns(j, p)' => Knows(p, session[p].at, plan, next, chunks'[j])
    BY <1>0, <2>1 DEF OwnerKnows, Owns, Leased
  <2>3. Owns(j, p)' => Knows(p, "stopping", plan, next, chunks'[j])
    BY <2>2 DEF Knows, Working
  <2>4. ~NeedsPlan(p, "stopping")
    BY DEF NeedsPlan, Planful, Resumable
  <2> QED
    BY <2>1, <2>3, <2>4, OutsideProgress
<1>4. CASE Checkpoint(p, j)
  <2>1. PICK c \in Ordinal, out \in Outcome :
            /\ First(c, ToCheckpoint(p, j)) /\ UpdateChunk(j, c, out, p)
            /\ Become(p, [session[p] EXCEPT !.plan[c] = out])
    BY <1>4 DEF Checkpoint
  <2> DEFINE newPlan == [plan EXCEPT ![c] = out]
  <2>2. session[p].at = "stopping" /\ session[p].job = j
    BY <1>4 DEF Checkpoint, Is
  <2>3. out \in ChunkState /\ out # "Running"
    BY DEF Outcome, ChunkState
  <2>4. Execute(j, p) /\ state' = state /\ chunks'[j] = [chunks[j] EXCEPT ![c] = out]
    BY <1>0, <2>1, <2>3 DEF Execute, UpdateChunk, ExecTypeOK, TypeOK
  <2>5. Knows(p, "stopping", plan, next, chunks[j]) /\ IsRunning(state'[j])
    BY <2>2, <2>4, WriterKnows
  <2>6. Now(p, "stopping", j, newPlan, next)
    BY <1>0, <2>1, <2>2, NowStopping
  <2>7. \A d \in Ordinal : chunks'[j][d] = "Running" => d + 1 = next /\ newPlan[d] = "Running"
    <3> SUFFICES ASSUME NEW d \in Ordinal, chunks'[j][d] = "Running"
                 PROVE  d + 1 = next /\ newPlan[d] = "Running"
      OBVIOUS
    <3>1. d # c /\ chunks[j][d] = "Running"
      BY <1>0, <2>3, <2>4
    <3> QED
      BY <1>0, <2>5, <3>1 DEF Knows
  <2>8. p \in Gui => newPlan = chunks'[j]
    <3> SUFFICES ASSUME p \in Gui PROVE newPlan = chunks'[j]
      OBVIOUS
    <3>1. plan # NoPlan
      BY <2>1 DEF First, ToCheckpoint, NoPlan
    <3> QED
      BY <2>4, <2>5, <3>1 DEF Knows
  <2>9. Knows(p, "stopping", newPlan, next, chunks'[j])
    BY <2>7, <2>8 DEF Knows, Working
  <2>10. ~NeedsPlan(p, "stopping")
    BY DEF NeedsPlan, Planful, Resumable
  <2> QED
    BY <1>0, <2>2, <2>4, <2>5, <2>6, <2>9, <2>10, WriteProgress
<1>5. CASE StopJob(p, j)
  <2>1. PICK a : Now(p, a, NoJob, NoPlan, 0)
    BY <1>0, <1>5, NowStopping
  <2>2. PICK out \in Outcome : StopExecution(j, out, p)
    BY <1>5 DEF StopJob
  <2>3. Execute(j, p) /\ chunks' = chunks
    BY <2>2 DEF Execute, StopExecution, Outcome
  <2>4. session[p].job = j /\ ToCheckpoint(p, j) = {}
    BY <1>5 DEF StopJob, Is
  <2>5. \A c \in Ordinal : chunks'[j][c] # "Running"
    BY <2>3, <2>4, WriterKnows, NothingLeftRunning
  <2> QED
    BY <2>1, <2>3, <2>5, EndProgress
<1> QED
  BY <1>1, <1>2, <1>3, <1>4, <1>5 DEF Stopping

\* Every step.
LEMMA ProgressNext == ProgressContext /\ [ExecNext]_execVars => Progress
<1> SUFFICES ASSUME ProgressContext, [ExecNext]_execVars PROVE Progress
  OBVIOUS
<1>0. ExecTypeOK
  BY DEF ProgressContext
<1>1. CASE \E p \in Owner, j \in Job :
              \/ Claiming(p, j) \/ Resume(p, j) \/ Preparing(p, j)
              \/ Transcribing(p, j) \/ Stopping(p, j)
  BY <1>1, ProgressClaiming, ProgressResume, ProgressPreparing, ProgressTranscribing,
     ProgressStopping
<1>2. ASSUME NEW p \in Owner, Launch(p) \/ Crash(p)
      PROVE  Progress
  <2>1. Outside
    BY <1>2 DEF Launch, RecoverAbandoned, Crash, Outside
  <2>2. PICK a : Now(p, a, NoJob, NoPlan, 0)
    BY <1>0, <1>2, NowFresh DEF Launch, Crash
  <2> QED
    BY <2>1, <2>2, DropProgress
<1>3. CASE (\E p \in Owner : Recover(p) \/ FindNothing(p)) \/ User \/ Clock \/ UNCHANGED execVars
  <2>1. session' = session
    BY <1>3 DEF Recover, FindNothing, User, Clock, execVars
  <2>2. Outside
    <3>1. CASE \E p \in Owner : Recover(p) \/ FindNothing(p)
      BY <3>1 DEF Recover, FindNothing, Outside
    <3>2. CASE User
      BY <3>2, EditsAssumption, DeletableAssumption DEF User, Outside, Request
    <3>3. CASE Clock \/ UNCHANGED execVars
      BY <3>3 DEF Clock, execVars, Outside
    <3> QED
      BY <1>3, <3>1, <3>2, <3>3
  <2> QED
    BY <2>1, <2>2, StayProgress DEF Kept
<1> QED
  BY <1>1, <1>2, <1>3 DEF ExecNext

-----------------------------------------------------------------------------
(* What a recording publishes. *)

\* A job that is completed before and after a step keeps its chunks.
LEMMA CompletedKeepsChunks ==
    ASSUME StoreInv, [Next]_vars, NEW k \in Job, state[k] = "Completed", state'[k] = "Completed"
    PROVE  chunks'[k] = chunks[k]
<1>1. ASSUME NEW j \in Job, NEW o \in Owner, Execute(j, o)
      PROVE  chunks'[k] = chunks[k]
  <2>1. j # k
    BY <1>1, ExecutorRuns, RunningStates
  <2> QED
    BY <1>1, <2>1, WritesReachTheirJob
<1>2. ASSUME NEW j \in Job, NEW o \in Owner, Claim(j, o)
      PROVE  chunks'[k] = chunks[k]
  BY <1>2, ClaimIsQuiet DEF QuietRow, ChunksLeft
<1>3. CASE Outside
  BY <1>3, OutsideIsQuiet DEF QuietRow, ChunksLeft
<1> QED
  BY <1>1, <1>2, <1>3 DEF Next, ClaimNextQueued, ClaimQueued, Outside

\* What was published still is, or nothing is; the rows of completed jobs stay.
PublicationKept ==
    /\ \A r \in Recording : active'[r] \in {active[r], NoJob}
    /\ \A k \in Job : state[k] = "Completed" /\ state'[k] = "Completed" => rows'[k] = rows[k]

\* Such a step leaves what is published whole.
LEMMA WholeKept ==
    ASSUME StoreInv, StoreInv', PublishedIsWhole, [Next]_vars, PublicationKept
    PROVE  PublishedIsWhole'
<1> SUFFICES ASSUME NEW r \in Recording, active'[r] # NoJob
             PROVE  /\ chunks'[active'[r]] # NoPlan
                    /\ \A c \in Ordinal :
                           \/ chunks'[active'[r]][c] = "absent"
                           \/ /\ chunks'[active'[r]][c] = "Completed"
                              /\ rows'[active'[r]][c] = "final"
  BY DEF PublishedIsWhole
<1> DEFINE k == active[r]
<1>1. active'[r] = k /\ k # NoJob
  BY DEF PublicationKept
<1>2. k \in Job /\ state[k] = "Completed"
  BY <1>1, PublishedRests
<1>3. state'[k] = "Completed"
  BY <1>1 DEF StoreInv, PublishedIsComplete
<1>4. chunks'[k] = chunks[k]
  BY <1>2, <1>3, CompletedKeepsChunks
<1>5. rows'[k] = rows[k]
  BY <1>2, <1>3 DEF PublicationKept
<1> QED
  BY <1>1, <1>4, <1>5 DEF PublishedIsWhole

\* Rows that stay, or go with their job.
LEMMA PublicationStays ==
    ASSUME ExecTypeOK, \A r \in Recording : active'[r] \in {active[r], NoJob},
           RowsStay \/ RowsFollow \/ rows' = rows
    PROVE  PublicationKept
  BY RowsAreKept DEF PublicationKept, RowsKept

\* The rows of the one job that is executed.
LEMMA PublicationBeside ==
    ASSUME StoreInv, active' = active, NEW p \in Owner, NEW j \in Job, Execute(j, p),
           \A k \in Job \ {j} : rows'[k] = rows[k]
    PROVE  PublicationKept
  BY ExecutorRuns, RunningStates DEF PublicationKept

\* Nothing but a completion publishes, and no rows of a published job are touched.
LEMMA PublicationProgram ==
    ASSUME ExecTypeOK, StoreInv, NEW p \in Owner, NEW j \in Job,
           \/ Claiming(p, j) \/ Resume(p, j) \/ Preparing(p, j)
           \/ Transcribing(p, j) \/ Stopping(p, j),
           ~Complete(p, j)
    PROVE  PublicationKept
<1> USE PublicationStays
<1>1. CASE Claiming(p, j)
  BY <1>1 DEF Claiming, ClaimNext, ClaimNextQueued, BeginNew, StorePlan, ClaimOwn, ClaimQueued, GiveUp,
     Claim, CreateQueued, ReplaceChunksWhileQueued, vars
<1>2. CASE Resume(p, j)
  BY <1>2 DEF Resume, BeginResume, RequeueToResume, ResetChunk, ResetDone, ResetFails, Requeue,
     UpdateChunk, StopExecution, vars
<1>3. CASE Advance(p, j) \/ KeepPlan(p, j) \/ BeginTranscription(p, j)
  BY <1>3 DEF Advance, KeepPlan, BeginTranscription, AdvanceStage, vars
<1>4. CASE MakePlan(p, j) \/ Replan(p, j)
  <2>1. ReplaceChunks(j, p) /\ NewChunkRows(p, j)
    BY <1>4 DEF MakePlan, Replan
  <2>2. Execute(j, p) /\ active' = active
    BY <2>1 DEF Execute, ReplaceChunks
  <2>3. \A k \in Job \ {j} : rows'[k] = rows[k]
    BY <2>1 DEF NewChunkRows, ExecTypeOK
  <2> QED
    BY <2>2, <2>3, PublicationBeside
<1>5. CASE StartChunk(p, j) \/ FinishChunk(p, j) \/ Finalize(p, j)
  BY <1>5 DEF StartChunk, FinishChunk, Finalize, UpdateChunk, AdvanceStage
<1>6. CASE SavePartial(p, j) \/ SaveFinal(p, j)
  <2>1. PICK what : StoreRows(p, j, what)
    BY <1>6 DEF SavePartial, SaveFinal
  <2>2. Execute(j, p) /\ active' = active
    BY <2>1 DEF StoreRows, Execute, ReplaceChunk
  <2>3. \A k \in Job \ {j} : rows'[k] = rows[k]
    BY <2>1 DEF StoreRows, ExecTypeOK
  <2> QED
    BY <2>2, <2>3, PublicationBeside
<1>7. CASE Stopping(p, j)
  BY <1>7 DEF Stopping, Heartbeat, LoseLease, Stop, NoticeCancellation, Checkpoint, StopJob,
     RenewLease, UpdateChunk, StopExecution, vars
<1> QED
  BY <1>1, <1>2, <1>3, <1>4, <1>5, <1>6, <1>7 DEF Preparing, Transcribing

\* A completion publishes a job whose chunks are all done, so all saved; of the
\* other published jobs it supersedes none.
LEMMA WholeComplete ==
    ASSUME ProgressContext, CompletedChunkIsSaved, PublishedIsWhole, [Next]_vars,
           NEW p \in Owner, NEW j \in Job, Complete(p, j)
    PROVE  PublishedIsWhole'
<1>0. /\ ExecTypeOK /\ StoreInv /\ StoreInv' /\ RecordingOf[j] \in Recording
  BY JobAssumption DEF ProgressContext
<1>1. /\ CompleteAndActivate(j, p) /\ state[j] = "Finalizing" /\ chunks' = chunks
      /\ active' = [active EXCEPT ![RecordingOf[j]] = j]
      /\ rows' = [k \in Job |-> IF k \in Superseded(j) THEN NoRows ELSE rows[k]]
      /\ session[p].at = "finalizing" /\ session[p].job = j
  BY DEF Complete, CompleteAndActivate, Is
<1>2. /\ Knows(p, "finalizing", session[p].plan, session[p].next, chunks[j]) /\ HasPlan(p)
  BY <1>1, WriterKnows DEF Execute
<1>3. /\ chunks'[j] # NoPlan
      /\ \A c \in Ordinal : chunks'[j][c] = "absent"
                            \/ (chunks'[j][c] = "Completed" /\ rows'[j][c] = "final")
  <2>1. chunks[j] # NoPlan
    BY <1>1, <1>2 DEF HasPlan, NeedsPlan, Planful
  <2>2. rows'[j] = rows[j]
    BY <1>1 DEF Superseded
  <2>3. \A c \in Ordinal : chunks[j][c] \in Done
    BY <1>2 DEF Knows
  <2> QED
    BY <1>1, <2>1, <2>2, <2>3 DEF Done, CompletedChunkIsSaved
<1>4. ASSUME NEW r \in Recording, r # RecordingOf[j], active'[r] # NoJob
      PROVE  /\ active'[r] = active[r]
             /\ chunks'[active[r]] = chunks[active[r]] /\ rows'[active[r]] = rows[active[r]]
  <2>1. active'[r] = active[r]
    BY <1>0, <1>1, <1>4 DEF StoreInv, TypeOK
  <2>2. active[r] \in Job /\ RecordingOf[active[r]] = r
    BY <1>0, <1>4, <2>1, PublishedRests
  <2> QED
    BY <1>1, <1>4, <2>1, <2>2 DEF Superseded, JobsOf
<1>5. active'[RecordingOf[j]] = j
  BY <1>0, <1>1 DEF StoreInv, TypeOK
<1> QED
  BY <1>3, <1>4, <1>5 DEF PublishedIsWhole

\* Every step.
LEMMA WholeNext ==
    ASSUME ProgressContext, CompletedChunkIsSaved, PublishedIsWhole, [ExecNext]_execVars
    PROVE  PublishedIsWhole'
<1>0. ExecTypeOK /\ StoreInv /\ StoreInv' /\ [Next]_vars
  BY StepIsStore DEF ProgressContext
<1>1. CASE \E p \in Owner, j \in Job :
              \/ Claiming(p, j) \/ Resume(p, j) \/ Preparing(p, j)
              \/ Transcribing(p, j) \/ Stopping(p, j)
  BY <1>0, <1>1, WholeComplete, PublicationProgram, WholeKept
<1>2. CASE (\E p \in Owner : Launch(p) \/ Recover(p) \/ FindNothing(p) \/ Crash(p))
           \/ Clock \/ UNCHANGED execVars
  <2>1. active' = active /\ rows' = rows
    BY <1>2 DEF Launch, RecoverAbandoned, Recover, FindNothing, Crash, MarkRunningJobsInterrupted,
       ClaimFindsNothing, RowsStay, Clock, Tick, ClockStepsBack, vars, execVars
  <2> QED
    BY <1>0, <2>1, PublicationStays, WholeKept
<1>3. CASE User
  <2>1. \A r \in Recording : active'[r] \in {active[r], NoJob}
    <3>1. ASSUME NEW r \in Recording, PermanentlyDelete(r)
          PROVE  \A s \in Recording : active'[s] \in {active[s], NoJob}
      BY <1>0, <3>1 DEF PermanentlyDelete, StoreInv, TypeOK
    <3>2. (\E r \in Recording : PermanentlyDelete(r)) \/ active' = active
      BY <1>3, DeletableAssumption DEF User, CreateQueued, RequestCancellation, CancelWithoutExecutor,
         Requeue, SaveEditedTranscript, DeleteTerminalJob, Library, MoveToTrash, Restore, ClearCompleted
    <3> QED
      BY <3>1, <3>2
  <2> QED
    BY <1>0, <1>3, <2>1, PublicationStays, WholeKept DEF User
<1> QED
  BY <1>1, <1>2, <1>3 DEF ExecNext

-----------------------------------------------------------------------------
(* Completed chunks. *)

\* A chunk that is not completed, or becomes so, is written.
LEMMA UpdateRetains ==
    ASSUME TypeOK, NEW j \in Job, NEW c \in Ordinal, chunks[j][c] = "Completed",
           NEW k \in Job, NEW d \in Ordinal, NEW s, NEW o \in Owner, UpdateChunk(k, d, s, o),
           chunks[k][d] # "Completed" \/ s = "Completed"
    PROVE  Retained(j, c)
<1>1. chunks' = [chunks EXCEPT ![k][d] = s]
  BY DEF UpdateChunk
<1>2. CASE k = j /\ d = c
  BY <1>1, <1>2 DEF Retained, TypeOK
<1>3. CASE ~(k = j /\ d = c)
  BY <1>1, <1>3 DEF Retained, TypeOK
<1> QED
  BY <1>2, <1>3

\* Only an executor gives up a completed chunk.
LEMMA OutsideRetains ==
    ASSUME StoreInv, Outside, NEW j \in Job, NEW c \in Ordinal, chunks[j][c] = "Completed"
    PROVE  Retained(j, c)
<1>1. CASE MarkRunningJobsInterrupted \/ ClaimFindsNothing
  BY <1>1, RecoveryKeepsChunks DEF ClaimFindsNothing, MarkRunningJobsInterrupted, Retained
<1>2. CASE \E k \in Job : Request(k)
  BY <1>2, RetainedRequest
<1>3. CASE (\E r \in Recording : Library(r)) \/ ClearCompleted
  BY <1>3 DEF Library, MoveToTrash, Restore, PermanentlyDelete, DeleteJobs, ClearCompleted, Retained
<1>4. CASE Tick \/ ClockStepsBack \/ UNCHANGED vars
  BY <1>4 DEF Tick, ClockStepsBack, vars, Retained
<1> QED
  BY <1>1, <1>2, <1>3, <1>4 DEF Outside

\* The desktop that holds a job writes to none of its completed chunks.
LEMMA DesktopRetains ==
    ASSUME ProgressContext, NEW p \in Gui, NEW j \in Job, NEW c \in Ordinal,
           chunks[j][c] = "Completed",
           \/ ResetChunk(p, j) \/ MakePlan(p, j) \/ Replan(p, j) \/ StartChunk(p, j)
           \/ FinishChunk(p, j) \/ Checkpoint(p, j)
    PROVE  Retained(j, c)
<1>0. p \in Owner /\ p \notin Cli /\ TypeOK /\ MemoryShaped(p)
  BY GuiAssumption DEF Cli, ProgressContext, StoreInv, Shaped
<1>1. ASSUME NEW d \in Ordinal, NEW s \in ChunkState, UpdateChunk(j, d, s, p), session[p].job = j,
             session[p].plan[d] \notin {"Completed", "absent"}
      PROVE  Retained(j, c)
  <2>1. Execute(j, p)
    BY <1>1 DEF Execute
  <2>2. session[p].plan # NoPlan
    BY <1>1 DEF NoPlan
  <2>3. session[p].plan = chunks[j]
    BY <1>0, <1>1, <2>1, <2>2, WriterKnows DEF Knows
  <2> QED
    BY <1>0, <1>1, <2>3, UpdateRetains
<1>2. ~ResetChunk(p, j) /\ ~Replan(p, j)
  BY <1>0 DEF ResetChunk, Replan, Is, MemoryShaped, Shape
<1>3. ~MakePlan(p, j)
  BY DEF MakePlan, Started
<1>4. CASE StartChunk(p, j)
  <2>1. PICK d \in Ordinal : First(d, Ahead(p)) /\ UpdateChunk(j, d, "Running", p)
    BY <1>4 DEF StartChunk
  <2>2. session[p].job = j /\ session[p].plan[d] \notin {"Completed", "absent"}
    BY <1>4, <2>1 DEF StartChunk, Is, First, Ahead
  <2> QED
    BY <1>1, <2>1, <2>2 DEF ChunkState
<1>5. CASE FinishChunk(p, j)
  <2>1. PICK d \in Ordinal : UpdateChunk(j, d, "Completed", p)
    BY <1>5 DEF FinishChunk, Current
  <2> QED
    BY <1>0, <2>1, UpdateRetains
<1>6. CASE Checkpoint(p, j)
  <2>1. PICK d \in Ordinal, out \in Outcome :
            First(d, ToCheckpoint(p, j)) /\ UpdateChunk(j, d, out, p)
    BY <1>6 DEF Checkpoint
  <2>2. session[p].job = j /\ session[p].plan[d] \notin {"Completed", "absent"}
    BY <1>6, <2>1 DEF Checkpoint, Is, First, ToCheckpoint
  <2> QED
    BY <1>1, <2>1, <2>2 DEF Outcome, ChunkState
<1> QED
  BY <1>2, <1>3, <1>4, <1>5, <1>6

\* The steps of programs that change chunks.
LEMMA ChunkWriters ==
    ASSUME NEW p \in Owner, NEW j \in Job,
           \/ Claiming(p, j) \/ Resume(p, j) \/ Preparing(p, j)
           \/ Transcribing(p, j) \/ Stopping(p, j)
    PROVE  \/ chunks' = chunks \/ Outside \/ Claim(j, p)
           \/ /\ Execute(j, p)
              /\ \/ ResetChunk(p, j) \/ MakePlan(p, j) \/ Replan(p, j) \/ StartChunk(p, j)
                 \/ FinishChunk(p, j) \/ Checkpoint(p, j)
<1>1. CASE Claiming(p, j)
  BY <1>1 DEF Claiming, ClaimNext, ClaimNextQueued, BeginNew, StorePlan, ClaimOwn, ClaimQueued, GiveUp,
     Outside, Request
<1>2. CASE Resume(p, j)
  BY <1>2 DEF Resume, BeginResume, RequeueToResume, ResetChunk, ResetDone, ResetFails, Requeue,
     Execute, ChunkState, StopExecution, vars
<1>3. CASE Preparing(p, j)
  BY <1>3 DEF Preparing, Advance, KeepPlan, MakePlan, Replan, BeginTranscription, AdvanceStage,
     Execute, vars
<1>4. CASE StartChunk(p, j) \/ FinishChunk(p, j)
  BY <1>4 DEF StartChunk, FinishChunk, Current, Execute, ChunkState
<1>5. CASE SavePartial(p, j) \/ SaveFinal(p, j) \/ Finalize(p, j) \/ Complete(p, j)
  BY <1>5 DEF SavePartial, SaveFinal, StoreRows, ReplaceChunk, Finalize, AdvanceStage, Complete,
     CompleteAndActivate
<1>6. CASE Checkpoint(p, j)
  BY <1>6 DEF Checkpoint, Outcome, Execute, ChunkState
<1>7. CASE Stopping(p, j) /\ ~Checkpoint(p, j)
  BY <1>7 DEF Stopping, Heartbeat, LoseLease, Stop, NoticeCancellation, StopJob, RenewLease,
     StopExecution, vars
<1> QED
  BY <1>1, <1>2, <1>3, <1>4, <1>5, <1>6, <1>7 DEF Transcribing

\* Every step.
LEMMA RetainedByPrograms ==
    ASSUME ProgressContext, [ExecNext]_execVars, NEW j \in Job, NEW c \in Ordinal,
           chunks[j][c] = "Completed", \A p \in Cli : ~Holds(j, p)
    PROVE  Retained(j, c)
<1>0. StoreInv /\ [Next]_vars
  BY StepIsStore DEF ProgressContext
<1>1. CASE ~LiveOn(j)
  BY <1>0, <1>1, RetainedNext
<1>2. CASE LiveOn(j)
  <2>1. ASSUME NEW p \in Owner, NEW k \in Job,
               \/ Claiming(p, k) \/ Resume(p, k) \/ Preparing(p, k)
               \/ Transcribing(p, k) \/ Stopping(p, k)
        PROVE  Retained(j, c)
    <3>1. CASE chunks' = chunks \/ Outside
      BY <1>0, <3>1, OutsideRetains DEF Retained
    <3>2. ~Claim(k, p)
      BY <1>2 DEF Claim, LiveOn
    <3>3. CASE Execute(k, p) /\ k # j
      BY <1>0, <3>3, WritesReachTheirJob DEF Retained
    <3>4. CASE Execute(k, p) /\ k = j
      <4>1. p \in Gui
        BY <1>0, <3>4, ExecutorRuns DEF Cli
      <4> QED
        BY <2>1, <3>1, <3>2, <3>4, <4>1, ChunkWriters, DesktopRetains
    <3> QED
      BY <2>1, <3>1, <3>2, <3>3, <3>4, ChunkWriters
  <2>2. CASE ~\E p \in Owner, k \in Job :
                 \/ Claiming(p, k) \/ Resume(p, k) \/ Preparing(p, k)
                 \/ Transcribing(p, k) \/ Stopping(p, k)
    <3>1. \/ \E p \in Owner : Launch(p) \/ Recover(p) \/ FindNothing(p) \/ Crash(p)
          \/ User \/ Clock \/ UNCHANGED execVars
      BY <2>2 DEF ExecNext
    <3>2. CASE \E p \in Owner : Launch(p) \/ Recover(p) \/ FindNothing(p) \/ Crash(p)
      BY <1>0, <3>2, OutsideRetains DEF Launch, RecoverAbandoned, Recover, FindNothing, Crash, Outside
    <3>3. CASE User
      <4>1. Outside
        BY <3>3, EditsAssumption, DeletableAssumption DEF User, Outside, Request
      <4> QED
        BY <1>0, <4>1, OutsideRetains
    <3>4. CASE Clock \/ UNCHANGED execVars
      BY <1>0, <3>4, OutsideRetains DEF Clock, execVars, Outside
    <3> QED
      BY <3>1, <3>2, <3>3, <3>4
  <2> QED
    BY <2>1, <2>2
<1> QED
  BY <1>1, <1>2

-----------------------------------------------------------------------------
(* The theorems. *)

\* The inductive invariant.  What is published is whole because a program that
\* finalizes knows every chunk to be done; it knows because nobody else writes
\* to a job whose lease row names it, and because its memory has its shape.
ProgressInv ==
    /\ CheckpointInv /\ StoreInv
    /\ Shaped /\ Remembered /\ RunningChunkIsRun /\ PublishedIsWhole

\* It holds at first.
LEMMA ProgressInit == ExecInit => ProgressInv
<1> SUFFICES ASSUME ExecInit PROVE ProgressInv
  OBVIOUS
<1>1. Init /\ \A p \in Owner : session[p] = At("off", NoJob)
  BY DEF ExecInit
<1>2. CheckpointInv
  BY CheckpointInit
<1>3. StoreInv
  BY <1>1, TypeInit, LeasedInit DEF Init, StoreInv, PublishedIsComplete
<1>4. Shaped
  BY <1>1 DEF At, Shaped, MemoryShaped, Shape, Unclaimed, Hand, Planful
<1>5. Remembered
  BY <1>1, JobAssumption DEF At, Remembered, OwnerKnows, HasPlan
<1>6. RunningChunkIsRun /\ PublishedIsWhole
  BY <1>1 DEF Init, RunningChunkIsRun, PublishedIsWhole, NoPlan
<1> QED
  BY <1>2, <1>3, <1>4, <1>5, <1>6 DEF ProgressInv

\* It gives every step its context ...
LEMMA ProgressSteps ==
    ASSUME ProgressInv, [ExecNext]_execVars
    PROVE  ProgressContext /\ CompletedChunkIsSaved /\ PublishedIsWhole
<1>1. [Next]_vars
  BY StepIsStore
<1>2. ExecTypeOK /\ ExecTypeOK' /\ StoreInv
  BY SessionNext, RowsNext DEF ProgressInv, CheckpointInv, ExecTypeOK
<1>3. StoreInv'
  BY <1>1, <1>2, TypeNext, LeasedNext, PublishedNext DEF StoreInv
<1> QED
  BY <1>2, <1>3 DEF ProgressInv, CheckpointInv, ProgressContext

\* ... and no step breaks it.
LEMMA ProgressKept == ProgressInv /\ [ExecNext]_execVars => ProgressInv'
<1> SUFFICES ASSUME ProgressInv, [ExecNext]_execVars PROVE ProgressInv'
  OBVIOUS
<1>1. ProgressContext /\ CompletedChunkIsSaved /\ PublishedIsWhole
  BY ProgressSteps
<1>2. CheckpointInv'
  BY CheckpointKept DEF ProgressInv
<1> QED
  BY <1>1, <1>2, ShapedNext, ProgressNext, WholeNext DEF ProgressInv, ProgressContext, Progress

\* It is an invariant of the programs.
THEOREM ProgressInvariant == ExecSpec => []ProgressInv
  BY ProgressInit, ProgressKept, PTL DEF ExecSpec

\* No job that stopped leaves a chunk running, none has two: whoever stops,
\* fails, completes or recovers a job has written its running chunk before
\* (checkpoint, markRunningJobsInterrupted).
THEOREM NoChunkLeftRunning == ExecSpec => []RunningChunkIsRun
<1>1. ProgressInv => RunningChunkIsRun
  BY DEF ProgressInv
<1> QED
  BY <1>1, ProgressInvariant, PTL

\* The desktop decides by m_chunks, which it reads once: as long as it holds
\* the lease they are the rows of job_chunks.
THEOREM DesktopMemoryIsCurrent == ExecSpec => []MemoryIsCurrent
<1>1. ASSUME ProgressInv, NEW p \in Gui, NEW j \in Job,
             session[p].job = j, session[p].plan # NoPlan, Holds(j, p)
      PROVE  session[p].plan = chunks[j]
  <2>1. Owns(j, p)
    BY <1>1 DEF Holds, LiveOn, LeaseLive, Owns, Leased
  <2>2. OwnerKnows(p)
    BY <1>1, GuiAssumption DEF ProgressInv, Remembered
  <2> QED
    BY <1>1, <2>1, <2>2 DEF OwnerKnows, Knows
<1>2. ProgressInv => MemoryIsCurrent
  BY <1>1 DEF MemoryIsCurrent
<1> QED
  BY <1>2, ProgressInvariant, PTL

\* Nothing is published that lacks a chunk, or the final text of one, whatever
\* crashes, takeovers, resumes and deletions came between (completeAndActivate).
THEOREM PublishedTranscriptIsWhole == ExecSpec => []PublishedIsWhole
<1>1. ProgressInv => PublishedIsWhole
  BY DEF ProgressInv
<1> QED
  BY <1>1, ProgressInvariant, PTL

\* docs/user/cli.md:45, but for a command line that holds the job: what the
\* desktop believes of the chunks never makes it take a completed one back.
THEOREM CompletedChunksAreRetained == ExecSpec => CompletedChunksRetained
<1>1. ProgressInv /\ [ExecNext]_execVars =>
          [\A j \in Job, c \in Ordinal :
               chunks[j][c] = "Completed" /\ (\A p \in Cli : ~Holds(j, p)) =>
                   chunks'[j][c] = "Completed" \/ state'[j] = "deleted"]_execVars
  BY ProgressSteps, RetainedByPrograms DEF Retained
<1> QED
  BY <1>1, ProgressInvariant, PTL DEF ExecSpec, CompletedChunksRetained
=============================================================================
