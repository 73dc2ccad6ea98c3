--------------------------- MODULE WorkerSession ---------------------------
(***************************************************************************)
(* The desktop application and its recognition worker: the worker process  *)
(* and its restarts (WorkerProcessManager), the requests that go to it and *)
(* the answers that come back (AsrWorkerClient, WorkerServer,              *)
(* worker/main.cpp), the coordinator that runs one job with them and lets  *)
(* go of it only when the worker is quiet (TranscriptionCoordinator), and  *)
(* the model test that borrows the worker (ModelTestController).           *)
(*                                                                         *)
(* Signals between these objects are calls, so one step of the event loop  *)
(* runs through several of them.  Such a step is written with operators    *)
(* from a state s of the desktop to the state the call leaves, in the      *)
(* order of the code; a choice x stands for what the step finds outside.   *)
(***************************************************************************)
EXTENDS Naturals, Sequences, FiniteSets, SequencesExt

CONSTANTS
    Job, Model,
    ModelOf,             \* the model each job was queued with
    Tested,              \* the models a user may test
    Variants,            \* number of worker executables, best one first
    MaximumRestarts,     \* MaximumRestartsInWindow
    MaximumUnloads,      \* attempts to unload a tested model
    LaunchesMayFail,     \* an executable may refuse to start
    CheckpointsMayFail,  \* the write of a job's end may fail
    LeaseMayBeLost,      \* another process may take the job over
    Analyses,            \* a job may have its speech analysed first
    RequestIds,          \* bound: request ids in use at a time
    Backlog,             \* bound: messages under way when a job or a test begins
    None, Tester         \* nobody; the model test, as one a request is for

ASSUME ModelAssumption == ModelOf \in [Job -> Model] /\ Tested \subseteq Model
ASSUME CountAssumption == /\ {Variants, MaximumRestarts, RequestIds, Backlog} \subseteq Nat
                          /\ MaximumUnloads \in Nat \ {0}
ASSUME FlagAssumption  ==
    {LaunchesMayFail, CheckpointsMayFail, LeaseMayBeLost, Analyses} \subseteq BOOLEAN
ASSUME NamesAssumption == None \notin Job \cup Model /\ Tester \notin Job /\ Tester # None

VARIABLES
    job,          \* state of every job in the database
    leased,       \* the application still holds the lease of its active job
    manager,      \* WorkerProcessManager
    coordinator,  \* TranscriptionCoordinator
    inbox,        \* messages to the worker that it has not read
    wire,         \* messages from the worker that the client has not read
    op,           \* the worker's operation (WorkerOperationState)
    resident,     \* the model in the worker's memory
    test,         \* ModelTestController
    over          \* the application has quit

vars == <<job, leased, manager, coordinator, inbox, wire, op, resident, test, over>>

Id       == 1 .. RequestIds
Variant  == 1 .. Variants
JobState == {"queued", "running", "cancelling", "completed", "cancelled", "failed", "interrupted"}

\* Timers of the manager; one that a new ticket or generation outdates is gone.
Timer == {"grace", "forcedStart", "recovery"}

Manager == [proc     : {"none", "alive", "dying"},  \* dying: killed or crashed, not yet reaped
            ready    : BOOLEAN,                     \* the client has authenticated
            variant  : 0 .. Variants,               \* m_currentExecutable
            failed   : SUBSET Variant,              \* m_failedExecutables
            spent    : 0 .. MaximumRestarts,        \* m_restartTimes of the last minute
            restarts : 0 .. 2 * MaximumRestarts,    \* restart timers that have not fired
            forced   : 0 .. RequestIds,             \* m_forcedCancellationRequestId, 0: none pending
            awaiting : BOOLEAN,                     \* m_forcedCancellationAwaitingRestart
            timers   : SUBSET Timer]

Cause   == {"fail", "cancel", "interrupt", "abandon"}
RunsJob == {"analyze", "load", "transcribe"}

Coordinator == [active  : Job \cup {None},
                at      : {"idle", "preparing", "media", "analyzing", "waiting", "loading",
                           "transcribing", "cancelling"},
                req     : [id : 0 .. RequestIds, type : RunsJob \cup {"none", "capabilities"}],
                pending : Cause \cup {"none"},      \* m_pendingTerminalAction
                quiet   : BOOLEAN,                  \* m_workerQuiescenceConfirmed
                media   : BOOLEAN,                  \* normalization or waveform in progress
                next    : BOOLEAN,                  \* the timer that starts the next chunk
                polling : BOOLEAN,                  \* ensureWorkerReady will look again
                retry   : SUBSET (Cause \ {"abandon"}),  \* timers that repeat a failed checkpoint
                cache   : Model \cup {None},        \* m_loadedModelPath
                runtime : {"unknown", "yes", "no"}] \* m_runtimeAvailability

Test == [phase     : {"idle", "waiting", "loading", "loaded", "transcribing", "unloadDue", "unloading"},
         id        : 0 .. RequestIds,
         model     : Model \cup {None},
         cancelled : BOOLEAN,
         loaded    : BOOLEAN,
         attempts  : 0 .. MaximumUnloads]

Request == [type : RunsJob \cup {"capabilities", "unload", "cancel"}, id : 0 .. RequestIds,
            for : Job \cup {None, Tester}, model : Model \cup {None}]
Operation == [type : RunsJob \cup {"unload", "none"}, id : 0 .. RequestIds,
              for : Job \cup {None, Tester}, model : Model \cup {None},
              cancelled : BOOLEAN, answered : BOOLEAN]
Answer == [type : {"capabilities", "unavailable", "loaded", "unloaded", "analyzed", "done",
                   "cancelled", "error"}, id : Id]

NoRequest == [id |-> 0, type |-> "none"]
NoOp      == [type |-> "none", id |-> 0, for |-> None, model |-> None,
              cancelled |-> FALSE, answered |-> FALSE]
NoTest    == [phase |-> "idle", id |-> 0, model |-> None, cancelled |-> FALSE,
              loaded |-> FALSE, attempts |-> 0]

\* Every part of the state has its type; counters stay within the limits of the code.
SessionTypeOK ==
    /\ job \in [Job -> JobState]
    /\ {leased, over} \subseteq BOOLEAN
    /\ manager \in Manager
    /\ coordinator \in Coordinator
    /\ inbox \in Seq(Request) /\ wire \in Seq(Answer)
    /\ op \in Operation /\ resident \in Model \cup {None}
    /\ test \in Test

\* main.cpp starts the worker before the coordinator initializes.
FreshManager == [proc |-> "none", ready |-> FALSE, variant |-> 0, failed |-> {}, spent |-> 0,
                 restarts |-> 0, forced |-> 0, awaiting |-> FALSE, timers |-> {}]
Vacant == [active |-> None, at |-> "idle", req |-> NoRequest, pending |-> "none", quiet |-> FALSE,
           media |-> FALSE, next |-> FALSE, polling |-> FALSE, retry |-> {}, cache |-> None,
           runtime |-> "unknown"]

-----------------------------------------------------------------------------
(* Calls between the objects of the desktop application.                    *)

Here == [job |-> job, leased |-> leased, m |-> manager, c |-> coordinator,
         inbox |-> inbox, wire |-> wire]
\* The existential names the state the calls leave, once.
Go(d) == \E s \in {d} : /\ job' = s.job /\ leased' = s.leased
                        /\ manager' = s.m /\ coordinator' = s.c
                        /\ inbox' = s.inbox /\ wire' = s.wire

\* What a step finds outside: whether the write of a job's end succeeds, whether the
\* step's own work does, whether a chunk is left, and which executable starts (0: none).
Choice == [ok : IF CheckpointsMayFail THEN BOOLEAN ELSE {TRUE}, works : BOOLEAN,
           more : BOOLEAN, start : 0 .. Variants]

\* A request id is a fresh UUID.
UsedIds(s) ==
    {s.c.req.id, s.m.forced, op.id, test.id} \cup {s.inbox[i].id : i \in DOMAIN s.inbox}
                                             \cup {s.wire[i].id : i \in DOMAIN s.wire}
FreshId(s) == CHOOSE i \in Id : i \notin UsedIds(s)
Room       == ~(Id \subseteq UsedIds(Here))  \* bound of the steps that may send a request

SendRequest(s, type) ==
    LET i == FreshId(s)
    IN  [s EXCEPT !.c.req = [id |-> i, type |-> type],
                  !.inbox = Append(@, [type |-> type, id |-> i, for |-> s.c.active,
                                       model |-> ModelOf[s.c.active]])]

DurableCancel(s) == s.c.at = "cancelling" \/ s.job[s.c.active] = "cancelling"

\* Lease loss before everything, then the user's cancellation.
CauseOf(s, p) ==
    IF ~s.leased THEN "abandon"
    ELSE IF p \in {"fail", "interrupt"} /\ DurableCancel(s) THEN "cancel" ELSE p

\* A cause that waits gives way to a cancellation or to the loss of the lease.
Higher(old, new) ==
    IF old = "none" \/ new = "abandon" \/ (new = "cancel" /\ old # "abandon") THEN new ELSE old

Outcome == [fail |-> "failed", cancel |-> "cancelled", interrupt |-> "interrupted"]

\* clearActive: the resident-model cache and the runtime's availability stay.
Release(s) == [s EXCEPT !.c = [Vacant EXCEPT !.cache = s.c.cache, !.runtime = s.c.runtime],
                        !.leased = FALSE]

\* The job's last write, or the hand-over of a job whose lease is lost.
Checkpoint(s, p, x) ==
    IF p = "abandon" THEN Release([s EXCEPT !.c.cache = None])
    ELSE IF x.ok THEN Release([s EXCEPT !.job[s.c.active] = Outcome[p]])
    ELSE [s EXCEPT !.c.retry = @ \cup {p}, !.c.at = IF p = "cancel" THEN "cancelling" ELSE @]

FinishPendingTerminalCheckpoint(s, x) ==
    IF s.c.pending = "none" THEN s
    ELSE LET p == CauseOf(s, s.c.pending)
         IN  Checkpoint([s EXCEPT !.c.pending = p, !.c.quiet = TRUE], p, x)

SettleForcedCancellation(s, x) ==
    IF s.m.forced = 0 THEN s
    ELSE FinishPendingTerminalCheckpoint(
             [s EXCEPT !.m.forced = 0, !.m.awaiting = FALSE,
                       !.m.timers = @ \ {"grace", "recovery"}], x)

\* A new generation: what was under way on the old channel is never read.
Disconnect(s) == [s EXCEPT !.m.ready = FALSE, !.m.timers = @ \ {"grace"},
                           !.inbox = <<>>, !.wire = <<>>]
Kill(s) == [s EXCEPT !.m.proc = IF @ = "none" THEN @ ELSE "dying"]

AbortImmediately(s, x) ==
    IF s.m.proc = "none" THEN SettleForcedCancellation(Disconnect(s), x) ELSE Kill(Disconnect(s))

\* CancelJob carries no job id for a model load: it then stops whatever runs.
ForceCancelUnbounded(s) ==
    [s EXCEPT !.m.forced = s.c.req.id, !.m.awaiting = ~s.m.ready,
              !.inbox = Append(@, [type |-> "cancel", id |-> 0, for |-> s.c.active, model |-> None])]
ForceCancelAfterGrace(s) ==
    LET t == [s EXCEPT !.m.forced = s.c.req.id, !.m.awaiting = ~s.m.ready]
    IN  CASE s.m.forced = s.c.req.id -> s
          [] s.m.forced # s.c.req.id /\ s.m.ready ->
                 [t EXCEPT !.m.timers = @ \cup {"grace"},
                           !.inbox = Append(@, [type |-> "cancel", id |-> 0, model |-> None,
                                for |-> IF s.c.req.type = "load" THEN None ELSE s.c.active])]
          [] s.m.forced # s.c.req.id /\ ~s.m.ready /\ s.m.proc # "none" -> Kill(t)
          [] OTHER -> [t EXCEPT !.m.timers = @ \cup {"forcedStart"}]

MayStillRunInference(s) == s.c.req.type \in {"analyze", "transcribe"}
ActiveWorkerRequestMayStillRun(s) == s.c.req.type \in RunsJob

\* failActiveJob, finishCancellation, abandonActiveJobAfterLeaseLoss and shutdown: let go of
\* the job for the cause p, at once or once the worker is quiet.  answered: the worker's
\* last message about the running request is the one being handled.
StopJob(s, p, answered, x) ==
    LET q == CauseOf(s, p)
        t == [s EXCEPT !.c.at = IF q = "cancel" THEN "cancelling" ELSE @]
        w == [t EXCEPT !.c.pending = Higher(@, q)]
    IN  CASE ~ActiveWorkerRequestMayStillRun(s) -> Checkpoint(t, q, x)
          [] ActiveWorkerRequestMayStillRun(s) /\ (s.c.quiet \/ answered) ->
                 FinishPendingTerminalCheckpoint(w, x)
          [] OTHER -> IF q = "abandon" THEN AbortImmediately(ForceCancelAfterGrace(w), x)
                                       ELSE ForceCancelAfterGrace(w)

\* The worker has exited, or a failed checkpoint of such an interruption is repeated.
InterruptKeepingCache(s, x) ==
    CASE s.c.active = None -> s
      [] s.c.active # None /\ s.c.pending # "none" -> FinishPendingTerminalCheckpoint(s, x)
      [] s.c.active # None /\ s.c.pending = "none" /\ ~s.leased -> StopJob(s, "abandon", FALSE, x)
      [] OTHER -> Checkpoint(s, CauseOf(s, "interrupt"), x)
InterruptActiveJob(s, x) ==
    LET t == [s EXCEPT !.c.cache = None]
    IN  CASE t.c.active = None -> t
          [] t.c.active # None /\ t.c.pending # "none" -> FinishPendingTerminalCheckpoint(t, x)
          [] t.c.active # None /\ t.c.pending = "none" /\ ~t.leased ->
                 StopJob(t, "abandon", FALSE, x)
          [] OTHER -> Checkpoint(t, CauseOf(t, "interrupt"), x)

ScheduleRecovery(m) == [m EXCEPT !.timers = IF m.forced # 0 /\ m.proc = "none"
                                            THEN @ \cup {"recovery"} ELSE @]

\* start() tries the executables that have not failed, in order; every one that does not
\* start has failed.
MayStart(m, v) ==
    LET left == Variant \ m.failed
    IN  \/ m.proc # "none" /\ v = 0
        \/ m.proc = "none" /\ v = 0 /\ (LaunchesMayFail \/ left = {})
        \/ m.proc = "none" /\ v \in left /\ (LaunchesMayFail \/ \A u \in left : v <= u)
Start(m, v) ==
    CASE m.proc # "none" -> m
      [] m.proc = "none" /\ v = 0 -> ScheduleRecovery([m EXCEPT !.failed = Variant])
      [] OTHER -> [m EXCEPT !.proc = "alive", !.variant = v, !.timers = @ \ {"grace"},
                            !.failed = @ \cup {u \in Variant : u < v}]

\* A stage transition and a chunk write need the lease; a transition a job not cancelled.
MayAdvance(s) == s.leased /\ s.job[s.c.active] = "running"

CompleteActiveJob(s, x) ==
    CASE DurableCancel(s) -> StopJob(s, "cancel", FALSE, x)
      [] ~DurableCancel(s) /\ (~MayAdvance(s) \/ ~x.works) -> StopJob(s, "fail", FALSE, x)
      [] OTHER -> Release([s EXCEPT !.job[s.c.active] = "completed"])

StartNextChunk(s, x) ==
    CASE s.c.at = "cancelling" -> StopJob(s, "cancel", FALSE, x)
      [] s.c.at # "cancelling" /\ ~x.more -> CompleteActiveJob(s, x)
      [] s.c.at # "cancelling" /\ x.more /\ (~s.leased \/ ~x.works \/ ~s.m.ready) ->
             StopJob(s, "fail", FALSE, x)
      [] OTHER -> SendRequest(s, "transcribe")

LoadModel(s, x) ==
    CASE ~MayAdvance(s) \/ ~x.works -> StopJob(s, "fail", FALSE, x)
      [] MayAdvance(s) /\ x.works /\ s.c.cache = ModelOf[s.c.active] ->
             StartNextChunk([s EXCEPT !.c.at = "transcribing"], x)
      [] OTHER -> SendRequest([s EXCEPT !.c.at = "loading"], "load")

ContinueAfterWorkerPreflight(s, x) ==
    CASE s.c.at = "cancelling" -> StopJob(s, "cancel", FALSE, x)
      [] s.c.at # "cancelling" /\ s.c.runtime = "no" -> StopJob(s, "fail", FALSE, x)
      [] s.c.at = "preparing" /\ s.c.runtime = "yes" -> [s EXCEPT !.c.at = "media"]
      [] s.c.at = "analyzing" /\ s.c.runtime = "yes" -> SendRequest(s, "analyze")
      [] s.c.at = "waiting" /\ s.c.runtime = "yes" -> LoadModel(s, x)
      [] OTHER -> s

\* The worker is ready: ask what it can do, once for every worker process.
RequestOrContinue(s, x) ==
    CASE s.c.runtime # "unknown" -> ContinueAfterWorkerPreflight(s, x)
      [] s.c.runtime = "unknown" /\ s.c.req.type = "capabilities" -> s
      [] OTHER -> SendRequest(s, "capabilities")

EnsureWorkerReady(s, x) ==
    CASE s.c.at = "cancelling" -> StopJob(s, "cancel", FALSE, x)
      [] s.c.at # "cancelling" /\ s.m.ready -> RequestOrContinue(s, x)
      [] OTHER -> LET t == [s EXCEPT !.m = Start(s.m, x.start)]
                  IN  IF t.m.proc = "none" THEN StopJob(t, "fail", FALSE, x)
                      ELSE [t EXCEPT !.c.polling = TRUE]

BeginWaitingForModel(s, x) ==
    IF MayAdvance(s) /\ x.works THEN EnsureWorkerReady([s EXCEPT !.c.at = "waiting"], x)
    ELSE StopJob(s, "fail", FALSE, x)

-----------------------------------------------------------------------------
(* The coordinator: a job's way through the worker.                         *)

Outside == {x \in Choice : MayStart(manager, x.start)}
Ending  == {x \in Outside : x.works /\ x.more}  \* for the steps that do no work of their own

Quiet == UNCHANGED <<op, resident, test, over>>

Serving == coordinator.active # None

\* scheduleNext claims the next queued job, beginJob looks for the worker.
Claim(j) ==
    /\ ~Serving /\ test.phase = "idle" /\ manager.forced = 0
    /\ job[j] = "queued" /\ Len(inbox) + Len(wire) <= Backlog
    /\ \E x \in Ending :
           Go(EnsureWorkerReady([Here EXCEPT !.job[j] = "running", !.leased = TRUE,
                                             !.c.active = j, !.c.at = "preparing"], x))
    /\ Quiet

\* ensureWorkerReady looks again, and gives up in the end.
Poll ==
    /\ coordinator.polling
    /\ coordinator.at = "cancelling" \/ manager.ready
    /\ \E x \in Outside : Go(EnsureWorkerReady([Here EXCEPT !.c.polling = FALSE], x))
    /\ Quiet
GiveUpPolling ==
    /\ coordinator.polling /\ ~manager.ready
    /\ \E x \in Ending : Go(StopJob([Here EXCEPT !.c.polling = FALSE], "fail", FALSE, x))
    /\ Quiet

\* Source check, inspection, normalization and waveform; while one of the last two runs,
\* a cancellation waits for it.
MediaStep ==
    /\ coordinator.at = "media"
    /\ \E x \in Outside :
           Go(IF x.works /\ MayAdvance(Here) THEN [Here EXCEPT !.c.media = ~@]
              ELSE StopJob([Here EXCEPT !.c.media = FALSE], "fail", FALSE, x))
    /\ Quiet
PlanReady ==
    /\ coordinator.at = "media"
    /\ \E x \in Outside : Go(BeginWaitingForModel([Here EXCEPT !.c.media = FALSE], x))
    /\ Quiet
PrepareAnalysis ==
    /\ Analyses /\ coordinator.at = "media"
    /\ \E x \in Ending :
           LET s == [Here EXCEPT !.c.media = FALSE]
           IN  Go(IF MayAdvance(s) THEN EnsureWorkerReady([s EXCEPT !.c.at = "analyzing"], x)
                  ELSE StopJob(s, "fail", FALSE, x))
    /\ Quiet
MediaStopped ==
    /\ coordinator.at = "cancelling" /\ coordinator.media
    /\ \E x \in Ending : Go(StopJob([Here EXCEPT !.c.media = FALSE], "cancel", FALSE, x))
    /\ Quiet

NextChunk ==
    /\ coordinator.next
    /\ \E x \in Outside : Go(StartNextChunk([Here EXCEPT !.c.next = FALSE], x))
    /\ Quiet

\* Progress or a segment of the running request that the coordinator cannot use or store;
\* a model load sends neither.
RefuseProgress ==
    /\ coordinator.req.type \in {"analyze", "transcribe"} /\ coordinator.pending = "none"
    /\ manager.ready
    /\ coordinator.req.id \in {op.id} \cup {wire[k].id : k \in DOMAIN wire}
    /\ \E x \in Ending : Go(StopJob(Here, "fail", FALSE, x))
    /\ Quiet

CapabilitiesTimeout ==
    /\ coordinator.req.type = "capabilities"
    /\ \E x \in Ending : Go(StopJob(Here, "fail", FALSE, x))
    /\ Quiet

\* A failed checkpoint is repeated a second later.
RetryCheckpoint(p) ==
    /\ p \in coordinator.retry
    /\ \E x \in Ending :
           LET s == [Here EXCEPT !.c.retry = @ \ {p}]
           IN  Go(IF p = "interrupt" THEN InterruptActiveJob(s, x) ELSE StopJob(s, p, FALSE, x))
    /\ Quiet

\* The last message of the running request, which the job goes on from.
HandleWorkerEnvelope(s, a, x) ==
    LET done == [s EXCEPT !.c.req = NoRequest]
    IN  CASE a.type = "error" ->
                 StopJob([s EXCEPT !.c.cache = IF s.c.req.type = "load" /\ s.c.at # "cancelling"
                                               THEN None ELSE @], "fail", TRUE, x)
          [] a.type = "cancelled" -> StopJob(s, "fail", TRUE, x)
          [] a.type \in {"capabilities", "unavailable"} ->
                 ContinueAfterWorkerPreflight(
                     [done EXCEPT !.c.runtime = IF a.type = "capabilities" THEN "yes" ELSE "no"], x)
          [] a.type = "analyzed" ->
                 IF x.works THEN BeginWaitingForModel(done, x) ELSE StopJob(s, "fail", TRUE, x)
          [] a.type = "loaded" ->
                 LET kept == [s EXCEPT !.c.cache = ModelOf[s.c.active]]
                 IN  IF ~x.works THEN StopJob(kept, "fail", TRUE, x)
                     ELSE IF ~MayAdvance(s)
                     THEN StopJob([kept EXCEPT !.c.req = NoRequest], "fail", FALSE, x)
                     ELSE StartNextChunk([kept EXCEPT !.c.req = NoRequest,
                                                      !.c.at = "transcribing"], x)
          [] a.type = "done" ->
                 IF x.works /\ s.leased THEN [done EXCEPT !.c.next = TRUE]
                 ELSE StopJob(s, "fail", TRUE, x)

\* The manager sees a message first: the one its forced cancellation waits for settles it.
ReadAnswer ==
    /\ manager.ready /\ wire # <<>>
    /\ LET a == Head(wire)
           s == [Here EXCEPT !.wire = Tail(@)]
       IN  \/ /\ a.id = manager.forced
              /\ \E x \in Ending : Go(SettleForcedCancellation(s, x))
           \/ /\ a.id # manager.forced /\ a.id = coordinator.req.id
              /\ coordinator.pending = "none"
              /\ \E x \in Outside : Go(HandleWorkerEnvelope(s, a, x))
           \/ /\ a.id \notin {manager.forced, test.id}
              /\ a.id = coordinator.req.id => coordinator.pending # "none"
              /\ Go(s)
    /\ Quiet

-----------------------------------------------------------------------------
(* Users and the other processes.                                           *)

\* abortActiveOperationForCancellation, when the active job is found cancelled.
NoticeCancellation(s, x) ==
    LET t == [s EXCEPT !.c.at = "cancelling"]
    IN  IF s.c.media THEN t ELSE StopJob(t, "cancel", FALSE, x)

Cancel(j) ==
    /\ job[j] \in {"queued", "running"}
    /\ LET s == [Here EXCEPT !.job[j] = IF @ = "queued" THEN "cancelled" ELSE "cancelling"]
       IN  \E x \in Ending :
               Go(IF j = coordinator.active /\ coordinator.at # "cancelling"
                  THEN NoticeCancellation(s, x) ELSE s)
    /\ Quiet
CancelElsewhere(j) ==
    /\ job[j] = "running"
    /\ Go([Here EXCEPT !.job[j] = "cancelling"])
    /\ Quiet
Retry(j) ==
    /\ job[j] \in {"cancelled", "failed", "interrupted"}
    /\ Go([Here EXCEPT !.job[j] = "queued"])
    /\ Quiet

\* The lease ran out and another process recovered the job.
LoseLease ==
    /\ LeaseMayBeLost /\ Serving /\ leased
    /\ Go([Here EXCEPT !.leased = FALSE,
                       !.job[coordinator.active] =
                           IF @ = "cancelling" THEN "cancelled" ELSE "interrupted"])
    /\ Quiet

\* renewActiveLease finds the cancellation of another process, or the lease lost.
Heartbeat ==
    /\ Serving
    /\ \/ /\ leased /\ job[coordinator.active] = "cancelling" /\ coordinator.at # "cancelling"
          /\ \E x \in Ending : Go(NoticeCancellation(Here, x))
       \/ /\ ~leased
          /\ \E x \in Ending : Go(StopJob(Here, "abandon", FALSE, x))
    /\ Quiet

ChangeBackend ==
    /\ manager.failed # {}
    /\ Go([Here EXCEPT !.m.failed = {}])
    /\ Quiet

-----------------------------------------------------------------------------
(* The worker process.                                                      *)

\* The tester's connection is lost: the test fails and gives the worker back.
TestFails == test' = NoTest

SendForTest(s, i, type, model) ==
    [s EXCEPT !.inbox = Append(@, [type |-> type, id |-> i, for |-> Tester, model |-> model])]

\* HelloAck: a forced cancellation that waits for a new worker settles, and a model test
\* that waits for one begins.
Connect ==
    /\ manager.proc = "alive" /\ ~manager.ready
    /\ test.phase = "waiting" => Room
    /\ \E x \in Ending :
           LET s == [Here EXCEPT !.m.ready = TRUE]
               t == IF s.m.awaiting THEN SettleForcedCancellation(s, x) ELSE s
               i == FreshId(t)
           IN  IF test.phase = "waiting"
               THEN /\ Go(SendForTest(t, i, "load", test.model))
                    /\ test' = [test EXCEPT !.phase = "loading", !.id = i]
               ELSE Go(t) /\ UNCHANGED test
    /\ UNCHANGED <<op, resident, over>>

\* An attempt to connect fails before the worker listens; the client reports it as an error
\* of the connection, and a running model test takes it for the loss of its own.
ConnectionRefused ==
    /\ manager.proc = "alive" /\ ~manager.ready
    /\ test.phase # "idle" /\ TestFails
    /\ UNCHANGED <<job, leased, manager, coordinator, inbox, wire, op, resident, over>>

\* The process crashes, or is killed because it never listened.
Crash ==
    /\ manager.proc = "alive"
    /\ Go(Kill(Here))
    /\ Quiet

\* recoverAuthenticatedChannelFailure: heartbeat timeout, protocol error or disconnection.
ChannelFails ==
    /\ manager.ready
    /\ Go([Kill(Disconnect(Here)) EXCEPT !.c.runtime = "unknown"])
    /\ IF test.phase = "idle" THEN UNCHANGED test ELSE TestFails
    /\ UNCHANGED <<op, resident, over>>

GraceFires ==
    /\ "grace" \in manager.timers
    /\ Go(Kill([Here EXCEPT !.m.timers = @ \ {"grace"}]))
    /\ Quiet

BudgetSpent(m)     == m.spent >= MaximumRestarts

\* The end of handleUnexpectedExit: the variant has failed, a restart is due or the
\* restarts of this minute are used up.
AfterExitForgetting(m) ==
    LET f == [m EXCEPT !.failed = IF Variants > 1 THEN @ \cup ({m.variant} \ {0}) ELSE @]
    IN  IF BudgetSpent(m) THEN f
        ELSE [f EXCEPT !.spent = @ + 1, !.restarts = @ + 1]
AfterExit(m) ==
    LET f == [m EXCEPT !.failed = IF Variants > 1 THEN @ \cup ({m.variant} \ {0}) ELSE @]
    IN  IF BudgetSpent(m) THEN ScheduleRecovery(f)
        ELSE [f EXCEPT !.spent = @ + 1, !.restarts = @ + 1]

\* QProcess::finished.  Whether dropping a live connection here reaches the model test
\* depends on the socket's last error.
Exit ==
    /\ manager.proc = "dying"
    /\ \E x \in Ending :
           LET s == [Disconnect(Here) EXCEPT !.m.proc = "none", !.m.awaiting = manager.forced # 0,
                                             !.c.runtime = "unknown"]
           IN  Go([InterruptActiveJob(s, x) EXCEPT !.m = AfterExit(@)])
    /\ op' = NoOp /\ resident' = None
    /\ \/ UNCHANGED test
       \/ manager.ready /\ test.phase # "idle" /\ TestFails
    /\ UNCHANGED over

\* Timers that start a worker when none runs.
StartNow(s) == \E x \in Ending : Go([s EXCEPT !.m = Start(s.m, x.start)])
RestartFires ==
    /\ manager.restarts > 0
    /\ StartNow([Here EXCEPT !.m.restarts = @ - 1])
    /\ Quiet
ForcedStartFires ==
    /\ "forcedStart" \in manager.timers
    /\ LET s == [Here EXCEPT !.m.timers = @ \ {"forcedStart"}]
       IN  IF manager.forced # 0 THEN StartNow(s) ELSE Go(s)
    /\ Quiet
RecoveryFiresForgetful ==
    /\ "recovery" \in manager.timers /\ manager.restarts <= MaximumRestarts
    /\ LET s == [Here EXCEPT !.m.timers = @ \ {"recovery"}, !.m.spent = 0]
       IN  IF manager.forced # 0 /\ manager.proc = "none" THEN StartNow(s) ELSE Go(s)
    /\ Quiet
RecoveryFires ==
    /\ "recovery" \in manager.timers /\ manager.restarts <= MaximumRestarts
    /\ LET s == [Here EXCEPT !.m.timers = @ \ {"recovery"}]
       IN  IF manager.forced # 0 /\ manager.proc = "none"
           THEN \E x \in Choice :
                    LET m == [s.m EXCEPT !.failed = {}, !.spent = 0]
                    IN  MayStart(m, x.start) /\ Go([s EXCEPT !.m = Start(m, x.start)])
           ELSE Go(s)
    /\ Quiet

\* The restarts of the last minute grow old; a restart's timer has fired long before.
WindowPasses ==
    /\ \E n \in manager.restarts .. MaximumRestarts :
           n < manager.spent /\ Go([Here EXCEPT !.m.spent = n])
    /\ Quiet

-----------------------------------------------------------------------------
(* The worker: one operation at a time, answered from the inference thread   *)
(* before the main thread learns that it is finished.                        *)

Desktop == <<job, leased, manager, coordinator, test, over>>

Running == op.type # "none"

WorkerReads ==
    /\ manager.proc # "none" /\ inbox # <<>>
    /\ LET r == Head(inbox)
       IN  \/ /\ r.type = "capabilities"
              /\ \E a \in {"capabilities", "unavailable"} : wire' = Append(wire, [type |-> a, id |-> r.id])
              /\ UNCHANGED op
           \/ /\ r.type \in RunsJob \cup {"unload"} /\ ~Running
              /\ op' = [type |-> r.type, id |-> r.id, for |-> r.for, model |-> r.model,
                        cancelled |-> FALSE, answered |-> FALSE]
              /\ UNCHANGED wire
           \/ /\ r.type \in RunsJob \cup {"unload"} /\ Running     \* Busy
              /\ wire' = Append(wire, [type |-> "error", id |-> r.id])
              /\ UNCHANGED op
           \/ /\ r.type = "cancel"
              /\ op' = IF Running /\ (r.for = None \/ (op.type \in {"analyze", "transcribe"} /\ op.for = r.for))
                       THEN [op EXCEPT !.cancelled = TRUE] ELSE op
              /\ UNCHANGED wire
    /\ inbox' = Tail(inbox)
    /\ UNCHANGED <<Desktop, resident>>

\* What an operation may end with: a load releases the previous model first and cannot be
\* cancelled.
Ends ==
    CASE op.type = "load" -> {[a |-> "loaded", model |-> op.model], [a |-> "error", model |-> None]}
      [] op.type = "unload" -> {[a |-> "unloaded", model |-> None]}
      [] op.type = "analyze" ->
             [a : {"analyzed", "error"} \cup (IF op.cancelled THEN {"cancelled"} ELSE {}), model : {resident}]
      [] op.type = "transcribe" ->
             [a : (IF resident = None THEN {} ELSE {"done"}) \cup {"error"}
                      \cup (IF op.cancelled THEN {"cancelled"} ELSE {}), model : {resident}]

WorkerAnswers ==
    /\ manager.proc # "none" /\ Running /\ ~op.answered
    /\ \E e \in Ends :
           /\ resident' = e.model
           /\ wire' = IF manager.ready THEN Append(wire, [type |-> e.a, id |-> op.id]) ELSE wire
    /\ op' = [op EXCEPT !.answered = TRUE]
    /\ UNCHANGED <<Desktop, inbox>>

WorkerFinishes ==
    /\ op.answered
    /\ op' = NoOp
    /\ UNCHANGED <<Desktop, inbox, wire, resident>>

-----------------------------------------------------------------------------
(* The model test.                                                          *)

TestOnly == UNCHANGED <<op, resident, over>>

WorkerReserved == Serving

\* testModel reserves the worker and makes the coordinator forget its model.
StartTest(model) ==
    /\ test.phase = "idle" /\ ~WorkerReserved /\ Len(inbox) + Len(wire) <= Backlog
    /\ LET s == [Here EXCEPT !.c.cache = None]
           i == FreshId(s)
       IN  \/ /\ manager.ready
              /\ Go(SendForTest(s, i, "load", model))
              /\ test' = [NoTest EXCEPT !.phase = "loading", !.model = model, !.id = i]
           \/ /\ ~manager.ready
              /\ \E x \in Ending :
                     LET t == [s EXCEPT !.m = Start(s.m, x.start)]
                     IN  /\ Go(t)
                         /\ test' = IF t.m.proc = "none" THEN NoTest
                                    ELSE [NoTest EXCEPT !.phase = "waiting", !.model = model]
    /\ TestOnly

\* cancel() reaches the worker only while it transcribes.
CancelTest ==
    /\ test.phase # "idle" /\ ~test.cancelled
    /\ Go(IF test.phase = "transcribing" /\ manager.ready
          THEN SendForTest(Here, 0, "cancel", None) ELSE Here)
    /\ test' = IF test.phase = "waiting" THEN NoTest ELSE [test EXCEPT !.cancelled = TRUE]
    /\ TestOnly

\* handleTimeout, and an unload that was refused too often: kill the worker.
AbortLoadedWorker(s) ==
    /\ \E x \in Ending : Go(AbortImmediately(s, x))
    /\ TestFails

TestTimeout ==
    /\ test.phase # "idle"
    /\ AbortLoadedWorker(Here)
    /\ TestOnly

TestTranscribes ==
    /\ test.phase = "loaded"
    /\ IF manager.ready
       THEN LET i == FreshId(Here)
            IN  /\ Go(SendForTest(Here, i, "transcribe", test.model))
                /\ test' = [test EXCEPT !.phase = "transcribing", !.id = i]
       ELSE Go(Here) /\ TestFails
    /\ TestOnly

TestUnloads ==
    /\ test.phase = "unloadDue"
    /\ IF test.loaded /\ manager.ready
       THEN LET i == FreshId(Here)
            IN  /\ Go(SendForTest(Here, i, "unload", None))
                /\ test' = [test EXCEPT !.phase = "unloading", !.id = i, !.attempts = @ + 1]
       ELSE Go(Here) /\ TestFails
    /\ TestOnly

ReadTestAnswer ==
    /\ manager.ready /\ wire # <<>> /\ Head(wire).id = test.id
    /\ LET a == Head(wire).type
           s == [Here EXCEPT !.wire = Tail(@)]
           unload == [test EXCEPT !.phase = "unloadDue"]
       IN  \/ /\ a = "error" /\ test.phase = "unloading" /\ test.attempts >= MaximumUnloads
              /\ AbortLoadedWorker(s)
           \/ /\ a = "error" /\ (test.phase = "unloading" => test.attempts < MaximumUnloads)
              /\ Go(s)
              /\ test' = IF test.loaded THEN unload ELSE NoTest
           \/ /\ a = "loaded" /\ test.phase = "loading"
              /\ Go(s)
              /\ test' = [test EXCEPT !.loaded = TRUE,
                                      !.phase = IF test.cancelled THEN "unloadDue" ELSE "loaded"]
           \/ /\ a \in {"done", "cancelled"} /\ test.phase = "transcribing"
              /\ Go(s) /\ test' = [unload EXCEPT !.cancelled = @ \/ a = "cancelled"]
           \/ /\ a = "unloaded" /\ test.phase = "unloading"
              /\ Go(s) /\ test' = NoTest
    /\ TestOnly

-----------------------------------------------------------------------------
(* Start and end of the application.                                        *)

\* shutdown(): media work is told to stop and the job is checkpointed without waiting for it.
Shutdown(s, x) ==
    CASE s.c.active = None -> [s EXCEPT !.c.cache = None]
      [] s.c.active # None /\ ActiveWorkerRequestMayStillRun(s) -> StopJob(s, "interrupt", FALSE, x)
      [] OTHER -> Checkpoint(s, CauseOf(s, "interrupt"), x)

\* main() after the event loop: shutdown(), then stop() waits for the worker and kills it.
Quit ==
    /\ \E x \in Ending, gone \in BOOLEAN :
           LET s == Shutdown(Here, x)
               t == Disconnect([s EXCEPT !.m.timers = {}, !.m.restarts = 0])
           IN  IF gone \/ manager.proc = "none"
               THEN /\ Go(SettleForcedCancellation([t EXCEPT !.m.proc = "none"], x))
                    /\ op' = NoOp /\ resident' = None
               ELSE Go(Kill(t)) /\ UNCHANGED <<op, resident>>
    /\ test' = NoTest
    /\ over' = TRUE

\* A worker that outlived its application dies in the end.
OrphanExits ==
    /\ over /\ manager.proc # "none"
    /\ Go([Here EXCEPT !.m.proc = "none"])
    /\ op' = NoOp /\ resident' = None
    /\ UNCHANGED <<test, over>>

\* main() starts the worker; initialize() recovers the jobs that were left running.
Recovered(j) == CASE job[j] = "running" -> "interrupted"
                  [] job[j] = "cancelling" -> "cancelled"
                  [] OTHER -> job[j]
Relaunch ==
    /\ over /\ manager.proc = "none"
    /\ \E v \in 0 .. Variants :
           /\ MayStart(FreshManager, v)
           /\ Go([job |-> [j \in Job |-> Recovered(j)], leased |-> FALSE,
                  m |-> Start(FreshManager, v), c |-> Vacant, inbox |-> <<>>, wire |-> <<>>])
    /\ over' = FALSE
    /\ UNCHANGED <<op, resident, test>>

Init ==
    /\ job \in [Job -> {"queued"}]
    /\ leased = FALSE
    /\ \E v \in 0 .. Variants : MayStart(FreshManager, v) /\ manager = Start(FreshManager, v)
    /\ coordinator = Vacant
    /\ inbox = <<>> /\ wire = <<>> /\ op = NoOp /\ resident = None
    /\ test = NoTest /\ over = FALSE

CoordinatorStep ==
    \/ \E j \in Job : Claim(j)
    \/ Poll \/ GiveUpPolling \/ MediaStep \/ PlanReady \/ PrepareAnalysis \/ MediaStopped
    \/ NextChunk \/ RefuseProgress \/ CapabilitiesTimeout \/ ReadAnswer \/ Heartbeat
    \/ \E p \in Cause : RetryCheckpoint(p)
UserStep ==
    \/ \E j \in Job : Cancel(j) \/ CancelElsewhere(j) \/ Retry(j)
    \/ LoseLease \/ ChangeBackend
ManagerStep ==
    \/ Connect \/ ConnectionRefused \/ Crash \/ ChannelFails \/ GraceFires \/ Exit
    \/ RestartFires \/ ForcedStartFires \/ RecoveryFires \/ WindowPasses
WorkerStep == WorkerReads \/ WorkerAnswers \/ WorkerFinishes
TestStep ==
    \/ \E model \in Tested : StartTest(model)
    \/ CancelTest \/ TestTimeout \/ TestTranscribes \/ TestUnloads \/ ReadTestAnswer

Next ==
    \/ ~over /\ Room /\ (CoordinatorStep \/ TestStep)
    \/ ~over /\ (UserStep \/ ManagerStep \/ WorkerStep \/ Quit)
    \/ OrphanExits \/ Relaunch

Spec == Init /\ [][Next]_vars

\* Timers fire, a killed process is reaped and a connection that stays possible is made.
FairSpec ==
    /\ Spec
    /\ WF_vars(~over /\ Exit) /\ WF_vars(~over /\ GraceFires)
    /\ WF_vars(~over /\ RestartFires) /\ WF_vars(~over /\ ForcedStartFires)
    /\ WF_vars(~over /\ RecoveryFires) /\ WF_vars(~over /\ Connect)

-----------------------------------------------------------------------------
(* Properties.                                                              *)

\* What the worker computes or will compute.
Engaged == {inbox[i] : i \in DOMAIN inbox} \cup (IF Running /\ ~op.answered THEN {op} ELSE {})

\* The barrier before every end of a job (awaitWorkerQuiescence): a job the coordinator has
\* let go of is no longer worked on.  Whatever the worker computes or has yet to read for a
\* job belongs to the active job and to the request the coordinator waits for.
QuietWhenReleased ==
    \A r \in Engaged : r.type \in RunsJob /\ r.for \in Job =>
        r.for = coordinator.active /\ r.id = coordinator.req.id

\* The reservation of the worker (setExternalWorkerReserved, isTranscriptionActive) and the
\* fence of a forced cancellation: a request of a job never meets the work of a model test
\* or of another job in the worker, so claimOperation does not refuse it for work in progress.
JobFindsWorkerFree ==
    \A r \in Engaged : r.type \in RunsJob /\ r.for \in Job /\ Running /\ ~op.answered => op.for = r.for

\* What a released job, the next one and a model test rely on.
SessionInv == SessionTypeOK /\ QuietWhenReleased /\ JobFindsWorkerFree

\* The answer to request i, or the exit of the process that would have sent it, is due.
Comes(i) == \/ manager.proc = "dying"
            \/ /\ manager.ready
               /\ \/ i = op.id
                  \/ \E k \in DOMAIN inbox : inbox[k].id = i
                  \/ \E k \in DOMAIN wire : wire[k].id = i
FenceHasWaker ==
    manager.forced # 0 =>
        \/ manager.proc = "dying"
        \/ ~manager.awaiting /\ "grace" \in manager.timers
        \/ /\ manager.awaiting
           /\ \/ manager.proc = "alive" \/ manager.restarts > 0
              \/ manager.timers \cap {"forcedStart", "recovery"} # {}

\* Neither the fence of a forced cancellation nor an active job is ever left without
\* something that will move it on: a timer, a process about to be reaped or to connect,
\* media work, or an answer that is due.
NeverStranded ==
    ~over =>
    /\ FenceHasWaker
    /\ Serving => \/ coordinator.polling \/ coordinator.media \/ coordinator.next
                  \/ coordinator.at = "media" \/ coordinator.retry # {}
                  \/ coordinator.req.type = "capabilities"
                  \/ coordinator.pending # "none" /\ coordinator.req.id = manager.forced
                  \/ coordinator.req.id # 0 /\ Comes(coordinator.req.id)

\* A chunk is transcribed by the model its job was queued with: what the coordinator
\* remembers as resident (m_loadedModelPath) is what the worker holds, through crashes,
\* restarts and model tests.
TranscribesWithItsModel ==
    Running /\ ~op.answered /\ op.type = "transcribe" /\ op.for \in Job => resident = op.model

\* A job that waits at the barrier is let go of, whatever the worker does: the grace timer
\* bounds the wait.
BarrierEnds == coordinator.pending # "none" ~> coordinator.pending = "none" \/ over

\* Unless workers die for ever, a forced cancellation stops fencing the queue: some worker
\* starts, even after the restart limit, and its handshake settles the cancellation.
FenceLifts == <>[](manager.proc # "dying") => (manager.forced # 0 ~> manager.forced = 0 \/ over)
=============================================================================
