--------------------------- MODULE TranscriptEditing ---------------------------
(***************************************************************************)
(* The transcript editor of the desktop application: the segments it shows *)
(* of one job of the open recording, drafts, unsaved changes, the autosave *)
(* timer and the lock, beside the jobs that write the same rows, in this   *)
(* process and in others. One recording is followed; a text is what        *)
(* executions have written of it and the changes the user made in it.      *)
(***************************************************************************)
EXTENDS Naturals, FiniteSets

CONSTANTS Job, None,
          MaxWrites,    \* bound: how often executions write rows of a job
          MaxEdits      \* bound: changes of the user

ASSUME EditingAssumption == MaxWrites \in Nat /\ MaxEdits \in Nat /\ None \notin Job

VARIABLES
    state,      \* of the jobs of the recording
    by,         \* who executes the running job: this application, or another program
    reported,   \* m_activeTranscriptPublished
    handedOff,  \* m_handedOffJobId
    published,  \* active_transcript_job_id of the recording
    known,      \* what the library list of the application last read of it
    rows,       \* transcript_segments of the jobs
    ed,         \* the editor
    edits       \* changes made so far

editVars == <<state, by, reported, handedOff, published, known, rows, ed, edits>>

Edit == 1 .. MaxEdits
Text == [seen : 0 .. MaxWrites, edits : SUBSET Edit]
NoText == [seen |-> 0, edits |-> {}]
Changed(text, edit) == [text EXCEPT !.edits = @ \cup {edit}]

Editor == [open   : BOOLEAN,              \* the recording is open
           shown  : Job \cup {None},      \* m_activeTranscriptJobId
           buffer : Text,                 \* the segment model
           draft  : 0 .. MaxEdits,        \* a text field that differs from its segment
           dirty  : BOOLEAN, locked : BOOLEAN,
           timer  : BOOLEAN,              \* m_transcriptAutosaveTimer is active
           told   : BOOLEAN,              \* a message said that the changes are not saved
           stale  : BOOLEAN]              \* another program may have written the rows since they were read

Closed == [open |-> FALSE, shown |-> None, buffer |-> NoText, draft |-> 0, dirty |-> FALSE,
           locked |-> FALSE, timer |-> FALSE, told |-> FALSE, stale |-> FALSE]

Running  == {j \in Job : state[j] = "running"}
Here(j)  == state[j] = "running" /\ by = "here"
There(j) == state[j] = "running" /\ by = "elsewhere"

EditingTypeOK ==
    /\ state \in [Job -> {"none", "queued", "running", "completed", "stopped"}]
    /\ Cardinality(Running) <= 1
    /\ by \in {"here", "elsewhere"} /\ reported \in BOOLEAN
    /\ {handedOff, published, known} \subseteq Job \cup {None}
    /\ rows \in [Job -> Text]
    /\ ed \in Editor
    /\ edits \in 0 .. MaxEdits

EditingInit ==
    /\ state = [j \in Job |-> "none"]
    /\ by = "here" /\ reported = FALSE
    /\ handedOff = None /\ published = None /\ known = None
    /\ rows = [j \in Job |-> NoText]
    /\ ed = Closed /\ edits = 0

-----------------------------------------------------------------------------
(* The handlers of ApplicationViewModel, as functions of w: the editor and the rows. A save that may be *)
(* accepted still fails unless ok.                                                                      *)

\* validateOwnerlessEdit
Editable == {"queued", "completed", "stopped"}

\* afterMutation: the timer is started by the change that makes the transcript dirty.
Touched(e) == [e EXCEPT !.dirty = TRUE, !.timer = @ \/ ~e.dirty]

\* requestActiveTranscriptDraftCommit
CommitRefused(e) == e.draft # 0 /\ e.locked
Commit(e) == IF e.draft = 0 THEN e
             ELSE Touched([e EXCEPT !.buffer = Changed(@, e.draft), !.draft = 0])

\* reloadActiveTranscript and replaceSegments
Show(e, j, r) == [e EXCEPT !.shown = j, !.buffer = IF j = None THEN NoText ELSE r[j], !.draft = 0,
                           !.dirty = FALSE, !.told = FALSE, !.stale = FALSE]

\* saveActiveTranscript: all rows of the job are replaced by what the editor shows.
SaveActive(w, st, ok) ==
    IF ok /\ w.ed.shown # None /\ st[w.ed.shown] \in Editable
    THEN [ed   |-> [w.ed EXCEPT !.dirty = FALSE, !.told = FALSE],
          rows |-> [w.rows EXCEPT ![w.ed.shown] = w.ed.buffer]]
    ELSE [w EXCEPT !.ed.told = TRUE]

SaveIfDirty(w, st, ok) == IF w.ed.dirty THEN SaveActive(w, st, ok) ELSE w

\* Mutant: live results replace what is shown although it has been changed.
ReloadAnyway(w, st, ok, j, lock) ==
    LET c == [w EXCEPT !.ed = Commit(@)]
        f == SaveIfDirty(c, st, ok)
    IN  IF ~w.ed.open \/ CommitRefused(w.ed) THEN w
        ELSE IF c.ed.shown \notin {None, j}
             THEN IF f.ed.dirty THEN f ELSE [f EXCEPT !.ed.locked = lock]
        ELSE [c EXCEPT !.ed = Show([@ EXCEPT !.locked = lock], j, c.rows)]

\* Mutant: a job that is shown already is not read again.
ReloadOnce(w, st, ok, j, lock) ==
    LET c == [w EXCEPT !.ed = Commit(@)]
        f == SaveIfDirty(c, st, ok)
    IN  IF ~w.ed.open \/ CommitRefused(w.ed) THEN w
        ELSE IF c.ed.shown # None THEN (IF f.ed.dirty THEN f ELSE [f EXCEPT !.ed.locked = lock])
        ELSE [c EXCEPT !.ed = Show([@ EXCEPT !.locked = lock], j, c.rows)]

\* reloadTranscriptForJob
ReloadForJob(w, st, ok, j, lock) ==
    LET c == [w EXCEPT !.ed = Commit(@)]
        f == SaveIfDirty(c, st, ok)
    IN  IF ~w.ed.open \/ CommitRefused(w.ed) THEN w
        ELSE IF c.ed.shown \notin {None, j}
             THEN IF f.ed.dirty THEN f ELSE [f EXCEPT !.ed.locked = lock]
        ELSE IF c.ed.dirty THEN [c EXCEPT !.ed.told = TRUE]
        ELSE [c EXCEPT !.ed = Show([@ EXCEPT !.locked = lock], j, c.rows)]

\* Mutant: the new transcript becomes the active one before the changes of the old one are saved.
FinishThenSave(w, st, ok, j, succeeded) ==
    LET c == [w EXCEPT !.ed = [Commit(@) EXCEPT !.shown = IF succeeded THEN j ELSE known]]
        f == SaveIfDirty(c, st, ok)
        Done(e) == [e EXCEPT !.timer = FALSE, !.locked = FALSE]
    IN  IF ~w.ed.open THEN w
        ELSE IF CommitRefused(w.ed) THEN [w EXCEPT !.ed.locked = FALSE]
        ELSE IF f.ed.dirty THEN [f EXCEPT !.ed.locked = FALSE]
        ELSE [f EXCEPT !.ed = Show(Done(@), IF succeeded THEN j ELSE known, f.rows)]

\* finishLiveTranscript
FinishLive(w, st, ok, j, succeeded) ==
    LET u == [w EXCEPT !.ed.locked = FALSE]
        c == [w EXCEPT !.ed = Commit(@)]
        f == SaveIfDirty(c, st, ok)
        Done(e) == [e EXCEPT !.timer = FALSE, !.locked = FALSE]
    IN  IF ~w.ed.open THEN w
        ELSE IF CommitRefused(w.ed) THEN u
        ELSE IF c.ed.dirty /\ c.ed.shown = j THEN [c EXCEPT !.ed.locked = FALSE, !.ed.told = TRUE]
        ELSE IF f.ed.dirty THEN [f EXCEPT !.ed.locked = FALSE]
        ELSE [f EXCEPT !.ed = Show(Done(@), IF succeeded THEN j ELSE known, f.rows)]

\* openRecording of the recording, or of another one
Open(w, st, ok, entry, lock) ==
    LET c == [w EXCEPT !.ed = Commit(@)]
        f == SaveIfDirty(c, st, ok)
    IN  IF CommitRefused(w.ed) THEN w
        ELSE IF f.ed.dirty THEN f
        ELSE [f EXCEPT !.ed = Show([@ EXCEPT !.open = TRUE, !.locked = lock], entry, f.rows)]

World == [ed |-> ed, rows |-> rows]
Become(w) == ed' = w.ed /\ rows' = w.rows

\* The program sees a job running that it has not started only in its list, which may be behind.
MayLock(st, owner) == LET running == {j \in Job : st[j] = "running"}
                      IN  IF running # {} /\ owner = "here" THEN {TRUE}
                          ELSE IF running # {} \/ handedOff # None THEN BOOLEAN ELSE {FALSE}

-----------------------------------------------------------------------------
(* The user. *)

\* Any operation of TranscriptViewModel that changes segments, undo and redo included
Change ==
    /\ ed.open /\ ~ed.locked /\ ed.buffer # NoText /\ edits < MaxEdits
    /\ edits' = edits + 1
    /\ ed' = Touched([ed EXCEPT !.buffer = Changed(@, edits + 1)])
    /\ UNCHANGED <<state, by, reported, handedOff, published, known, rows>>

\* A text is typed; each change restarts the timer.
Type ==
    /\ ed.open /\ ~ed.locked /\ ed.buffer # NoText /\ ed.draft = 0 /\ edits < MaxEdits
    /\ edits' = edits + 1
    /\ ed' = [ed EXCEPT !.draft = edits + 1, !.timer = TRUE]
    /\ UNCHANGED <<state, by, reported, handedOff, published, known, rows>>

\* Save Changes, and the flush before the application quits
SaveNow ==
    /\ ed.open /\ ~CommitRefused(ed)
    /\ \E ok \in BOOLEAN :
        LET c == [World EXCEPT !.ed = Commit(@)]
            f == SaveIfDirty(c, state, ok)
        IN  Become([f EXCEPT !.ed.timer = IF c.ed.dirty /\ ~f.ed.dirty THEN FALSE ELSE @])
    /\ UNCHANGED <<state, by, reported, handedOff, published, known, edits>>

OpenRecording ==
    /\ \E ok \in BOOLEAN, lock \in MayLock(state, by) : Become(Open(World, state, ok, known, lock))
    /\ UNCHANGED <<state, by, reported, handedOff, published, known, edits>>

\* Another recording is opened, which has no transcript; nothing of this one is shown.
OpenOther ==
    /\ ed.open
    /\ \E ok \in BOOLEAN :
        LET w == Open(World, state, ok, None, FALSE)
        IN  Become(IF w.ed.shown = None /\ ~w.ed.dirty THEN [w EXCEPT !.ed = Closed] ELSE w)
    /\ UNCHANGED <<state, by, reported, handedOff, published, known, edits>>

\* enqueueTranscription
Enqueue(j) ==
    /\ state[j] = "none"
    /\ \E ok \in BOOLEAN :
        LET c == [World EXCEPT !.ed = Commit(@)]
            f == SaveIfDirty(c, state, ok)
        IN  IF CommitRefused(ed) THEN UNCHANGED <<ed, rows, state>>
            ELSE /\ Become(f)
                 /\ state' = IF f.ed.dirty THEN state ELSE [state EXCEPT ![j] = "queued"]
    /\ UNCHANGED <<by, reported, handedOff, published, known, edits>>

\* retry and resume, behind the gate
Retry(j) ==
    /\ state[j] = "stopped"
    /\ \E ok \in BOOLEAN :
        LET c == [World EXCEPT !.ed = Commit(@)]
            f == SaveIfDirty(c, state, ok)
        IN  IF ed.shown # j THEN state' = [state EXCEPT ![j] = "queued"] /\ UNCHANGED <<ed, rows>>
            ELSE IF CommitRefused(ed) THEN UNCHANGED <<ed, rows, state>>
            ELSE IF f.ed.dirty THEN Become(f) /\ UNCHANGED state
            ELSE /\ Become([f EXCEPT !.ed.locked = TRUE])
                 /\ state' = [state EXCEPT ![j] = "queued"]
    /\ UNCHANGED <<by, reported, handedOff, published, known, edits>>

\* What refreshAfterTranscriptRemoval leaves of the editor, with the library read again
AfterRemoval(e, removed, pub, r) ==
    IF ~e.open \/ (removed # e.shown /\ pub = e.shown) THEN e
    ELSE Show([e EXCEPT !.timer = FALSE, !.locked = FALSE], pub, r)

\* remove; clearCompleted removes several at once
RemoveJobs(S) ==
    /\ S # {} /\ \A j \in S : state[j] \in {"completed", "stopped"}
    /\ state' = [j \in Job |-> IF j \in S THEN "none" ELSE state[j]]
    /\ rows' = [j \in Job |-> IF j \in S THEN NoText ELSE rows[j]]
    /\ published' = IF published \in S THEN None ELSE published
    /\ known' = published'
    /\ \E removed \in S \cup {None} : ed' = AfterRemoval(ed, removed, published', rows')
    /\ UNCHANGED <<by, reported, handedOff, edits>>

\* deletePermanently. The timer is stopped before the deletion, which is refused while a job runs.
DeletePermanently ==
    /\ \/ /\ Running = {}
          /\ state' = [j \in Job |-> "none"] /\ rows' = [j \in Job |-> NoText]
          /\ published' = None /\ known' = None /\ ed' = Closed
       \/ /\ ed.open /\ ed' = [ed EXCEPT !.timer = FALSE, !.told = @ \/ ed.dirty \/ ed.draft # 0]
          /\ UNCHANGED <<state, rows, published, known>>
    /\ UNCHANGED <<by, reported, handedOff, edits>>

\* Mutant: the timer goes on only when there are changes already.
AutosaveWithoutDraft ==
    /\ ed.timer
    /\ \E ok \in BOOLEAN :
        LET s == [World EXCEPT !.ed.timer = FALSE] IN Become(SaveIfDirty(s, state, ok))
    /\ UNCHANGED <<state, by, reported, handedOff, published, known, edits>>

AutosaveFires ==
    /\ ed.timer
    /\ \E ok \in BOOLEAN :
        LET s == [World EXCEPT !.ed.timer = FALSE]
            c == [s EXCEPT !.ed = Commit(@)]
            f == SaveIfDirty(c, state, ok)
        IN  IF CommitRefused(ed) THEN Become([s EXCEPT !.ed.told = TRUE])
            ELSE Become([f EXCEPT !.ed.timer = IF f.ed.dirty THEN @ ELSE FALSE])
    /\ UNCHANGED <<state, by, reported, handedOff, published, known, edits>>

-----------------------------------------------------------------------------
(* The coordinator of this application, with the signals each step emits. *)

Begin(j) ==
    /\ state[j] = "queued" /\ Running = {}
    /\ state' = [state EXCEPT ![j] = "running"] /\ by' = "here" /\ reported' = FALSE
    /\ UNCHANGED <<handedOff, published, known, rows, ed, edits>>

\* persistPartialSegments and finalizeCurrentChunk; refused for a chunk with changes
WriteRows(j) ==
    /\ Here(j) /\ rows[j].seen < MaxWrites
    /\ reported' = TRUE
    /\ \E ok \in BOOLEAN :
        Become(ReloadForJob([ed |-> ed, rows |-> [rows EXCEPT ![j].seen = @ + 1]], state, ok, j, TRUE))
    /\ UNCHANGED <<state, by, handedOff, published, known, edits>>

\* completeAndActivate removes the rows of the other jobs; then transcriptChanged, transcriptionFinished
\* and libraryChanged.
Superseded(j) == [k \in Job |-> IF k = j THEN rows[k] ELSE NoText]

Complete(j) ==
    /\ Here(j)
    /\ state' = [state EXCEPT ![j] = "completed"] /\ published' = j /\ known' = j
    /\ \E ok1, ok2 \in BOOLEAN :
        LET a == ReloadForJob([ed |-> ed, rows |-> Superseded(j)], state', ok1, j, FALSE)
            b == FinishLive(a, state', ok2, j, TRUE)
        IN  Become(IF b.ed.open THEN Open(b, state', ok2, j, FALSE) ELSE b)
    /\ UNCHANGED <<by, reported, handedOff, edits>>

\* The job fails, is cancelled or is interrupted.
Stop(j) ==
    /\ Here(j)
    /\ state' = [state EXCEPT ![j] = "stopped"]
    /\ \E ok \in BOOLEAN :
        LET a == IF reported THEN ReloadForJob(World, state', ok, j, FALSE) ELSE World
        IN  Become(FinishLive(a, state', ok, j, FALSE))
    /\ UNCHANGED <<by, reported, handedOff, published, known, edits>>

\* finishLeaseLossHandoff: the job has been recovered by another program, which may run it again.
HandOff(j) ==
    /\ Here(j)
    /\ \E next \in {"stopped", "running"}, ok \in BOOLEAN :
        /\ state' = [state EXCEPT ![j] = next]
        /\ LET w == ReloadForJob(World, state', ok, j, next = "running")
           IN  Become([w EXCEPT !.ed.stale = @ \/ w.ed.shown = j])
    /\ by' = "elsewhere" /\ handedOff' = j
    /\ UNCHANGED <<reported, published, known, edits>>

\* refreshHandedOffJob
PollHandedOff ==
    /\ handedOff # None /\ state[handedOff] \notin {"running", "queued"}
    /\ handedOff' = None
    /\ LET done == state[handedOff] = "completed"
       IN  /\ known' = IF done THEN published ELSE known
           /\ \E ok \in BOOLEAN :
                LET a == ReloadForJob(World, state, ok, handedOff, FALSE)
                    b == FinishLive(a, state, ok, handedOff, done)
                IN  Become(IF done /\ b.ed.open THEN Open(b, state, ok, published, FALSE) ELSE b)
    /\ UNCHANGED <<state, by, reported, published, edits>>

-----------------------------------------------------------------------------
(* Another program: a command line transcription. It resumes jobs and runs its own. *)

Stale(j) == ed' = [ed EXCEPT !.stale = @ \/ (ed.open /\ ed.shown = j)]

ThereRuns(j) ==
    /\ state[j] \in {"none", "stopped"} /\ Running = {}
    /\ state' = [state EXCEPT ![j] = "running"] /\ by' = "elsewhere"
    /\ UNCHANGED <<reported, handedOff, published, known, rows, ed, edits>>

ThereWrites(j) ==
    /\ There(j) /\ rows[j].seen < MaxWrites
    /\ rows' = [rows EXCEPT ![j].seen = @ + 1] /\ Stale(j)
    /\ UNCHANGED <<state, by, reported, handedOff, published, known, edits>>

ThereEnds(j) ==
    /\ There(j)
    /\ \/ state' = [state EXCEPT ![j] = "stopped"] /\ UNCHANGED <<published, rows, ed>>
       \/ /\ state' = [state EXCEPT ![j] = "completed"] /\ published' = j
          /\ rows' = Superseded(j)
          /\ ed' = [ed EXCEPT !.stale = @ \/ (ed.open /\ ed.shown # j)]
    /\ UNCHANGED <<by, reported, handedOff, known, edits>>

EditingNext ==
    \/ Change \/ Type \/ SaveNow \/ AutosaveFires \/ OpenRecording \/ OpenOther \/ DeletePermanently
    \/ \E S \in SUBSET Job : RemoveJobs(S)
    \/ PollHandedOff
    \/ \E j \in Job : \/ Enqueue(j) \/ Retry(j)
                      \/ Begin(j) \/ WriteRows(j) \/ Complete(j) \/ Stop(j) \/ HandOff(j)
                      \/ ThereRuns(j) \/ ThereWrites(j) \/ ThereEnds(j)

\* Timers of a running application fire.
EditingSpec == EditingInit /\ [][EditingNext]_editVars /\ WF_editVars(AutosaveFires)

-----------------------------------------------------------------------------
(* Properties. *)

\* A text being typed when the transcript is locked was committed first: a draft under the lock could
\* neither be saved nor given up, and no recording could be opened and the application not be quit.
LockedHasNoDraft == ed.locked => ed.draft = 0

\* What the editor shows without unsaved changes is what is stored of the job it shows, whichever jobs
\* started, wrote, ended or were removed, unless another program changed the rows.
CleanIsStored ==
    ed.open /\ ed.shown # None /\ ~ed.dirty /\ ~ed.stale => ed.buffer = rows[ed.shown]

\* What the editor shows, and what it lets the user type, at any time.
EditingInv == EditingTypeOK /\ LockedHasNoDraft /\ CleanIsStored

Unsaved(e) == (IF e.dirty THEN e.buffer.edits ELSE {}) \cup ({e.draft} \ {0})
Stored(e)  == \E j \in Job : e \in rows'[j].edits
Removal    == \E j \in Job : state[j] # "none" /\ state'[j] = "none"

\* A change leaves the editor only into the database, or when a transcript is removed.
ChangesNotDropped ==
    [][\A e \in Edit : e \in Unsaved(ed) /\ e \notin Unsaved(ed') => Stored(e) \/ Removal]_editVars

\* Saving the editor never takes back what the recognizer has written of a job: what is saved was read
\* after the last write, and is saved as the transcript it was read from.
RecognizedIsKept ==
    [][\A j \in Job : rows'[j].seen < rows[j].seen =>
          Removal \/ ed.stale \/ \E k \in Job : state[k] = "running" /\ state'[k] = "completed"]_editVars

\* Changes do not stay in the editor without a word: they are saved, or a message says they are not.
ChangesAreSavedOrReported == Unsaved(ed) # {} ~> Unsaved(ed) = {} \/ ed.told

=============================================================================
