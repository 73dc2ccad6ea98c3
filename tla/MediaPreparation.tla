-------------------------- MODULE MediaPreparation --------------------------
(***************************************************************************)
(* How executions of jobs get their audio: the source is hashed, the hash  *)
(* is bound to the job, the cached audio is used again or replaced by newly*)
(* decoded audio, and the row of the recording is updated under the lease. *)
(* Beside them files are swept, the cache is cleared, recordings are       *)
(* relinked, trashed and deleted, and the lease lapses.                    *)
(***************************************************************************)
EXTENDS MediaFiles

CONSTANT Desktop    \* the executions of the desktop application; the others are command lines

ASSUME DesktopAssumption == Desktop \subseteq Execution

VARIABLES
    exec,     \* the executions
    job,      \* for each recording, the job that is executed: parameters.sourceHash, and the audio
              \* its chunks are of
    lease,    \* the owner of the unexpired lease
    sweep,    \* what a sweep of the cache has found to be orphaned and not yet removed
    clearing  \* m_cacheOperationRunning

prepVars == <<disk, row, outbox, written, exec, job, lease, sweep, clearing>>

Stage == {"new", "hash", "verify", "inspect", "decode", "rehash", "reverify", "wave", "save", "plan",
          "ready", "ended", "dead"}

Exec == [at    : Stage, rec : Recording \cup {None},
         media : File \cup {None},       \* m_activeSourcePath
         pcm   : Cache \cup {None},      \* m_activeNormalizedPath
         hash  : 0 .. MaxVersion,        \* m_activeSourceHash
         seen  : Content,                \* what the decoder or the second hash read
         aged  : BOOLEAN]                \* its files are older than a day

Idle(stage, aged) == [at |-> stage, rec |-> None, media |-> None, pcm |-> None, hash |-> 0,
                      seen |-> Absent, aged |-> aged]

PrepTypeOK ==
    /\ MediaTypeOK
    /\ exec \in [Execution -> Exec]
    /\ job \in [Recording -> [bound : 0 .. MaxVersion, chunks : 0 .. Mixed]]
    /\ lease \in Execution \cup {None}
    /\ sweep \subseteq Cache
    /\ clearing \in BOOLEAN

\* A library with recordings, some with a managed copy.
PrepInit ==
    /\ \E s \in [Recording -> SourceFile], copies \in SUBSET Recording :
        /\ MediaInit(copies, s)
        /\ row = [r \in Recording |-> NewRow(s[r], IF r \in copies THEN <<"managed", r>> ELSE None)]
    /\ exec = [e \in Execution |-> Idle("new", FALSE)]
    /\ job = [r \in Recording |-> [bound |-> 0, chunks |-> Absent]]
    /\ lease = None
    /\ sweep = {} /\ clearing = FALSE

Holds(e)  == lease = e
Leased(r) == lease # None /\ exec[lease].rec = r
Running(e) == exec[e].at \notin {"new", "ended", "dead"}

Files(e) == {<<"pcm", e>>, <<"wave", e>>}
Become(e, x) == exec' = [exec EXCEPT ![e] = x]
Released(e) == IF lease = e THEN None ELSE lease
Quiet == UNCHANGED <<sweep, clearing>>

\* removeCacheCandidateIfUnreferenced looks only at the recording of the job; it may fail, or not be
\* reached.
Without(S) == [f \in File |-> IF f \in S THEN Absent ELSE disk[f]]
Cleanup(e) ==
    \E S \in SUBSET {f \in Files(e) : ~Exists(exec[e].rec) \/ f \notin References(exec[e].rec)} :
        disk' = Without(S)

\* The execution ends, by a failure, a cancellation or a lost lease.
End(e) ==
    /\ Become(e, Idle("ended", exec[e].aged))
    /\ lease' = Released(e)
    /\ Cleanup(e)

-----------------------------------------------------------------------------
(* The stages of an execution. *)

\* continuePreparingJob, or the start of runHeadlessTranscription
Begin(e, r, fresh) ==
    /\ exec[e].at = "new" /\ Exists(r) /\ lease = None
    /\ lease' = e
    /\ job' = IF fresh THEN [job EXCEPT ![r] = [bound |-> 0, chunks |-> Absent]] ELSE job
    /\ Become(e, [exec[e] EXCEPT !.at = "hash", !.rec = r,
           !.media = IF e \in Desktop /\ row[r].managed # None /\ disk[row[r].managed] # Absent
                     THEN row[r].managed ELSE row[r].source,
           !.pcm = IF row[r].pcm # None THEN row[r].pcm ELSE <<"pcm", e>>])
    /\ UNCHANGED mediaVars /\ Quiet

HashSource(e) ==
    /\ exec[e].at = "hash"
    /\ Become(e, [exec[e] EXCEPT !.at = "verify", !.hash = disk[exec[e].media]])
    /\ UNCHANGED <<mediaVars, job, lease>> /\ Quiet

\* Mutant: whatever the job was bound to.
MayBindAnew(e) == exec[e].hash # 0

\* A job keeps the source it was bound to; one with chunks cannot be bound any more.
MayBind(e) ==
    LET j == job[exec[e].rec]
    IN  /\ exec[e].hash # 0
        /\ IF j.bound # 0 THEN j.bound = exec[e].hash ELSE j.chunks = Absent

Bound(e) == [job EXCEPT ![exec[e].rec].bound = exec[e].hash]

\* The command line looks at the row after it has the hash; the application looked before.
CachedPcm(e) == IF e \in Desktop THEN exec[e].pcm
                ELSE IF row[exec[e].rec].pcm # None THEN row[exec[e].rec].pcm ELSE <<"pcm", e>>

Reusable(e) == /\ row[exec[e].rec].hash = exec[e].hash
               /\ disk[CachedPcm(e)] # Absent

\* The cached audio is used again; the application may still need a waveform.
Reuse(e) ==
    LET r == exec[e].rec
    IN  /\ Reusable(e)
        /\ Become(e, [exec[e] EXCEPT !.pcm = CachedPcm(e),
               !.at = IF e \in Desktop /\ (row[r].wave = None \/ disk[row[r].wave] = Absent)
                      THEN "wave" ELSE "plan"])
        /\ UNCHANGED <<row, disk, lease>>

\* The derived columns are cleared, then the files they named removed.
Invalidate(e) ==
    LET r == exec[e].rec
    IN  /\ ~Reusable(e)
        /\ UpdateDerived(r, None, None, 0)
        /\ disk' = Without({row[r].pcm, row[r].wave})
        /\ Become(e, [exec[e] EXCEPT !.at = "inspect", !.pcm = <<"pcm", e>>])
        /\ UNCHANGED lease

\* verifySourceMedia
Verify(e) ==
    /\ exec[e].at = "verify"
    /\ \/ /\ Exists(exec[e].rec) /\ MayBind(e) /\ Holds(e)
          /\ job' = Bound(e)
          /\ Reuse(e) \/ Invalidate(e) \/ (End(e) /\ UNCHANGED row)
       \/ /\ ~Exists(exec[e].rec) \/ ~MayBind(e) \/ ~Holds(e)
          /\ End(e) /\ UNCHANGED <<row, job>>
    /\ UNCHANGED <<outbox, written>> /\ Quiet

\* inspectMedia and the start of beginNormalization
StartDecoding(e) ==
    /\ exec[e].at = "inspect"
    /\ Holds(e) /\ disk[exec[e].media] # Absent
    /\ Become(e, [exec[e] EXCEPT !.at = "decode", !.seen = disk[exec[e].media]])
    /\ UNCHANGED <<mediaVars, job, lease>> /\ Quiet

\* The decoder ends; its output is renamed into place.
Decoded(e) ==
    /\ exec[e].at = "decode"
    /\ disk' = [disk EXCEPT ![<<"pcm", e>>] = IF disk[exec[e].media] = exec[e].seen THEN exec[e].seen ELSE Mixed]
    /\ Become(e, [exec[e] EXCEPT !.at = "rehash", !.seen = Absent])
    /\ UNCHANGED <<row, outbox, written, job, lease>> /\ Quiet

\* The second hash is computed.
Rehash(e) ==
    /\ exec[e].at = "rehash"
    /\ Become(e, [exec[e] EXCEPT !.at = "reverify", !.seen = disk[exec[e].media]])
    /\ UNCHANGED <<mediaVars, job, lease>> /\ Quiet

\* Mutant: the source is not compared with what it was before the audio was decoded.
ReverifyAny(e) ==
    /\ exec[e].at = "reverify"
    /\ Become(e, [exec[e] EXCEPT !.at = IF e \in Desktop THEN "wave" ELSE "save", !.seen = Absent])
    /\ UNCHANGED <<disk, lease, row, outbox, written, job>> /\ Quiet

\* verifyNormalizedSource
Reverify(e) ==
    /\ exec[e].at = "reverify"
    /\ \/ /\ exec[e].seen = exec[e].hash /\ Holds(e) /\ Exists(exec[e].rec)
          /\ Become(e, [exec[e] EXCEPT !.at = IF e \in Desktop THEN "wave" ELSE "save", !.seen = Absent])
          /\ UNCHANGED <<disk, lease>>
       \/ /\ exec[e].seen # exec[e].hash \/ ~Holds(e) \/ ~Exists(exec[e].rec)
          /\ End(e)
    /\ UNCHANGED <<row, outbox, written, job>> /\ Quiet

\* beginWaveformGeneration
DrawWaveform(e) ==
    /\ exec[e].at = "wave"
    /\ \/ /\ disk[exec[e].pcm] # Absent
          /\ disk' = [disk EXCEPT ![<<"wave", e>>] = disk[exec[e].pcm]]
          /\ Become(e, [exec[e] EXCEPT !.at = "save"]) /\ UNCHANGED lease
       \/ disk[exec[e].pcm] = Absent /\ End(e)
    /\ UNCHANGED <<row, outbox, written, job>> /\ Quiet

\* The row gets the new audio, its waveform (the command line makes none) and its hash, at once.
Save(e) ==
    /\ exec[e].at = "save"
    /\ \/ /\ Holds(e)
          /\ UpdateDerived(exec[e].rec, exec[e].pcm, IF e \in Desktop THEN <<"wave", e>> ELSE None, exec[e].hash)
          /\ Become(e, [exec[e] EXCEPT !.at = "plan"]) /\ UNCHANGED <<lease, disk>>
       \/ End(e) /\ UNCHANGED row
    /\ UNCHANGED <<outbox, written, job>> /\ Quiet

\* prepareChunks: the job has chunks now, and its audio is transcribed
Plan(e) ==
    /\ exec[e].at = "plan" /\ Holds(e) /\ Exists(exec[e].rec) /\ disk[exec[e].pcm] # Absent
    /\ job' = [job EXCEPT ![exec[e].rec].chunks = IF @ = Absent THEN disk[exec[e].pcm] ELSE @]
    /\ Become(e, [exec[e] EXCEPT !.at = "ready", !.media = None, !.hash = 0, !.seen = Absent])
    /\ UNCHANGED <<mediaVars, lease>> /\ Quiet

\* Failure, cancellation, interruption or the end of the transcription, at any stage
Stop(e) ==
    /\ Running(e)
    /\ End(e)
    /\ UNCHANGED <<row, outbox, written, job>> /\ Quiet

\* The process dies; its lease lapses later.
Die(e) ==
    /\ Running(e)
    /\ Become(e, [Idle("dead", exec[e].aged) EXCEPT !.rec = exec[e].rec])
    /\ UNCHANGED <<mediaVars, job, lease>> /\ Quiet

\* The clock passes the expiry of the lease: its owner was suspended, or is dead.
LeaseLapses ==
    /\ lease # None
    /\ lease' = None
    /\ UNCHANGED <<mediaVars, exec, job>> /\ Quiet

-----------------------------------------------------------------------------
(* Sweeps of the cache, Clear Cache, and the library. *)

\* A day passes; decoding and saving the audio does not take that long.
Age(e) ==
    /\ exec[e].at \in {"ready", "ended", "dead"} /\ ~exec[e].aged
    /\ Become(e, [exec[e] EXCEPT !.aged = TRUE])
    /\ UNCHANGED <<mediaVars, job, lease>> /\ Quiet

\* removeExpiredOrphanedGenerationFiles: older than a day, not referred to, and not of the generation
\* that is being written
Orphaned(referenced) ==
    {f \in Cache : /\ f \notin referenced /\ exec[f[2]].aged
                   /\ lease # f[2]}

\* Mutant: recordings in the trash are not listed.
SweepReadsUntrashed ==
    /\ sweep = {}
    /\ sweep' = Orphaned(UNION {{row[r].pcm, row[r].wave} : r \in {s \in Recording : Exists(s) /\ ~row[s].trashed}})
    /\ UNCHANGED <<mediaVars, exec, job, lease, clearing>>

\* removeExpiredOrphanedAudioCacheFiles, at the start of any process
SweepReads ==
    /\ sweep = {}
    /\ sweep' = Orphaned(UNION {{row[r].pcm, row[r].wave} : r \in {s \in Recording : Exists(s)}})
    /\ UNCHANGED <<mediaVars, exec, job, lease, clearing>>

SweepRemoves(f) ==
    /\ f \in sweep
    /\ sweep' = sweep \ {f} /\ disk' = Without({f})
    /\ UNCHANGED <<row, outbox, written, exec, job, lease, clearing>>

\* MaintenanceController::clearCache: not while the application itself executes a job
ClearCache ==
    /\ ~clearing /\ \A e \in Desktop : ~Running(e)
    /\ clearing' = TRUE
    /\ UNCHANGED <<mediaVars, exec, job, lease, sweep>>

\* clearCacheDirectory: one entry
ClearRemoves(f) ==
    /\ clearing /\ disk[f] # Absent
    /\ disk' = Without({f})
    /\ UNCHANGED <<row, outbox, written, exec, job, lease, sweep, clearing>>

ClearEnds ==
    /\ clearing /\ clearing' = FALSE
    /\ UNCHANGED <<mediaVars, exec, job, lease, sweep>>

LibraryStep ==
    /\ \/ \E r \in Recording : MoveToTrash(r) \/ Restore(r) \/ PermanentlyDelete(r, Leased(r))
       \/ \E r \in Recording, f \in SourceFile, clear \in BOOLEAN : RelinkSource(r, f, clear, Leased(r))
       \/ \E o \in outbox : DrainOne(o)
       \/ \E f \in SourceFile : Modify(f)
    /\ UNCHANGED <<exec, job, lease>> /\ Quiet

Step(e) ==
    \/ HashSource(e) \/ Verify(e) \/ StartDecoding(e) \/ Decoded(e) \/ Rehash(e) \/ Reverify(e)
    \/ DrawWaveform(e) \/ Save(e) \/ Plan(e)

PrepNext ==
    \/ \E e \in Execution : (\E r \in Recording, fresh \in BOOLEAN : Begin(e, r, fresh))
                            \/ Step(e) \/ Stop(e) \/ Die(e) \/ Age(e)
    \/ LeaseLapses \/ LibraryStep
    \/ SweepReads \/ \E f \in Cache : SweepRemoves(f)
    \/ ClearCache \/ ClearEnds \/ \E f \in Cache : ClearRemoves(f)

PrepSpec == PrepInit /\ [][PrepNext]_prepVars

-----------------------------------------------------------------------------
(* Properties. *)

\* All chunks of a job, in whichever executions they are transcribed, are of audio decoded from one and
\* the same source, whatever was modified, relinked, reused or decoded by others meanwhile; or the cache
\* was cleared under the execution.
ChunksOfOneSource ==
    \A e \in Execution : exec[e].at = "ready" /\ Holds(e) =>
        disk[exec[e].pcm] \in {Absent, job[exec[e].rec].chunks}

\* The audio and the waveform a recording refers to are of the source whose hash it records.
CacheIsOfItsHash ==
    \A r \in Recording : Exists(r) =>
        \A f \in {row[r].pcm, row[r].wave} \ {None} : disk[f] \in {Absent, row[r].hash}

\* The recordings' rows, and the audio and the waveform they refer to.
PreparationInv == PrepTypeOK /\ CacheIsOfItsHash

\* A file that a recording refers to, before and after a step, is removed only by Clear Cache: neither
\* the outbox, nor a sweep, nor an execution that cleans up after itself takes it.
ReferencedIsKept ==
    [][\A f \in Managed \cup Cache :
          Referenced(f) /\ Referenced(f)' /\ disk[f] # Absent /\ disk'[f] = Absent => clearing]_prepVars

=============================================================================
