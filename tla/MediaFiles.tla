----------------------------- MODULE MediaFiles -----------------------------
(***************************************************************************)
(* The files behind the recordings: the user's media, managed copies in    *)
(* the recordings directory and, in the cache, decoded audio and waveforms *)
(* whose names carry the owner token of the execution that wrote them. Rows*)
(* of table recordings refer to files; rows of the outbox                  *)
(* pending_recording_artifact_deletions name files still to be removed.    *)
(***************************************************************************)
EXTENDS Naturals, FiniteSets

CONSTANTS Recording,
          Source,       \* media files of the user
          Execution,    \* owner tokens: each execution of a job has a new one
          None,
          MaxVersion    \* bound: how many contents media files have in all

ASSUME MediaAssumption ==
    /\ IsFiniteSet(Source) /\ MaxVersion \in Nat /\ Cardinality(Source) <= MaxVersion

SourceFile == {"source"} \X Source
Managed    == {"managed"} \X Recording
Cache      == {"pcm", "wave"} \X Execution
File       == SourceFile \cup Managed \cup Cache

Absent  == 0
Mixed   == MaxVersion + 1     \* decoded while the media changed
Content == Absent .. Mixed

Row == [source : File, managed : Managed \cup {None}, pcm : Cache \cup {None}, wave : Cache \cup {None},
        hash : 0 .. MaxVersion, trashed : BOOLEAN]

ASSUME NoneAssumption == None \notin Recording \cup Execution \cup File \cup Row

VARIABLES
    disk,     \* the content of each file
    row,      \* table recordings
    outbox,   \* pending deletions: recording and file
    written   \* how many contents the media files have had

mediaVars == <<disk, row, outbox, written>>

Exists(r)     == row[r] # None
References(r) == {row[r].source, row[r].managed, row[r].pcm, row[r].wave}
\* pathIsReferenced: any of the four columns of any recording
Referenced(f) == \E r \in Recording : Exists(r) /\ f \in References(r)

NewRow(source, managed) == [source |-> source, managed |-> managed, pcm |-> None, wave |-> None,
                            hash |-> 0, trashed |-> FALSE]

MediaTypeOK ==
    /\ disk \in [File -> Content]
    /\ row \in [Recording -> Row \cup {None}]
    /\ outbox \subseteq Recording \X (Managed \cup Cache)
    /\ written \in 0 .. MaxVersion

\* Every media file has contents of its own; the recordings of copies have a managed copy, too.
MediaInit(copies, sourceOf) ==
    /\ \E v \in [Source -> 1 .. Cardinality(Source)] :
        /\ \A s, t \in Source : s # t => v[s] # v[t]
        /\ disk = [f \in File |-> IF f \in SourceFile THEN v[f[2]]
                                  ELSE IF f \in {"managed"} \X copies THEN v[sourceOf[f[2]][2]]
                                  ELSE Absent]
    /\ written = Cardinality(Source)
    /\ outbox = {}

-----------------------------------------------------------------------------
(* Transactions of SqliteRecordingRepository. *)

\* ensureNewManagedReferencesExist: a new reference into a managed directory must be to a file.
ReferenceExists(f) == f \in Managed \cup Cache => disk[f] # Absent

\* create
Create(r, source, managed) ==
    /\ ~Exists(r) /\ ReferenceExists(source) /\ ReferenceExists(managed)
    /\ row' = [row EXCEPT ![r] = NewRow(source, managed)]

\* update with an owner token: the derived columns
UpdateDerived(r, pcm, wave, hash) ==
    /\ Exists(r)
    /\ pcm # row[r].pcm => ReferenceExists(pcm)
    /\ wave # row[r].wave => ReferenceExists(wave)
    /\ row' = [row EXCEPT ![r] = [row[r] EXCEPT !.pcm = pcm, !.wave = wave, !.hash = hash]]

MoveToTrash(r) ==
    /\ Exists(r) /\ ~row[r].trashed
    /\ row' = [row EXCEPT ![r].trashed = TRUE]
    /\ UNCHANGED <<disk, outbox, written>>

Restore(r) ==
    /\ Exists(r) /\ row[r].trashed
    /\ row' = [row EXCEPT ![r].trashed = FALSE]
    /\ UNCHANGED <<disk, outbox, written>>

\* enqueueArtifactDeletions: never a file of the user, nor what is provably not the source
Artifacts(r) ==
    {f \in {row[r].managed} \cup ({row[r].pcm, row[r].wave} \ {row[r].source}) :
        f # None /\ disk[f] # Absent}

\* permanentlyDelete, refused while the recording is being transcribed
PermanentlyDelete(r, leased) ==
    /\ Exists(r) /\ row[r].trashed /\ ~leased
    /\ outbox' = outbox \cup {<<r, f>> : f \in Artifacts(r)}
    /\ row' = [row EXCEPT ![r] = None]
    /\ UNCHANGED <<disk, written>>

\* relinkSource. Whether a managed copy exists was looked at before the transaction.
RelinkSource(r, f, clearDerived, leased) ==
    /\ Exists(r) /\ ~leased
    /\ disk[f] # Absent
    /\ row' = [row EXCEPT ![r] = IF clearDerived
                                 THEN [row[r] EXCEPT !.source = f, !.pcm = None, !.wave = None, !.hash = 0]
                                 ELSE [row[r] EXCEPT !.source = f]]
    /\ UNCHANGED <<disk, outbox, written>>

\* Mutant: only the managed copies of the recordings are looked at.
DrainOneOfManaged(o) ==
    /\ o \in outbox
    /\ \/ disk[o[2]] = Absent /\ outbox' = outbox \ {o} /\ UNCHANGED disk
       \/ /\ disk[o[2]] # Absent
          /\ \A r \in Recording : Exists(r) => row[r].managed # o[2]
          /\ \/ disk' = [disk EXCEPT ![o[2]] = Absent] /\ outbox' = outbox \ {o}
             \/ UNCHANGED <<disk, outbox>>
    /\ UNCHANGED <<row, written>>

\* One transaction of drainPendingArtifactDeletions, at start-up or after a deletion. An entry whose
\* file is referenced, or cannot be removed, is tried again later.
DrainOne(o) ==
    /\ o \in outbox
    /\ \/ disk[o[2]] = Absent /\ outbox' = outbox \ {o} /\ UNCHANGED disk
       \/ /\ disk[o[2]] # Absent /\ ~Referenced(o[2])
          /\ \/ disk' = [disk EXCEPT ![o[2]] = Absent] /\ outbox' = outbox \ {o}
             \/ UNCHANGED <<disk, outbox>>
    /\ UNCHANGED <<row, written>>

-----------------------------------------------------------------------------
(* What users do to their files. *)

\* A media file is replaced, or removed, or comes back with other contents.
Modify(f) ==
    /\ f \in SourceFile
    /\ \/ disk[f] # Absent /\ disk' = [disk EXCEPT ![f] = Absent] /\ UNCHANGED written
       \/ /\ written < MaxVersion
          /\ written' = written + 1 /\ disk' = [disk EXCEPT ![f] = written + 1]
    /\ UNCHANGED <<row, outbox>>

=============================================================================
