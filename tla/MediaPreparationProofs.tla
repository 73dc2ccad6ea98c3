----------------------- MODULE MediaPreparationProofs ------------------------
(***************************************************************************)
(* Proofs about the preparation of media, for all recordings, files and    *)
(* executions. An execution hashes, decodes, compares and saves in steps   *)
(* between which anybody may change the source, the row, the lease or the  *)
(* cache. The inductive invariant says what it may still rely on at each   *)
(* stage, and why nobody else has the files it writes.                     *)
(***************************************************************************)
EXTENDS MediaPreparation, FiniteSetTheorems, TLAPS

PcmFile  == {"pcm"} \X Execution
WaveFile == {"wave"} \X Execution
Pcm(e)   == <<"pcm", e>>
Wave(e)  == <<"wave", e>>
Media    == SourceFile \cup Managed

\* The stages before the audio is written, those of work on the audio that is not the row's yet, and
\* those after the last write of the execution.
Early   == {"new", "hash", "verify", "inspect", "decode"}
Decodes == {"inspect", "decode", "rehash", "reverify"}
Late    == {"plan", "ready", "ended", "dead"}

\* No media has a content that nobody gave it.
MediaWritten == \A f \in Media : disk[f] <= written

\* The columns of a row name files of their kind.
ColumnsTyped ==
    \A r \in Recording : Exists(r) =>
        /\ row[r].source \in SourceFile
        /\ row[r].pcm \in PcmFile \cup {None} /\ row[r].wave \in WaveFile \cup {None}

\* A row names the files of an execution only when that is through with them; while it goes on, only the
\* row of its own recording does.
RowsAfterWriting ==
    \A r \in Recording, e \in Execution :
        Exists(r) /\ (row[r].pcm = Pcm(e) \/ row[r].wave = Wave(e)) =>
            exec[e].at \in Late /\ (Running(e) => exec[e].rec = r)

RowsShareNothing ==
    \A r, s \in Recording : Exists(r) /\ Exists(s) /\ r # s =>
        /\ row[r].pcm # None => row[r].pcm # row[s].pcm
        /\ row[r].wave # None => row[r].wave # row[s].wave

RowsSound == ColumnsTyped /\ RowsAfterWriting /\ RowsShareNothing

\* What an execution knows by itself, with the lease or without it. What it decoded may be of another
\* content than the one it hashed only when the media shows that to the second hash.
ExecSound(e) ==
    /\ Running(e) => exec[e].rec \in Recording /\ exec[e].pcm \in PcmFile
    /\ Running(e) /\ exec[e].at # "ready" => exec[e].media \in Media
    /\ exec[e].hash <= written
    /\ exec[e].at \in Decodes => exec[e].hash # 0 /\ exec[e].pcm = Pcm(e)
    /\ exec[e].aged => exec[e].at \in {"ready", "ended", "dead"}
    /\ exec[e].at \in Early => disk[Pcm(e)] = Absent
    /\ \A o \in Execution \ {e} : Running(e) /\ exec[e].pcm = Pcm(o) => exec[o].at \in Late
    /\ exec[e].at = "decode" =>
          exec[e].seen # Absent /\ (exec[e].seen # exec[e].hash => disk[exec[e].media] # exec[e].hash)
    /\ exec[e].at = "rehash" => disk[Pcm(e)] \in {Absent, exec[e].hash} \/ disk[exec[e].media] # exec[e].hash
    /\ exec[e].at = "reverify" => disk[Pcm(e)] \in {Absent, exec[e].hash} \/ exec[e].seen # exec[e].hash
    /\ exec[e].at \in {"wave", "save", "plan"} => disk[exec[e].pcm] \in {Absent, exec[e].hash}
    /\ exec[e].at = "save" /\ e \in Desktop => disk[Wave(e)] \in {Absent, exec[e].hash}

\* What the owner of the lease knows of the row and of the job.
HolderSound(e) ==
    /\ exec[e].rec \in Recording /\ Exists(exec[e].rec) /\ exec[e].at \notin {"new", "ended"}
    /\ exec[e].at \in {"hash", "verify"} =>
          exec[e].pcm = IF row[exec[e].rec].pcm # None THEN row[exec[e].rec].pcm ELSE Pcm(e)
    /\ exec[e].at \in Decodes \cup {"wave", "save", "plan"} =>
          job[exec[e].rec].bound = exec[e].hash /\ exec[e].hash # 0
    /\ exec[e].at \in {"wave", "save"} => exec[e].pcm \in {Pcm(e), row[exec[e].rec].pcm}
    /\ exec[e].at = "ready" => disk[exec[e].pcm] \in {Absent, job[exec[e].rec].chunks}

ExecsSound  == \A e \in Execution : ExecSound(e) /\ (lease = e => HolderSound(e))
ChunksBound == \A r \in Recording : job[r].chunks \in {Absent, job[r].bound}
SweepSound  == \A f \in sweep : ~Referenced(f) /\ exec[f[2]].aged

PreparationIInv ==
    PrepTypeOK /\ CacheIsOfItsHash /\ MediaWritten /\ RowsSound /\ ExecsSound /\ ChunksBound /\ SweepSound

-----------------------------------------------------------------------------
(* Files. *)

\* The names of cached files tell whose they are; they are none of media.
LEMMA CacheNames ==
    /\ \A e \in Execution : /\ Pcm(e) \in Cache /\ Wave(e) \in Cache /\ Pcm(e) \in PcmFile
                            /\ Wave(e) \in WaveFile /\ Pcm(e)[2] = e /\ Wave(e)[2] = e
                            /\ Files(e) = {Pcm(e), Wave(e)}
    /\ \A f \in PcmFile : f[2] \in Execution /\ f = Pcm(f[2])
    /\ \A f \in WaveFile : f[2] \in Execution /\ f = Wave(f[2])
    /\ Cache = PcmFile \cup WaveFile
    /\ PcmFile \cap WaveFile = {}
    /\ Media \cap Cache = {}
    /\ File = Media \cup Cache
    /\ SourceFile \cap Managed = {}
<1>1. \A e \in Execution : /\ Pcm(e) \in Cache /\ Wave(e) \in Cache /\ Pcm(e) \in PcmFile
                           /\ Wave(e) \in WaveFile /\ Pcm(e)[2] = e /\ Wave(e)[2] = e
                           /\ Files(e) = {Pcm(e), Wave(e)}
  BY DEF Pcm, Wave, Cache, PcmFile, WaveFile, Files
<1>2. \A f \in PcmFile : f[2] \in Execution /\ f = Pcm(f[2])
  BY DEF PcmFile, Pcm
<1>3. \A f \in WaveFile : f[2] \in Execution /\ f = Wave(f[2])
  BY DEF WaveFile, Wave
<1>4. Cache = PcmFile \cup WaveFile
  BY DEF Cache, PcmFile, WaveFile
<1>5. PcmFile \cap WaveFile = {} /\ Media \cap Cache = {} /\ SourceFile \cap Managed = {}
  BY DEF PcmFile, WaveFile, Media, SourceFile, Managed, Cache
<1>6. File = Media \cup Cache
  BY DEF File, Media
<1> QED
  BY <1>1, <1>2, <1>3, <1>4, <1>5, <1>6

\* None is no file of a row, no execution and no recording.
LEMMA NoneIsNone == /\ None \notin Recording /\ None \notin Execution /\ None \notin File
                    /\ None \notin PcmFile /\ None \notin WaveFile
  BY NoneAssumption, CacheNames

\* A cached file is referred to by the column of its kind.
LEMMA CacheReferences ==
    ASSUME PrepTypeOK, ColumnsTyped, NEW f \in Cache
    PROVE  Referenced(f) <=> \E r \in Recording : Exists(r) /\ f \in {row[r].pcm, row[r].wave}
<1>1. ASSUME NEW r \in Recording, Exists(r)
      PROVE  f # row[r].source /\ f # row[r].managed
  <2>1. row[r].source \in Media /\ row[r].managed \in Managed \cup {None}
    BY <1>1, NoneIsNone DEF ColumnsTyped, PrepTypeOK, MediaTypeOK, Exists, Row, Media
  <2> QED
    BY <2>1, CacheNames, NoneIsNone DEF Media
<1> QED
  BY <1>1 DEF Referenced, References

-----------------------------------------------------------------------------
(* What steps leave alone. *)

\* The step is not one of o: it writes no file of o, none of an execution that is through with its files,
\* gives media only new contents, and leaves o the row and the job while o keeps the lease.
Beside(o) ==
    /\ exec'[o] = exec[o]
    /\ \A q \in Execution : exec[q].at \in Late => exec'[q].at \in Late
    /\ written' \in Nat /\ written' >= written
    /\ \A f \in File : \/ disk'[f] \in {disk[f], Absent}
                       \/ f \in SourceFile /\ disk'[f] > written
                       \/ f \in Cache /\ f \notin Files(o) /\ exec[f[2]].at \notin Late
    /\ lease' = o => /\ lease = o /\ job' = job
                     /\ row'[exec[o].rec] # None /\ row'[exec[o].rec].pcm = row[exec[o].rec].pcm

LEMMA BesideKeeps ==
    ASSUME PreparationIInv, NEW o \in Execution, Beside(o)
    PROVE  ExecSound(o)' /\ (lease' = o => HolderSound(o)')
<1> USE DEF Absent
<1>0. ExecSound(o) /\ (lease = o => HolderSound(o))
  BY DEF PreparationIInv, ExecsSound
<1>1. exec'[o] = exec[o] /\ (Running(o))' = Running(o)
  BY DEF Beside, Running
<1>2. exec[o].hash \in Nat /\ written \in Nat /\ written' >= written
  BY DEF PreparationIInv, PrepTypeOK, MediaTypeOK, Exec, Beside
<1>3. disk'[Pcm(o)] \in {disk[Pcm(o)], Absent} /\ disk'[Wave(o)] \in {disk[Wave(o)], Absent}
  <2>1. Pcm(o) \in File /\ Wave(o) \in File /\ Pcm(o) \notin SourceFile /\ Wave(o) \notin SourceFile
        /\ Pcm(o) \in Files(o) /\ Wave(o) \in Files(o)
    BY CacheNames DEF Media
  <2> QED
    BY <2>1 DEF Beside
<1>4. Running(o) => disk'[exec[o].pcm] \in {disk[exec[o].pcm], Absent}
  <2> SUFFICES ASSUME Running(o) PROVE disk'[exec[o].pcm] \in {disk[exec[o].pcm], Absent}
    OBVIOUS
  <2>1. PICK q \in Execution : exec[o].pcm = Pcm(q)
    BY <1>0, CacheNames DEF ExecSound
  <2>2. CASE q = o
    BY <2>1, <2>2, <1>3
  <2>3. CASE q # o
    <3>1. exec[q].at \in Late
      BY <1>0, <2>1, <2>3 DEF ExecSound
    <3>2. Pcm(q) \in File /\ Pcm(q) \notin SourceFile /\ Pcm(q)[2] = q
      BY CacheNames DEF Media
    <3> QED
      BY <3>1, <3>2, <2>1 DEF Beside
  <2> QED
    BY <2>2, <2>3
<1>5. Running(o) /\ exec[o].at # "ready" =>
        disk'[exec[o].media] \in {disk[exec[o].media], Absent} \/ disk'[exec[o].media] > written
  <2>1. \A f \in Media : f \in File /\ f \notin Cache
    BY CacheNames
  <2> QED
    BY <2>1, <1>0 DEF Beside, ExecSound
<1>6. ExecSound(o)'
  <2>1. \A q \in Execution : exec[q].at \in Late => exec'[q].at \in Late
    BY DEF Beside
  <2>2. exec[o].at \in Decodes => Running(o) /\ exec[o].at # "ready" /\ exec[o].hash # 0
    BY <1>0 DEF ExecSound, Decodes, Running
  <2>3. disk[exec[o].media] # exec[o].hash /\ exec[o].at \in Decodes => disk'[exec[o].media] # exec[o].hash
    BY <2>2, <1>0, <1>2, <1>5 DEF ExecSound
  <2>4. exec[o].at \in {"wave", "save", "plan"} => Running(o)
    BY DEF Running
  <2>5. /\ Running(o) => exec[o].rec \in Recording /\ exec[o].pcm \in PcmFile
        /\ Running(o) /\ exec[o].at # "ready" => exec[o].media \in Media
        /\ exec[o].at \in Decodes => exec[o].hash # 0 /\ exec[o].pcm = Pcm(o)
        /\ exec[o].aged => exec[o].at \in {"ready", "ended", "dead"}
    BY <1>0 DEF ExecSound
  <2>11. exec[o].hash <= written'
    <3>1. exec[o].hash <= written /\ written' \in Nat
      BY <1>0, <1>2 DEF ExecSound, Beside
    <3> QED
      BY <1>2, <3>1
  <2>12. exec[o].at \in Early => disk'[Pcm(o)] = Absent
    BY <1>0, <1>3 DEF ExecSound
  <2>13. \A q \in Execution \ {o} : Running(o) /\ exec[o].pcm = Pcm(q) => exec'[q].at \in Late
    BY <1>0, <2>1 DEF ExecSound
  <2>6. exec[o].at = "decode" =>
          exec[o].seen # Absent /\ (exec[o].seen # exec[o].hash => disk'[exec[o].media] # exec[o].hash)
    BY <1>0, <2>3 DEF ExecSound, Decodes
  <2>7. exec[o].at = "rehash" => disk'[Pcm(o)] \in {Absent, exec[o].hash} \/ disk'[exec[o].media] # exec[o].hash
    BY <1>0, <1>3, <2>3 DEF ExecSound, Decodes
  <2>8. exec[o].at = "reverify" => disk'[Pcm(o)] \in {Absent, exec[o].hash} \/ exec[o].seen # exec[o].hash
    BY <1>0, <1>3 DEF ExecSound
  <2>9. exec[o].at \in {"wave", "save", "plan"} => disk'[exec[o].pcm] \in {Absent, exec[o].hash}
    BY <1>0, <1>4, <2>4 DEF ExecSound
  <2>10. exec[o].at = "save" /\ o \in Desktop => disk'[Wave(o)] \in {Absent, exec[o].hash}
    BY <1>0, <1>3 DEF ExecSound
  <2> QED
    BY <1>1, <2>5, <2>6, <2>7, <2>8, <2>9, <2>10, <2>11, <2>12, <2>13 DEF ExecSound, Pcm, Wave
<1>7. ASSUME lease' = o PROVE HolderSound(o)'
  <2>1. lease = o /\ job' = job /\ row'[exec[o].rec] # None /\ row'[exec[o].rec].pcm = row[exec[o].rec].pcm
    BY <1>7 DEF Beside
  <2>2. exec[o].at = "ready" => Running(o)
    BY DEF Running
  <2> QED
    BY <1>0, <1>1, <1>4, <2>1, <2>2 DEF HolderSound, Exists, Pcm
<1> QED
  BY <1>6, <1>7

\* Rows lose columns or get another source, and what they name loses its content at most.
RowsShrink ==
    /\ row' \in [Recording -> Row \cup {None}]
    /\ \A r \in Recording : row'[r] # None =>
          /\ row[r] # None
          /\ row'[r].source \in SourceFile
          /\ row'[r].pcm \in {row[r].pcm, None} /\ row'[r].wave \in {row[r].wave, None}
          /\ row'[r].hash # row[r].hash => row'[r].pcm = None /\ row'[r].wave = None

\* No execution that is through with its files begins to write them again.
ExecsGoOn ==
    \A q \in Execution : exec[q].at \in Late =>
        exec'[q].at \in Late /\ (Running(q)' => Running(q) /\ exec'[q].rec = exec[q].rec)

\* Cached files are written by executions that are not through with them.
CacheWrites == \A f \in Cache : disk'[f] \in {disk[f], Absent} \/ exec[f[2]].at \notin Late

LEMMA RowsKept ==
    ASSUME PreparationIInv, RowsShrink, ExecsGoOn, CacheWrites
    PROVE  /\ CacheIsOfItsHash' /\ RowsSound'
           /\ PrepTypeOK' => \A f \in Cache : Referenced(f)' => Referenced(f)
<1>1. ASSUME NEW r \in Recording, row'[r] # None
      PROVE  /\ Exists(r) /\ row'[r].source \in SourceFile
             /\ row'[r].pcm \in {row[r].pcm, None} /\ row'[r].wave \in {row[r].wave, None}
             /\ row'[r].hash # row[r].hash => row'[r].pcm = None /\ row'[r].wave = None
             /\ row[r].pcm \in PcmFile \cup {None} /\ row[r].wave \in WaveFile \cup {None}
  BY <1>1 DEF RowsShrink, Exists, PreparationIInv, RowsSound, ColumnsTyped
<1>2. ColumnsTyped'
  BY <1>1 DEF ColumnsTyped, Exists, PcmFile, WaveFile
<1>3. RowsAfterWriting'
  <2> SUFFICES ASSUME NEW r \in Recording, NEW e \in Execution, row'[r] # None,
                      row'[r].pcm = Pcm(e) \/ row'[r].wave = Wave(e)
               PROVE  exec'[e].at \in Late /\ (Running(e)' => exec'[e].rec = r)
    BY DEF RowsAfterWriting, Exists, Pcm, Wave
  <2>1. Pcm(e) # None /\ Wave(e) # None
    BY CacheNames, NoneIsNone
  <2>2. Exists(r) /\ (row[r].pcm = Pcm(e) \/ row[r].wave = Wave(e))
    BY <1>1, <2>1
  <2>3. exec[e].at \in Late /\ (Running(e) => exec[e].rec = r)
    BY <2>2 DEF PreparationIInv, RowsSound, RowsAfterWriting
  <2> QED
    BY <2>3 DEF ExecsGoOn
<1>4. RowsShareNothing'
  BY <1>1 DEF RowsShareNothing, Exists, PreparationIInv, RowsSound
<1>5. CacheIsOfItsHash'
  <2> SUFFICES ASSUME NEW r \in Recording, row'[r] # None,
                      NEW f \in {row'[r].pcm, row'[r].wave}, f # None
               PROVE  disk'[f] \in {Absent, row'[r].hash}
    BY DEF CacheIsOfItsHash, Exists
  <2>1. f \in {row[r].pcm, row[r].wave} \ {None} /\ Exists(r) /\ row'[r].hash = row[r].hash
    BY <1>1
  <2>2. f \in Cache /\ f[2] \in Execution /\ exec[f[2]].at \in Late
    <3>1. (f \in PcmFile /\ row[r].pcm = f) \/ (f \in WaveFile /\ row[r].wave = f)
      BY <1>1, <2>1
    <3>2. f \in Cache /\ f[2] \in Execution /\ (row[r].pcm = Pcm(f[2]) \/ row[r].wave = Wave(f[2]))
      BY <3>1, CacheNames
    <3> QED
      BY <3>2, <2>1 DEF PreparationIInv, RowsSound, RowsAfterWriting
  <2>3. disk[f] \in {Absent, row[r].hash}
    BY <2>1 DEF PreparationIInv, CacheIsOfItsHash
  <2> QED
    BY <2>1, <2>2, <2>3 DEF CacheWrites
<1>6. ASSUME PrepTypeOK', NEW f \in Cache, Referenced(f)' PROVE Referenced(f)
  <2>1. PICK r \in Recording : row'[r] # None /\ f \in {row'[r].pcm, row'[r].wave}
    <3>1. \A r \in Recording : row'[r] # None => f # row'[r].source /\ f # row'[r].managed
      <4>1. \A r \in Recording : row'[r] # None => row'[r].managed \in Managed \cup {None}
        BY <1>6 DEF PrepTypeOK, MediaTypeOK, Row, Managed
      <4> QED
        BY <1>1, <4>1, CacheNames, NoneIsNone DEF Media
    <3> QED
      BY <3>1, <1>6 DEF Referenced, References, Exists
  <2>2. f # None
    BY CacheNames, NoneIsNone
  <2>3. Exists(r) /\ f \in {row[r].pcm, row[r].wave}
    BY <2>1, <2>2, <1>1
  <2> QED
    BY <2>3 DEF Referenced, References
<1> QED
  BY <1>2, <1>3, <1>4, <1>5, <1>6 DEF RowsSound

-----------------------------------------------------------------------------
(* Steps of an execution. *)

\* A step of e disturbs no other: it writes its own files only while it may, and rows and jobs only with
\* the lease, or, when it begins, while nobody has the lease.
OwnStep(e) ==
    /\ \A o \in Execution \ {e} : exec'[o] = exec[o]
    /\ exec[e].at \in Late => exec'[e].at \in Late /\ (Running(e)' => Running(e) /\ exec'[e].rec = exec[e].rec)
    /\ exec[e].aged => exec'[e].aged
    /\ \A f \in File : disk'[f] \in {disk[f], Absent} \/ (f \in Files(e) /\ exec[e].at \notin Late)
    /\ lease = e \/ row' = row
    /\ lease = e \/ lease = None \/ job' = job
    /\ lease' \in {lease, None, e}
    /\ UNCHANGED <<outbox, written, sweep, clearing>>

\* What a reference names is taken away only by Clear Cache.
KeepsReferenced ==
    \A f \in Managed \cup Cache :
        Referenced(f) /\ Referenced(f)' /\ disk[f] # Absent /\ disk'[f] = Absent => clearing

LEMMA OwnStepFrame ==
    ASSUME PreparationIInv, NEW e \in Execution, OwnStep(e)
    PROVE  /\ ExecsGoOn /\ CacheWrites /\ MediaWritten'
           /\ \A o \in Execution \ {e} : ExecSound(o)' /\ (lease' = o => HolderSound(o)')
           /\ \A f \in sweep' : exec'[f[2]].aged
<1>0. PrepTypeOK
  BY DEF PreparationIInv
<1>1. ExecsGoOn
  <2> SUFFICES ASSUME NEW q \in Execution, exec[q].at \in Late
               PROVE  exec'[q].at \in Late /\ (Running(q)' => Running(q) /\ exec'[q].rec = exec[q].rec)
    BY DEF ExecsGoOn
  <2>1. CASE q = e
    BY <2>1 DEF OwnStep
  <2>2. CASE q # e
    BY <2>2 DEF OwnStep, Running
  <2> QED
    BY <2>1, <2>2
<1>2. \A f \in Files(e) : f \in Cache /\ f[2] = e
  BY CacheNames
<1>3. CacheWrites
  <2>1. \A f \in Cache : f \in File
    BY CacheNames
  <2> QED
    BY <2>1, <1>2 DEF OwnStep, CacheWrites
<1>4. MediaWritten'
  <2> SUFFICES ASSUME NEW f \in Media PROVE disk'[f] <= written'
    BY DEF MediaWritten, Media, SourceFile, Managed
  <2>1. f \in File /\ f \notin Files(e)
    BY CacheNames, <1>2
  <2>2. disk'[f] \in {disk[f], 0} /\ written' = written
    BY <2>1 DEF OwnStep, Absent
  <2>3. disk[f] <= written /\ written \in Nat
    BY <1>0 DEF PreparationIInv, MediaWritten, PrepTypeOK, MediaTypeOK
  <2> QED
    BY <2>2, <2>3
<1>5. ASSUME NEW o \in Execution \ {e} PROVE ExecSound(o)' /\ (lease' = o => HolderSound(o)')
  <2>1. exec'[o] = exec[o]
    BY DEF OwnStep
  <2>2. \A q \in Execution : exec[q].at \in Late => exec'[q].at \in Late
    BY <1>1 DEF ExecsGoOn
  <2>3. written' \in Nat /\ written' >= written
    BY <1>0 DEF OwnStep, PrepTypeOK, MediaTypeOK
  <2>4. ASSUME NEW f \in File
        PROVE  disk'[f] \in {disk[f], Absent} \/ (f \in Cache /\ f \notin Files(o) /\ exec[f[2]].at \notin Late)
    <3>1. CASE f \in Files(e) /\ exec[e].at \notin Late
      <4>1. \A g \in Files(o) : g[2] = o
        BY CacheNames
      <4> QED
        BY <3>1, <4>1, <1>2
    <3>2. CASE disk'[f] \in {disk[f], Absent}
      BY <3>2
    <3> QED
      BY <3>1, <3>2 DEF OwnStep
  <2>5. ASSUME lease' = o
        PROVE  /\ lease = o /\ job' = job
               /\ row'[exec[o].rec] # None /\ row'[exec[o].rec].pcm = row[exec[o].rec].pcm
    <3>1. lease = o
      BY <2>5, NoneIsNone DEF OwnStep
    <3>2. row' = row /\ job' = job
      BY <3>1, NoneIsNone DEF OwnStep
    <3>3. row[exec[o].rec] # None
      BY <3>1 DEF PreparationIInv, ExecsSound, HolderSound, Exists
    <3> QED
      BY <3>1, <3>2, <3>3
  <2>6. Beside(o)
    BY <2>1, <2>2, <2>3, <2>4, <2>5 DEF Beside
  <2> QED
    BY <2>6, BesideKeeps
<1>6. ASSUME NEW f \in sweep' PROVE exec'[f[2]].aged
  <2>1. f \in sweep /\ f \in Cache /\ f[2] \in Execution /\ exec[f[2]].aged
    BY <1>0, CacheNames DEF OwnStep, PreparationIInv, SweepSound, PrepTypeOK
  <2> QED
    BY <2>1 DEF OwnStep
<1> QED
  BY <1>1, <1>3, <1>4, <1>5, <1>6

\* A step of e that gives no row a new file.
LEMMA OwnStepKeeps ==
    ASSUME PreparationIInv, NEW e \in Execution, OwnStep(e), RowsShrink, PrepTypeOK',
           ExecSound(e)', lease' = e => HolderSound(e)', ChunksBound'
    PROVE  PreparationIInv'
<1>1. ExecsSound'
  BY OwnStepFrame DEF ExecsSound
<1>2. /\ CacheIsOfItsHash' /\ RowsSound'
      /\ \A f \in Cache : Referenced(f)' => Referenced(f)
  BY OwnStepFrame, RowsKept
<1>3. SweepSound'
  <2>1. sweep' = sweep /\ sweep \subseteq Cache
    BY DEF OwnStep, PreparationIInv, PrepTypeOK
  <2>2. \A f \in sweep : ~Referenced(f)
    BY DEF PreparationIInv, SweepSound
  <2> QED
    BY <1>2, <2>1, <2>2, OwnStepFrame DEF SweepSound
<1> QED
  BY <1>1, <1>2, <1>3, OwnStepFrame DEF PreparationIInv

\* Rows that stay as they are.
LEMMA SameRowsShrink ==
    ASSUME PreparationIInv, row' = row
    PROVE  RowsShrink
  BY DEF RowsShrink, PreparationIInv, PrepTypeOK, MediaTypeOK, RowsSound, ColumnsTyped, Exists

LEMMA BecomeIs ==
    ASSUME PrepTypeOK, NEW e \in Execution, NEW x, Become(e, x)
    PROVE  /\ exec'[e] = x /\ \A o \in Execution \ {e} : exec'[o] = exec[o]
           /\ x \in Exec => exec' \in [Execution -> Exec]
  BY DEF PrepTypeOK, Become

\* Fields of the rows and of the executions.
LEMMA FieldTypes ==
    ASSUME PrepTypeOK
    PROVE  /\ \A r \in Recording : Exists(r) =>
                 /\ row[r] \in Row /\ row[r].source \in File /\ row[r].managed \in Managed \cup {None}
                 /\ row[r].pcm \in Cache \cup {None} /\ row[r].wave \in Cache \cup {None}
                 /\ row[r].hash \in 0 .. MaxVersion
           /\ \A e \in Execution :
                 /\ exec[e] \in Exec /\ exec[e].at \in Stage /\ exec[e].rec \in Recording \cup {None}
                 /\ exec[e].media \in File \cup {None} /\ exec[e].pcm \in Cache \cup {None}
                 /\ exec[e].hash \in 0 .. MaxVersion /\ exec[e].seen \in Content /\ exec[e].aged \in BOOLEAN
           /\ \A r \in Recording : job[r].bound \in 0 .. MaxVersion /\ job[r].chunks \in 0 .. Mixed
           /\ \A f \in File : disk[f] \in Content
           /\ written \in Nat /\ written <= MaxVersion /\ MaxVersion \in Nat
<1>1. \A r \in Recording : Exists(r) =>
                 /\ row[r] \in Row /\ row[r].source \in File /\ row[r].managed \in Managed \cup {None}
                 /\ row[r].pcm \in Cache \cup {None} /\ row[r].wave \in Cache \cup {None}
                 /\ row[r].hash \in 0 .. MaxVersion
  BY DEF PrepTypeOK, MediaTypeOK, Row, Exists
<1>2. \A e \in Execution :
                 /\ exec[e] \in Exec /\ exec[e].at \in Stage /\ exec[e].rec \in Recording \cup {None}
                 /\ exec[e].media \in File \cup {None} /\ exec[e].pcm \in Cache \cup {None}
                 /\ exec[e].hash \in 0 .. MaxVersion /\ exec[e].seen \in Content /\ exec[e].aged \in BOOLEAN
  BY DEF PrepTypeOK, Exec
<1>3. \A r \in Recording : job[r].bound \in 0 .. MaxVersion /\ job[r].chunks \in 0 .. Mixed
  BY DEF PrepTypeOK
<1>4. \A f \in File : disk[f] \in Content
  BY DEF PrepTypeOK, MediaTypeOK
<1>5. written \in Nat /\ written <= MaxVersion /\ MaxVersion \in Nat
  BY MediaAssumption DEF PrepTypeOK, MediaTypeOK
<1> QED
  BY <1>1, <1>2, <1>3, <1>4, <1>5

\* A step of e that touches no row and no file, and gives itself good knowledge.
LEMMA QuietOwnStep ==
    ASSUME PreparationIInv, NEW e \in Execution, NEW x \in Exec, Become(e, x),
           UNCHANGED mediaVars, Quiet, job' = job, lease' \in {lease, None},
           exec[e].at \in Late => x.at \in Late /\ (x.at \notin {"ended", "dead"} => Running(e) /\ x.rec = exec[e].rec),
           exec[e].aged => x.aged,
           ExecSound(e)', lease' = e => HolderSound(e)'
    PROVE  PreparationIInv' /\ KeepsReferenced
<1>1. exec'[e] = x /\ exec' \in [Execution -> Exec] /\ \A o \in Execution \ {e} : exec'[o] = exec[o]
  BY BecomeIs DEF PreparationIInv
<1>2. UNCHANGED <<disk, row, outbox, written, job, sweep, clearing>>
  BY DEF mediaVars, Quiet
<1>3. PrepTypeOK'
  BY <1>1, <1>2 DEF PreparationIInv, PrepTypeOK, MediaTypeOK
<1>4. OwnStep(e)
  BY <1>1, <1>2 DEF OwnStep, Running, Late
<1>5. ChunksBound'
  BY <1>2 DEF PreparationIInv, ChunksBound
<1>6. KeepsReferenced
  BY <1>2 DEF KeepsReferenced
<1> QED
  BY <1>2, <1>3, <1>4, <1>5, <1>6, SameRowsShrink, OwnStepKeeps

LEMMA HashSourceKeeps ==
    ASSUME PreparationIInv, NEW e \in Execution, HashSource(e)
    PROVE  PreparationIInv' /\ KeepsReferenced
<1> DEFINE x == [exec[e] EXCEPT !.at = "verify", !.hash = disk[exec[e].media]]
<1>0. PrepTypeOK /\ ExecSound(e) /\ (lease = e => HolderSound(e)) /\ exec[e].at = "hash" /\ Running(e)
      /\ UNCHANGED <<disk, row, written, job, lease>> /\ UNCHANGED mediaVars /\ Quiet /\ Become(e, x)
  BY DEF PreparationIInv, ExecsSound, HashSource, Running, mediaVars
<1>1. exec[e] \in Exec /\ exec[e].media \in Media
  BY <1>0, FieldTypes DEF ExecSound
<1>2. disk[exec[e].media] \in 0 .. MaxVersion /\ disk[exec[e].media] <= written
  <2>1. exec[e].media \in File
    BY <1>1, CacheNames
  <2>2. disk[exec[e].media] \in Content /\ written \in Nat /\ written <= MaxVersion /\ MaxVersion \in Nat
    BY <1>0, <2>1, FieldTypes
  <2>3. disk[exec[e].media] <= written
    BY <1>1 DEF PreparationIInv, MediaWritten
  <2> QED
    BY <2>2, <2>3 DEF Content, Absent, Mixed
<1>3. /\ x \in Exec /\ x.at = "verify" /\ x.hash = disk[exec[e].media] /\ x.rec = exec[e].rec
      /\ x.media = exec[e].media /\ x.pcm = exec[e].pcm /\ x.aged = exec[e].aged
  BY <1>1, <1>2 DEF Exec, Stage
<1> HIDE DEF x
<1>4. exec'[e] = x /\ \A o \in Execution \ {e} : exec'[o] = exec[o]
  BY <1>0, BecomeIs
<1>5. ExecSound(e)'
  BY <1>0, <1>2, <1>3, <1>4 DEF ExecSound, Running, Early, Decodes, Pcm, Wave
<1>6. lease' = e => HolderSound(e)'
  BY <1>0, <1>3, <1>4 DEF HolderSound, Exists, Decodes, Pcm
<1>7. exec[e].at \notin Late
  BY <1>0 DEF Late
<1> QED
  BY <1>0, <1>3, <1>5, <1>6, <1>7, QuietOwnStep

LEMMA StartDecodingKeeps ==
    ASSUME PreparationIInv, NEW e \in Execution, StartDecoding(e)
    PROVE  PreparationIInv' /\ KeepsReferenced
<1> DEFINE x == [exec[e] EXCEPT !.at = "decode", !.seen = disk[exec[e].media]]
<1>0. PrepTypeOK /\ ExecSound(e) /\ (lease = e => HolderSound(e)) /\ exec[e].at = "inspect" /\ Running(e)
      /\ UNCHANGED <<disk, row, written, job, lease>> /\ UNCHANGED mediaVars /\ Quiet /\ Become(e, x)
      /\ disk[exec[e].media] # Absent
  BY DEF PreparationIInv, ExecsSound, StartDecoding, Running, mediaVars
<1>1. exec[e] \in Exec /\ exec[e].media \in Media
  BY <1>0, FieldTypes DEF ExecSound
<1>2. disk[exec[e].media] \in Content
  BY <1>0, <1>1, FieldTypes, CacheNames
<1>3. /\ x \in Exec /\ x.at = "decode" /\ x.seen = disk[exec[e].media] /\ x.rec = exec[e].rec
      /\ x.media = exec[e].media /\ x.pcm = exec[e].pcm /\ x.hash = exec[e].hash /\ x.aged = exec[e].aged
  BY <1>1, <1>2 DEF Exec, Stage
<1> HIDE DEF x
<1>4. exec'[e] = x /\ \A o \in Execution \ {e} : exec'[o] = exec[o]
  BY <1>0, BecomeIs
<1>5. ExecSound(e)'
  BY <1>0, <1>3, <1>4 DEF ExecSound, Running, Early, Decodes, Pcm, Wave
<1>6. lease' = e => HolderSound(e)'
  BY <1>0, <1>3, <1>4 DEF HolderSound, Exists, Decodes, Pcm
<1>7. exec[e].at \notin Late
  BY <1>0 DEF Late
<1> QED
  BY <1>0, <1>3, <1>5, <1>6, <1>7, QuietOwnStep

LEMMA RehashKeeps ==
    ASSUME PreparationIInv, NEW e \in Execution, Rehash(e)
    PROVE  PreparationIInv' /\ KeepsReferenced
<1> DEFINE x == [exec[e] EXCEPT !.at = "reverify", !.seen = disk[exec[e].media]]
<1>0. PrepTypeOK /\ ExecSound(e) /\ (lease = e => HolderSound(e)) /\ exec[e].at = "rehash" /\ Running(e)
      /\ UNCHANGED <<disk, row, written, job, lease>> /\ UNCHANGED mediaVars /\ Quiet /\ Become(e, x)
  BY DEF PreparationIInv, ExecsSound, Rehash, Running, mediaVars
<1>1. exec[e] \in Exec /\ exec[e].media \in Media
  BY <1>0, FieldTypes DEF ExecSound
<1>2. disk[exec[e].media] \in Content
  BY <1>0, <1>1, FieldTypes, CacheNames
<1>3. /\ x \in Exec /\ x.at = "reverify" /\ x.seen = disk[exec[e].media] /\ x.rec = exec[e].rec
      /\ x.media = exec[e].media /\ x.pcm = exec[e].pcm /\ x.hash = exec[e].hash /\ x.aged = exec[e].aged
  BY <1>1, <1>2 DEF Exec, Stage
<1> HIDE DEF x
<1>4. exec'[e] = x /\ \A o \in Execution \ {e} : exec'[o] = exec[o]
  BY <1>0, BecomeIs
<1>5. ExecSound(e)'
  BY <1>0, <1>3, <1>4 DEF ExecSound, Running, Early, Decodes, Pcm, Wave
<1>6. lease' = e => HolderSound(e)'
  BY <1>0, <1>3, <1>4 DEF HolderSound, Exists, Decodes, Pcm
<1>7. exec[e].at \notin Late
  BY <1>0 DEF Late
<1> QED
  BY <1>0, <1>3, <1>5, <1>6, <1>7, QuietOwnStep

LEMMA DieKeeps ==
    ASSUME PreparationIInv, NEW e \in Execution, Die(e)
    PROVE  PreparationIInv' /\ KeepsReferenced
<1> DEFINE x == [Idle("dead", exec[e].aged) EXCEPT !.rec = exec[e].rec]
<1>0. PrepTypeOK /\ ExecSound(e) /\ (lease = e => HolderSound(e)) /\ Running(e)
      /\ UNCHANGED <<disk, row, written, job, lease>> /\ UNCHANGED mediaVars /\ Quiet /\ Become(e, x)
  BY DEF PreparationIInv, ExecsSound, Die, mediaVars
<1>1. exec[e] \in Exec /\ exec[e].rec \in Recording /\ exec[e].aged \in BOOLEAN
  BY <1>0, FieldTypes DEF ExecSound
<1>3. x \in Exec /\ x.at = "dead" /\ x.rec = exec[e].rec /\ x.hash = 0 /\ x.aged = exec[e].aged
  BY <1>1, FieldTypes, MediaAssumption DEF Exec, Stage, Idle, Content, Absent, Mixed
<1> HIDE DEF x
<1>4. exec'[e] = x /\ \A o \in Execution \ {e} : exec'[o] = exec[o]
  BY <1>0, BecomeIs
<1>5. ExecSound(e)'
  BY <1>0, <1>3, <1>4, FieldTypes DEF ExecSound, Running, Early, Decodes, Pcm, Wave
<1>6. lease' = e => HolderSound(e)'
  BY <1>0, <1>3, <1>4 DEF HolderSound, Exists, Decodes, Pcm
<1> QED
  BY <1>0, <1>3, <1>5, <1>6, QuietOwnStep DEF Late

LEMMA AgeKeeps ==
    ASSUME PreparationIInv, NEW e \in Execution, Age(e)
    PROVE  PreparationIInv' /\ KeepsReferenced
<1> DEFINE x == [exec[e] EXCEPT !.aged = TRUE]
<1>0. PrepTypeOK /\ ExecSound(e) /\ (lease = e => HolderSound(e)) /\ exec[e].at \in {"ready", "ended", "dead"}
      /\ UNCHANGED <<disk, row, written, job, lease>> /\ UNCHANGED mediaVars /\ Quiet /\ Become(e, x)
  BY DEF PreparationIInv, ExecsSound, Age, mediaVars
<1>1. exec[e] \in Exec
  BY <1>0, FieldTypes
<1>3. /\ x \in Exec /\ x.at = exec[e].at /\ x.rec = exec[e].rec /\ x.aged = TRUE
      /\ x.media = exec[e].media /\ x.pcm = exec[e].pcm /\ x.hash = exec[e].hash
  BY <1>1 DEF Exec
<1> HIDE DEF x
<1>4. exec'[e] = x /\ \A o \in Execution \ {e} : exec'[o] = exec[o]
  BY <1>0, BecomeIs
<1>5. ExecSound(e)'
  BY <1>0, <1>3, <1>4 DEF ExecSound, Running, Early, Decodes, Pcm, Wave
<1>6. lease' = e => HolderSound(e)'
  BY <1>0, <1>3, <1>4 DEF HolderSound, Exists, Decodes, Pcm
<1> QED
  BY <1>0, <1>3, <1>5, <1>6, QuietOwnStep DEF Late, Running

\* Ending e, whatever of its own files it removes.
LEMMA EndKeeps ==
    ASSUME PreparationIInv, NEW e \in Execution, Running(e), End(e), UNCHANGED <<row, outbox, written>>, Quiet,
           job' \in [Recording -> [bound : 0 .. MaxVersion, chunks : 0 .. Mixed]],
           lease = e \/ lease = None \/ job' = job, ChunksBound'
    PROVE  PreparationIInv' /\ KeepsReferenced
<1> DEFINE x == Idle("ended", exec[e].aged)
<1>0. PrepTypeOK /\ ExecSound(e) /\ Become(e, x) /\ lease' = Released(e)
      /\ UNCHANGED <<row, outbox, written, sweep, clearing>>
  BY DEF PreparationIInv, ExecsSound, End, Quiet
<1>1. x \in Exec /\ x.at = "ended" /\ x.hash = 0 /\ x.aged = exec[e].aged
  BY <1>0, FieldTypes, MediaAssumption DEF Exec, Stage, Idle, Content, Absent, Mixed
<1> HIDE DEF x
<1>2. exec'[e] = x /\ (\A o \in Execution \ {e} : exec'[o] = exec[o]) /\ exec' \in [Execution -> Exec]
  BY <1>0, <1>1, BecomeIs
<1>3. PICK S \in SUBSET {f \in Files(e) : ~Exists(exec[e].rec) \/ f \notin References(exec[e].rec)} :
           disk' = Without(S)
  BY DEF End, Cleanup
<1>4. /\ disk' \in [File -> Content]
      /\ \A f \in File : disk'[f] = IF f \in S THEN Absent ELSE disk[f]
  <2>1. Absent \in Content
    BY MediaAssumption DEF Absent, Content, Mixed
  <2>2. disk' = [f \in File |-> IF f \in S THEN Absent ELSE disk[f]]
    BY <1>3 DEF Without
  <2>3. \A f \in File : disk[f] \in Content
    BY <1>0, FieldTypes
  <2> QED
    BY <2>1, <2>2, <2>3
<1>5. lease' \in {lease, None} /\ lease' # e
  BY NoneIsNone DEF End, Released
<1>6. ExecSound(e)'
  BY <1>0, <1>1, <1>2, FieldTypes DEF ExecSound, Running, Early, Decodes
<1>7. OwnStep(e)
  <2>1. Running(e)' = FALSE
    BY <1>1, <1>2 DEF Running
  <2> QED
    BY <1>0, <1>1, <1>2, <1>4, <1>5, <2>1 DEF OwnStep, Late
<1>8. PrepTypeOK'
  BY <1>0, <1>2, <1>4, <1>5 DEF PrepTypeOK, MediaTypeOK
<1>9. PreparationIInv'
  BY <1>0, <1>5, <1>6, <1>7, <1>8, SameRowsShrink, OwnStepKeeps
<1>10. KeepsReferenced
  <2> SUFFICES ASSUME NEW f \in Managed \cup Cache, Referenced(f), disk[f] # Absent, disk'[f] = Absent
               PROVE  FALSE
    BY DEF KeepsReferenced
  <2>1. f \in S /\ f \in Files(e) /\ f \in Cache
    BY <1>4, CacheNames DEF Media
  <2>2. PICK r \in Recording : Exists(r) /\ f \in {row[r].pcm, row[r].wave}
    BY <1>0, <2>1, CacheReferences DEF PreparationIInv, RowsSound
  <2>3. row[r].pcm = Pcm(e) \/ row[r].wave = Wave(e)
    <3>1. row[r].pcm \in PcmFile \cup {None} /\ row[r].wave \in WaveFile \cup {None}
      BY <2>2 DEF PreparationIInv, RowsSound, ColumnsTyped
    <3>2. f \in {Pcm(e), Wave(e)} /\ Pcm(e) \in PcmFile /\ Wave(e) \in WaveFile /\ f # None
      BY <2>1, CacheNames, NoneIsNone
    <3> QED
      BY <2>2, <3>1, <3>2, CacheNames
  <2>4. exec[e].rec = r
    BY <2>2, <2>3 DEF PreparationIInv, RowsSound, RowsAfterWriting
  <2> QED
    BY <2>1, <2>2, <2>4 DEF References
<1> QED
  BY <1>9, <1>10

LEMMA BeginKeeps ==
    ASSUME PreparationIInv, NEW e \in Execution, NEW r \in Recording, NEW fresh \in BOOLEAN, Begin(e, r, fresh)
    PROVE  PreparationIInv' /\ KeepsReferenced
<1> DEFINE media == IF e \in Desktop /\ row[r].managed # None /\ disk[row[r].managed] # Absent
                    THEN row[r].managed ELSE row[r].source
           pcm   == IF row[r].pcm # None THEN row[r].pcm ELSE Pcm(e)
           x     == [exec[e] EXCEPT !.at = "hash", !.rec = r, !.media = media, !.pcm = pcm]
<1>0. /\ PrepTypeOK /\ ExecSound(e) /\ exec[e].at = "new" /\ Exists(r) /\ lease = None /\ lease' = e
      /\ Become(e, x) /\ UNCHANGED <<disk, row, outbox, written, sweep, clearing>>
      /\ job' = IF fresh THEN [job EXCEPT ![r] = [bound |-> 0, chunks |-> Absent]] ELSE job
  BY DEF PreparationIInv, ExecsSound, Begin, mediaVars, Quiet, Pcm
<1>1. media \in Media /\ pcm \in PcmFile
  BY <1>0, FieldTypes, CacheNames DEF Media, PreparationIInv, RowsSound, ColumnsTyped
<1>2. media \in File /\ pcm \in Cache /\ exec[e] \in Exec
  BY <1>0, <1>1, CacheNames, FieldTypes
<1>3. \A o \in Execution \ {e} : pcm = Pcm(o) => exec[o].at \in Late
  <2>1. \A o \in Execution \ {e} : Pcm(e) # Pcm(o)
    BY CacheNames
  <2> QED
    BY <1>0, <2>1 DEF PreparationIInv, RowsSound, RowsAfterWriting
<1>4. (row[r].pcm # None => pcm = row[r].pcm) /\ (row[r].pcm = None => pcm = Pcm(e))
  OBVIOUS
<1> HIDE DEF media, pcm
<1>5. /\ x \in Exec /\ x.at = "hash" /\ x.rec = r /\ x.media = media /\ x.pcm = pcm
      /\ x.hash = exec[e].hash /\ x.aged = exec[e].aged
  BY <1>2 DEF Exec, Stage
<1> HIDE DEF x
<1>6. exec'[e] = x /\ (\A o \in Execution \ {e} : exec'[o] = exec[o]) /\ exec' \in [Execution -> Exec]
  BY <1>0, <1>5, BecomeIs
<1>7. ExecSound(e)'
  BY <1>0, <1>1, <1>3, <1>5, <1>6 DEF ExecSound, Running, Early, Decodes, Pcm, Wave
<1>8. HolderSound(e)'
  BY <1>0, <1>4, <1>5, <1>6 DEF HolderSound, Exists, Decodes, Pcm
<1>9. /\ job' \in [Recording -> [bound : 0 .. MaxVersion, chunks : 0 .. Mixed]]
      /\ ChunksBound'
  BY <1>0, MediaAssumption DEF PrepTypeOK, PreparationIInv, ChunksBound, Absent, Mixed
<1>10. PrepTypeOK'
  BY <1>0, <1>6, <1>9 DEF PrepTypeOK, MediaTypeOK
<1>11. OwnStep(e)
  BY <1>0, <1>5, <1>6, NoneIsNone DEF OwnStep, Late
<1>12. KeepsReferenced
  BY <1>0 DEF KeepsReferenced
<1> QED
  BY <1>0, <1>7, <1>8, <1>9, <1>10, <1>11, <1>12, SameRowsShrink, OwnStepKeeps

LEMMA PlanKeeps ==
    ASSUME PreparationIInv, NEW e \in Execution, Plan(e)
    PROVE  PreparationIInv' /\ KeepsReferenced
<1> DEFINE x == [exec[e] EXCEPT !.at = "ready", !.media = None, !.hash = 0, !.seen = Absent]
           r == exec[e].rec
           chunks == IF job[r].chunks = Absent THEN disk[exec[e].pcm] ELSE job[r].chunks
<1>0. /\ PrepTypeOK /\ ExecSound(e) /\ exec[e].at = "plan" /\ lease = e /\ lease' = e /\ Exists(r)
      /\ HolderSound(e) /\ disk[exec[e].pcm] # Absent /\ Running(e)
      /\ Become(e, x) /\ UNCHANGED <<disk, row, outbox, written, sweep, clearing>>
      /\ job' = [job EXCEPT ![r].chunks = chunks]
  BY DEF PreparationIInv, ExecsSound, Plan, mediaVars, Quiet, Holds, Running
<1>1. r \in Recording /\ exec[e].pcm \in PcmFile /\ exec[e] \in Exec
  BY <1>0, FieldTypes DEF ExecSound
<1>2. disk[exec[e].pcm] = exec[e].hash /\ job[r].bound = exec[e].hash /\ exec[e].hash \in 0 .. MaxVersion
      /\ job[r].chunks \in {Absent, job[r].bound}
  BY <1>0, <1>1, FieldTypes DEF ExecSound, HolderSound, PreparationIInv, ChunksBound
<1>3. chunks = exec[e].hash
  BY <1>2
<1> HIDE DEF chunks
<1>4. /\ x \in Exec /\ x.at = "ready" /\ x.rec = r /\ x.pcm = exec[e].pcm
      /\ x.hash = 0 /\ x.aged = exec[e].aged
  <2>1. 0 \in 0 .. MaxVersion /\ Absent \in Content
    BY MediaAssumption DEF Content, Absent, Mixed
  <2>2. None \in File \cup {None} /\ "ready" \in Stage
    BY DEF Stage
  <2>3. x \in Exec
    BY <1>1, <2>1, <2>2 DEF Exec
  <2>4. x.at = "ready" /\ x.rec = r /\ x.pcm = exec[e].pcm
    BY <1>1 DEF Exec
  <2>5. x.hash = 0 /\ x.aged = exec[e].aged
    BY <1>1 DEF Exec
  <2> QED
    BY <2>3, <2>4, <2>5
<1>5. /\ job' \in [Recording -> [bound : 0 .. MaxVersion, chunks : 0 .. Mixed]]
      /\ job'[r].bound = job[r].bound /\ job'[r].chunks = chunks
      /\ \A s \in Recording \ {r} : job'[s] = job[s]
  <2>1. chunks \in 0 .. Mixed
    BY <1>2, <1>3, MediaAssumption DEF Mixed
  <2> QED
    BY <1>0, <1>1, <2>1 DEF PrepTypeOK
<1> HIDE DEF x
<1>6. exec'[e] = x /\ (\A o \in Execution \ {e} : exec'[o] = exec[o]) /\ exec' \in [Execution -> Exec]
  BY <1>0, <1>4, BecomeIs
<1>7. ExecSound(e)'
  BY <1>0, <1>1, <1>4, <1>6, FieldTypes DEF ExecSound, Running, Early, Decodes, Pcm, Wave
<1>8. HolderSound(e)'
  BY <1>0, <1>2, <1>3, <1>4, <1>5, <1>6 DEF HolderSound, Exists, Decodes, Pcm
<1>9. ChunksBound'
  BY <1>2, <1>3, <1>5 DEF PreparationIInv, ChunksBound
<1>10. PrepTypeOK'
  BY <1>0, <1>5, <1>6 DEF PrepTypeOK, MediaTypeOK
<1>11. OwnStep(e)
  BY <1>0, <1>4, <1>6 DEF OwnStep, Late, Running
<1>12. KeepsReferenced
  BY <1>0 DEF KeepsReferenced
<1> QED
  BY <1>0, <1>7, <1>8, <1>9, <1>10, <1>11, <1>12, SameRowsShrink, OwnStepKeeps

\* What is decoded while the media shows the same content twice, before and after, is of that content.
LEMMA DecodedKeeps ==
    ASSUME PreparationIInv, NEW e \in Execution, Decoded(e)
    PROVE  PreparationIInv' /\ KeepsReferenced
<1> DEFINE x == [exec[e] EXCEPT !.at = "rehash", !.seen = Absent]
           m == exec[e].media
           c == IF disk[m] = exec[e].seen THEN exec[e].seen ELSE Mixed
<1>0. /\ PrepTypeOK /\ ExecSound(e) /\ (lease = e => HolderSound(e)) /\ exec[e].at = "decode" /\ Running(e)
      /\ Become(e, x) /\ UNCHANGED <<row, outbox, written, job, lease, sweep, clearing>>
      /\ disk' = [disk EXCEPT ![Pcm(e)] = c]
  BY DEF PreparationIInv, ExecsSound, Decoded, Quiet, Running, Pcm
<1>1. exec[e] \in Exec /\ m \in Media /\ Pcm(e) \in File /\ m \in File /\ m # Pcm(e)
  BY <1>0, FieldTypes, CacheNames DEF ExecSound
<1>2. exec[e].seen \in Content /\ Mixed \in Content /\ Absent \in Content /\ Mixed # Absent
  BY <1>0, FieldTypes, MediaAssumption DEF Content, Absent, Mixed
<1>3. c \in Content /\ c # Absent /\ (c = exec[e].hash \/ disk[m] # exec[e].hash)
  BY <1>0, <1>2 DEF ExecSound
<1> HIDE DEF c, m
<1>4. /\ x \in Exec /\ x.at = "rehash" /\ x.rec = exec[e].rec /\ x.media = m
      /\ x.pcm = exec[e].pcm /\ x.hash = exec[e].hash /\ x.aged = exec[e].aged
  BY <1>1, <1>2 DEF Exec, Stage, m
<1> HIDE DEF x
<1>5. exec'[e] = x /\ (\A o \in Execution \ {e} : exec'[o] = exec[o]) /\ exec' \in [Execution -> Exec]
  BY <1>0, <1>4, BecomeIs
<1>6. disk' \in [File -> Content] /\ disk'[Pcm(e)] = c /\ \A f \in File \ {Pcm(e)} : disk'[f] = disk[f]
  BY <1>0, <1>1, <1>3 DEF PrepTypeOK, MediaTypeOK
<1>7. ExecSound(e)'
  <2>1. disk'[Pcm(e)] = exec[e].hash \/ disk'[m] # exec[e].hash
    BY <1>1, <1>3, <1>6
  <2> QED
    BY <1>0, <1>4, <1>5, <2>1 DEF ExecSound, Running, Early, Decodes, Pcm, Wave, m
<1>8. lease' = e => HolderSound(e)'
  BY <1>0, <1>4, <1>5 DEF HolderSound, Exists, Decodes, Pcm
<1>9. PrepTypeOK'
  BY <1>0, <1>5, <1>6 DEF PrepTypeOK, MediaTypeOK
<1>10. OwnStep(e)
  <2>1. Pcm(e) \in Files(e)
    BY CacheNames
  <2> QED
    BY <1>0, <1>4, <1>5, <1>6, <2>1 DEF OwnStep, Late
<1>11. KeepsReferenced
  <2>1. Managed \cup Cache \subseteq File
    BY CacheNames DEF Media
  <2> QED
    BY <1>3, <1>6, <2>1 DEF KeepsReferenced
<1>12. ChunksBound'
  BY <1>0 DEF PreparationIInv, ChunksBound
<1> QED
  BY <1>0, <1>7, <1>8, <1>9, <1>10, <1>11, <1>12, SameRowsShrink, OwnStepKeeps

LEMMA ReverifyKeeps ==
    ASSUME PreparationIInv, NEW e \in Execution, Reverify(e)
    PROVE  PreparationIInv' /\ KeepsReferenced
<1> DEFINE at == IF e \in Desktop THEN "wave" ELSE "save"
           x == [exec[e] EXCEPT !.at = at, !.seen = Absent]
<1>0. /\ PrepTypeOK /\ ExecSound(e) /\ (lease = e => HolderSound(e)) /\ exec[e].at = "reverify" /\ Running(e)
      /\ UNCHANGED <<row, outbox, written, job>> /\ Quiet
  BY DEF PreparationIInv, ExecsSound, Reverify, Running
<1>1. CASE exec[e].seen = exec[e].hash /\ Holds(e) /\ Become(e, x) /\ UNCHANGED <<disk, lease>>
  <2>1. exec[e] \in Exec /\ at \in {"wave", "save"} /\ (at = "save" => e \notin Desktop)
    BY <1>0, FieldTypes
  <2> HIDE DEF at
  <2>2. Absent \in Content
    BY MediaAssumption DEF Content, Absent, Mixed
  <2>3. /\ x \in Exec /\ x.at = at /\ x.rec = exec[e].rec /\ x.media = exec[e].media
        /\ x.pcm = exec[e].pcm /\ x.hash = exec[e].hash /\ x.aged = exec[e].aged
    BY <2>1, <2>2 DEF Exec, Stage
  <2> HIDE DEF x
  <2>4. exec'[e] = x /\ \A o \in Execution \ {e} : exec'[o] = exec[o]
    BY <1>0, <1>1, BecomeIs
  <2>5. disk[x.pcm] \in {Absent, x.hash} /\ x.pcm = Pcm(e)
    BY <1>0, <1>1, <2>3 DEF ExecSound, Decodes
  <2>6. ExecSound(e)'
    BY <1>0, <1>1, <2>1, <2>3, <2>4, <2>5 DEF ExecSound, Running, Early, Decodes, Pcm, Wave
  <2>7. lease' = e => HolderSound(e)'
    BY <1>0, <1>1, <2>1, <2>3, <2>4, <2>5 DEF HolderSound, Exists, Decodes, Pcm
  <2>8. UNCHANGED mediaVars /\ lease' = lease
    BY <1>0, <1>1 DEF mediaVars
  <2> QED
    BY <1>0, <1>1, <2>3, <2>6, <2>7, <2>8, QuietOwnStep DEF Late
<1>2. CASE End(e)
  <2>1. job' \in [Recording -> [bound : 0 .. MaxVersion, chunks : 0 .. Mixed]] /\ ChunksBound'
    BY <1>0 DEF PrepTypeOK, PreparationIInv, ChunksBound
  <2> QED
    BY <1>0, <1>2, <2>1, EndKeeps
<1> QED
  BY <1>1, <1>2 DEF Reverify

LEMMA DrawWaveformKeeps ==
    ASSUME PreparationIInv, NEW e \in Execution, DrawWaveform(e)
    PROVE  PreparationIInv' /\ KeepsReferenced
<1> DEFINE x == [exec[e] EXCEPT !.at = "save"]
           c == disk[exec[e].pcm]
<1>0. /\ PrepTypeOK /\ ExecSound(e) /\ (lease = e => HolderSound(e)) /\ exec[e].at = "wave" /\ Running(e)
      /\ UNCHANGED <<row, outbox, written, job>> /\ Quiet
  BY DEF PreparationIInv, ExecsSound, DrawWaveform, Running
<1>a. job' \in [Recording -> [bound : 0 .. MaxVersion, chunks : 0 .. Mixed]] /\ ChunksBound'
  BY <1>0 DEF PrepTypeOK, PreparationIInv, ChunksBound
<1>1. CASE c # Absent /\ disk' = [disk EXCEPT ![Wave(e)] = c] /\ Become(e, x) /\ UNCHANGED lease
  <2>1. /\ exec[e] \in Exec /\ exec[e].pcm \in PcmFile /\ exec[e].pcm \in File /\ Wave(e) \in File
        /\ exec[e].pcm # Wave(e)
    BY <1>0, FieldTypes, CacheNames DEF ExecSound
  <2>2. c \in Content /\ c = exec[e].hash
    BY <1>0, <1>1, <2>1, FieldTypes DEF ExecSound
  <2> HIDE DEF c
  <2>3. /\ x \in Exec /\ x.at = "save" /\ x.rec = exec[e].rec /\ x.media = exec[e].media
        /\ x.pcm = exec[e].pcm /\ x.hash = exec[e].hash /\ x.aged = exec[e].aged
    BY <2>1 DEF Exec, Stage
  <2> HIDE DEF x
  <2>4. exec'[e] = x /\ (\A o \in Execution \ {e} : exec'[o] = exec[o]) /\ exec' \in [Execution -> Exec]
    BY <1>0, <1>1, <2>3, BecomeIs
  <2>5. disk' \in [File -> Content] /\ disk'[Wave(e)] = c /\ \A f \in File \ {Wave(e)} : disk'[f] = disk[f]
    BY <1>0, <1>1, <2>1, <2>2 DEF PrepTypeOK, MediaTypeOK
  <2>6. disk'[exec[e].pcm] = exec[e].hash /\ disk'[Wave(e)] = exec[e].hash
    BY <2>1, <2>2, <2>5 DEF c
  <2>7. ExecSound(e)'
    BY <1>0, <2>3, <2>4, <2>6 DEF ExecSound, Running, Early, Decodes, Pcm, Wave
  <2>8. lease' = e => HolderSound(e)'
    BY <1>0, <1>1, <2>3, <2>4 DEF HolderSound, Exists, Decodes, Pcm
  <2>9. PrepTypeOK'
    BY <1>0, <1>1, <2>4, <2>5 DEF PrepTypeOK, MediaTypeOK, Quiet
  <2>10. OwnStep(e)
    <3>1. Wave(e) \in Files(e)
      BY CacheNames
    <3> QED
      BY <1>0, <1>1, <2>3, <2>4, <2>5, <3>1 DEF OwnStep, Late, Quiet
  <2>11. KeepsReferenced
    <3>1. Managed \cup Cache \subseteq File
      BY CacheNames DEF Media
    <3> QED
      BY <1>1, <2>5, <3>1 DEF KeepsReferenced
  <2> QED
    BY <1>0, <1>a, <2>7, <2>8, <2>9, <2>10, <2>11, SameRowsShrink, OwnStepKeeps
<1>2. CASE End(e)
  BY <1>0, <1>a, <1>2, EndKeeps
<1> QED
  BY <1>1, <1>2 DEF DrawWaveform, Wave

LEMMA StopKeeps ==
    ASSUME PreparationIInv, NEW e \in Execution, Stop(e)
    PROVE  PreparationIInv' /\ KeepsReferenced
<1>1. job' \in [Recording -> [bound : 0 .. MaxVersion, chunks : 0 .. Mixed]] /\ ChunksBound'
  BY DEF PrepTypeOK, PreparationIInv, ChunksBound, Stop
<1> QED
  BY <1>1, EndKeeps DEF Stop

\* A row that is given derived files, or loses them, is as it was otherwise.
LEMMA UpdateIs ==
    ASSUME PrepTypeOK, NEW r \in Recording, NEW pcm \in Cache \cup {None}, NEW wave \in Cache \cup {None},
           NEW hash \in 0 .. MaxVersion, UpdateDerived(r, pcm, wave, hash)
    PROVE  /\ row' \in [Recording -> Row \cup {None}]
           /\ \A s \in Recording \ {r} : row'[s] = row[s]
           /\ row'[r] # None /\ row'[r].source = row[r].source
           /\ row'[r].pcm = pcm /\ row'[r].wave = wave /\ row'[r].hash = hash
<1> DEFINE v == [row[r] EXCEPT !.pcm = pcm, !.wave = wave, !.hash = hash]
<1>1. row[r] \in Row /\ row' = [row EXCEPT ![r] = v] /\ row \in [Recording -> Row \cup {None}]
  BY DEF UpdateDerived, PrepTypeOK, MediaTypeOK, Exists
<1>2. v \in Row
  BY <1>1 DEF Row
<1>3. v.source = row[r].source /\ v.pcm = pcm /\ v.wave = wave /\ v.hash = hash
  BY <1>1 DEF Row
<1> HIDE DEF v
<1>4. v # None
  BY <1>2, NoneAssumption
<1> QED
  BY <1>1, <1>2, <1>3, <1>4

\* The row takes the files of an execution that wrote them, or keeps its own.
LEMMA SavedKeeps ==
    ASSUME PreparationIInv, NEW e \in Execution, exec[e].at = "save", Holds(e),
           UpdateDerived(exec[e].rec, exec[e].pcm, IF e \in Desktop THEN Wave(e) ELSE None, exec[e].hash),
           Become(e, [exec[e] EXCEPT !.at = "plan"]), UNCHANGED <<lease, disk, outbox, written, job>>, Quiet
    PROVE  PreparationIInv' /\ KeepsReferenced
<1> DEFINE x == [exec[e] EXCEPT !.at = "plan"]
           wave == IF e \in Desktop THEN Wave(e) ELSE None
           r == exec[e].rec
           pcm == exec[e].pcm
           hash == exec[e].hash
<1>0. /\ PrepTypeOK /\ ExecSound(e) /\ HolderSound(e) /\ lease = e /\ Running(e) /\ Become(e, x)
      /\ exec[e].at = "save" /\ UNCHANGED <<lease, disk, outbox, written, job, sweep, clearing>>
  BY DEF PreparationIInv, ExecsSound, Holds, Running, Quiet
<1>1. /\ r \in Recording /\ Exists(r) /\ pcm \in PcmFile /\ pcm \in {Pcm(e), row[r].pcm} /\ hash \in 0 .. MaxVersion
      /\ wave \in {Wave(e), None} /\ (wave = Wave(e) => e \in Desktop) /\ exec[e] \in Exec
  BY <1>0, FieldTypes, CacheNames, NoneIsNone DEF ExecSound, HolderSound
<1>2. /\ row' \in [Recording -> Row \cup {None}]
      /\ \A s \in Recording \ {r} : row'[s] = row[s]
      /\ row'[r] # None /\ row'[r].source = row[r].source
      /\ row'[r].pcm = pcm /\ row'[r].wave = wave /\ row'[r].hash = hash
  <2>1. pcm \in Cache \cup {None} /\ wave \in Cache \cup {None}
    BY <1>1, CacheNames
  <2>2. UpdateDerived(r, pcm, wave, hash)
    OBVIOUS
  <2>3. PrepTypeOK /\ r \in Recording /\ hash \in 0 .. MaxVersion
    BY <1>0, <1>1
  <2> HIDE DEF r, pcm, wave, hash
  <2> QED
    BY <2>1, <2>2, <2>3, UpdateIs
<1>3. /\ disk[pcm] \in {Absent, hash} /\ (wave # None => disk[wave] \in {Absent, hash})
      /\ \A o \in Execution \ {e} : pcm = Pcm(o) => exec[o].at \in Late
  BY <1>0, <1>1 DEF ExecSound
<1>4. /\ x \in Exec /\ x.at = "plan" /\ x.rec = r /\ x.media = exec[e].media /\ x.pcm = pcm /\ x.hash = hash
      /\ x.aged = exec[e].aged
  BY <1>1 DEF Exec, Stage
<1>5. exec[e].rec = r /\ exec[e].pcm = pcm /\ exec[e].hash = hash
  OBVIOUS
<1> HIDE DEF x, wave, r, pcm, hash
<1>6. exec'[e] = x /\ (\A o \in Execution \ {e} : exec'[o] = exec[o]) /\ exec' \in [Execution -> Exec]
  BY <1>0, <1>4, BecomeIs
<1>7. ExecSound(e)'
  BY <1>0, <1>3, <1>4, <1>5, <1>6 DEF ExecSound, Running, Early, Decodes, Pcm, Wave
<1>8. HolderSound(e)'
  BY <1>0, <1>1, <1>2, <1>4, <1>5, <1>6 DEF HolderSound, Exists, Decodes, Pcm
<1>9. PrepTypeOK'
  BY <1>0, <1>2, <1>6 DEF PrepTypeOK, MediaTypeOK
<1>10. OwnStep(e)
  BY <1>0, <1>4, <1>6 DEF OwnStep, Late
<1>11. ExecsSound'
  BY <1>0, <1>7, <1>8, <1>10, OwnStepFrame DEF ExecsSound
<1>12. ExecsGoOn /\ (\A f \in sweep' : exec'[f[2]].aged) /\ MediaWritten'
  BY <1>10, OwnStepFrame
<1>13. pcm # None /\ Pcm(e) # None /\ Wave(e) # None /\ (\A f \in PcmFile : f[2] \in Execution /\ f = Pcm(f[2]))
       /\ Wave(e) \in WaveFile /\ \A o \in Execution : o # e => Pcm(o) # Pcm(e) /\ Wave(o) # Wave(e)
  BY <1>1, CacheNames, NoneIsNone
<1>14. \A s \in Recording \ {r} : Exists(s) => row[s].pcm # pcm /\ (wave # None => row[s].wave # wave)
  <2> SUFFICES ASSUME NEW s \in Recording \ {r}, Exists(s)
               PROVE  row[s].pcm # pcm /\ (wave # None => row[s].wave # wave)
    OBVIOUS
  <2>1. exec[e].at \notin Late
    BY <1>0 DEF Late
  <2>2. row[s].pcm # Pcm(e) /\ row[s].wave # Wave(e)
    BY <2>1 DEF PreparationIInv, RowsSound, RowsAfterWriting
  <2>3. row[r].pcm # None => row[r].pcm # row[s].pcm
    BY <1>1 DEF PreparationIInv, RowsSound, RowsShareNothing
  <2> QED
    BY <1>1, <1>13, <2>2, <2>3
<1>15. RowsSound'
  <2>1. ColumnsTyped'
    <3>1. ASSUME NEW s \in Recording, row'[s] # None
          PROVE  /\ row'[s].source \in SourceFile
                 /\ row'[s].pcm \in PcmFile \cup {None} /\ row'[s].wave \in WaveFile \cup {None}
      <4>1. CASE s = r
        BY <4>1, <1>1, <1>2, <1>13 DEF PreparationIInv, RowsSound, ColumnsTyped
      <4>2. CASE s # r
        BY <4>2, <3>1, <1>2 DEF PreparationIInv, RowsSound, ColumnsTyped, Exists
      <4> QED
        BY <4>1, <4>2
    <3> QED
      BY <3>1 DEF ColumnsTyped, Exists, PcmFile, WaveFile
  <2>2. RowsAfterWriting'
    <3> SUFFICES ASSUME NEW s \in Recording, NEW o \in Execution, row'[s] # None,
                        row'[s].pcm = Pcm(o) \/ row'[s].wave = Wave(o)
                 PROVE  exec'[o].at \in Late /\ (Running(o)' => exec'[o].rec = s)
      BY DEF RowsAfterWriting, Exists, Pcm, Wave
    <3>1. CASE s = r /\ o = e
      BY <3>1, <1>4, <1>6 DEF Late
    <3>2. CASE ~(s = r /\ o = e)
      <4>1. Exists(s) /\ (row[s].pcm = Pcm(o) \/ row[s].wave = Wave(o))
        <5>1. CASE s # r
          BY <5>1, <1>2 DEF Exists
        <5>2. CASE s = r
          <6>1. row'[s].pcm = pcm /\ row'[s].wave = wave /\ o # e
            BY <5>2, <3>2, <1>2
          <6>2. Pcm(o) # Pcm(e) /\ Wave(o) # Wave(e) /\ Wave(o) # None
            BY <6>1, <1>13, CacheNames, NoneIsNone
          <6> QED
            BY <5>2, <6>1, <6>2, <1>1
        <5> QED
          BY <5>1, <5>2
      <4>2. exec[o].at \in Late /\ (Running(o) => exec[o].rec = s)
        BY <4>1 DEF PreparationIInv, RowsSound, RowsAfterWriting
      <4> QED
        BY <4>2, <1>12 DEF ExecsGoOn
    <3> QED
      BY <3>1, <3>2
  <2>3. RowsShareNothing'
    <3> SUFFICES ASSUME NEW s \in Recording, NEW t \in Recording, row'[s] # None, row'[t] # None, s # t
                 PROVE  /\ row'[s].pcm # None => row'[s].pcm # row'[t].pcm
                        /\ row'[s].wave # None => row'[s].wave # row'[t].wave
      BY DEF RowsShareNothing, Exists
    <3>1. CASE s = r
      BY <3>1, <1>2, <1>14 DEF Exists
    <3>2. CASE t = r
      BY <3>2, <1>2, <1>14 DEF Exists
    <3>3. CASE s # r /\ t # r
      BY <3>3, <1>2 DEF Exists, PreparationIInv, RowsSound, RowsShareNothing
    <3> QED
      BY <3>1, <3>2, <3>3
  <2> QED
    BY <2>1, <2>2, <2>3 DEF RowsSound
<1>16. CacheIsOfItsHash'
  <2> SUFFICES ASSUME NEW s \in Recording, row'[s] # None,
                      NEW f \in {row'[s].pcm, row'[s].wave} \ {None}
               PROVE  disk[f] \in {Absent, row'[s].hash}
    BY <1>0 DEF CacheIsOfItsHash, Exists
  <2>1. CASE s = r
    BY <2>1, <1>2, <1>3
  <2>2. CASE s # r
    BY <2>2, <1>2 DEF PreparationIInv, CacheIsOfItsHash, Exists
  <2> QED
    BY <2>1, <2>2
<1>17. SweepSound'
  <2> SUFFICES ASSUME NEW f \in sweep, Referenced(f)' PROVE FALSE
    BY <1>0, <1>12 DEF SweepSound
  <2>1. f \in Cache /\ ~Referenced(f) /\ exec[f[2]].aged
    BY <1>0 DEF PreparationIInv, PrepTypeOK, SweepSound
  <2>2. \A s \in Recording : row'[s] # None => f # row'[s].source /\ f # row'[s].managed
    <3>1. \A s \in Recording : row'[s] # None => row'[s].managed \in Managed \cup {None}
      BY <1>2 DEF Row
    <3>2. \A s \in Recording : row'[s] # None => row'[s].source \in SourceFile
      BY <1>15 DEF RowsSound, ColumnsTyped, Exists
    <3> QED
      BY <2>1, <3>1, <3>2, CacheNames, NoneIsNone DEF Media
  <2>3. PICK s \in Recording : row'[s] # None /\ f \in {row'[s].pcm, row'[s].wave}
    BY <2>2 DEF Referenced, References, Exists
  <2>4. s = r /\ f \in {Pcm(e), Wave(e)}
    <3>1. s = r
      BY <2>1, <2>3, <1>2 DEF Referenced, References, Exists
    <3>2. f # row[r].pcm /\ f # None
      BY <1>1, <2>1, CacheNames, NoneIsNone DEF Referenced, References
    <3> QED
      BY <2>3, <3>1, <3>2, <1>1, <1>2
  <2>5. f[2] = e
    BY <2>4, CacheNames
  <2> QED
    BY <2>1, <2>5, <1>0 DEF ExecSound
<1>18. KeepsReferenced
  BY <1>0 DEF KeepsReferenced
<1>19. ChunksBound'
  BY <1>0 DEF PreparationIInv, ChunksBound
<1> QED
  BY <1>9, <1>11, <1>12, <1>15, <1>16, <1>17, <1>18, <1>19 DEF PreparationIInv

LEMMA SaveKeeps ==
    ASSUME PreparationIInv, NEW e \in Execution, Save(e)
    PROVE  PreparationIInv' /\ KeepsReferenced
<1>1. job' \in [Recording -> [bound : 0 .. MaxVersion, chunks : 0 .. Mixed]] /\ ChunksBound' /\ Running(e)
  BY DEF PrepTypeOK, PreparationIInv, ChunksBound, Save, Running
<1> QED
  BY <1>1, EndKeeps, SavedKeeps DEF Save, Wave

\* Binding the job to the hash: it has no chunks yet, or was bound to the same.
LEMMA BoundIs ==
    ASSUME PreparationIInv, NEW e \in Execution, exec[e].rec \in Recording, MayBind(e), job' = Bound(e)
    PROVE  /\ job' \in [Recording -> [bound : 0 .. MaxVersion, chunks : 0 .. Mixed]] /\ ChunksBound'
           /\ job'[exec[e].rec].bound = exec[e].hash /\ exec[e].hash # 0
<1> DEFINE r == exec[e].rec
           hash == exec[e].hash
<1>1. /\ r \in Recording /\ hash \in 0 .. MaxVersion /\ hash # 0
      /\ IF job[r].bound # 0 THEN job[r].bound = hash ELSE job[r].chunks = Absent
      /\ job \in [Recording -> [bound : 0 .. MaxVersion, chunks : 0 .. Mixed]]
      /\ job' = [job EXCEPT ![r].bound = hash]
  BY FieldTypes DEF PreparationIInv, PrepTypeOK, MayBind, Bound
<1> HIDE DEF r, hash
<1>2. /\ job' \in [Recording -> [bound : 0 .. MaxVersion, chunks : 0 .. Mixed]]
      /\ job'[r].bound = hash /\ job'[r].chunks = job[r].chunks
      /\ \A s \in Recording \ {r} : job'[s] = job[s]
  BY <1>1
<1>3. ChunksBound'
  <2>1. \A s \in Recording : job[s].chunks \in {Absent, job[s].bound}
    BY DEF PreparationIInv, ChunksBound
  <2> QED
    BY <1>1, <1>2, <2>1 DEF ChunksBound, Absent
<1> QED
  BY <1>1, <1>2, <1>3 DEF r, hash

LEMMA ReuseKeeps ==
    ASSUME PreparationIInv, NEW e \in Execution, exec[e].at = "verify", Holds(e), MayBind(e), job' = Bound(e),
           Reuse(e), UNCHANGED <<outbox, written>>, Quiet
    PROVE  PreparationIInv' /\ KeepsReferenced
<1> DEFINE r == exec[e].rec
           pcm == CachedPcm(e)
           at == IF e \in Desktop /\ (row[r].wave = None \/ disk[row[r].wave] = Absent) THEN "wave" ELSE "plan"
           x == [exec[e] EXCEPT !.pcm = pcm, !.at = at]
<1>0. /\ PrepTypeOK /\ ExecSound(e) /\ HolderSound(e) /\ lease = e /\ exec[e].at = "verify" /\ Running(e)
      /\ Become(e, x) /\ UNCHANGED <<row, disk, lease, outbox, written, sweep, clearing>>
      /\ row[r].hash = exec[e].hash /\ disk[pcm] # Absent /\ r \in Recording /\ Exists(r)
  BY DEF PreparationIInv, ExecsSound, Holds, Running, Quiet, Reuse, Reusable, HolderSound
<1>1. exec[e] \in Exec
  BY <1>0, FieldTypes
<1>2. pcm = (IF row[r].pcm # None THEN row[r].pcm ELSE Pcm(e)) /\ disk[Pcm(e)] = Absent
  BY <1>0 DEF CachedPcm, HolderSound, ExecSound, Early, Pcm
<1>3. /\ pcm = row[r].pcm /\ pcm \in PcmFile /\ pcm \in Cache /\ disk[pcm] = exec[e].hash
      /\ \A o \in Execution \ {e} : pcm = Pcm(o) => exec[o].at \in Late
  <2>1. pcm = row[r].pcm /\ row[r].pcm # None
    BY <1>0, <1>2
  <2>2. row[r].pcm \in PcmFile /\ disk[row[r].pcm] \in {Absent, row[r].hash}
    BY <1>0, <2>1 DEF PreparationIInv, RowsSound, ColumnsTyped, CacheIsOfItsHash
  <2>3. \A o \in Execution : row[r].pcm = Pcm(o) => exec[o].at \in Late
    BY <1>0 DEF PreparationIInv, RowsSound, RowsAfterWriting
  <2> QED
    BY <1>0, <2>1, <2>2, <2>3, CacheNames
<1>4. at \in {"wave", "plan"}
  OBVIOUS
<1>5. /\ job' \in [Recording -> [bound : 0 .. MaxVersion, chunks : 0 .. Mixed]] /\ ChunksBound'
      /\ job'[r].bound = exec[e].hash /\ exec[e].hash # 0
  BY <1>0, BoundIs
<1> HIDE DEF pcm, at
<1>6. /\ x \in Exec /\ x.at = at /\ x.rec = r /\ x.media = exec[e].media /\ x.pcm = pcm
      /\ x.hash = exec[e].hash /\ x.aged = exec[e].aged
  BY <1>1, <1>3, <1>4 DEF Exec, Stage
<1> HIDE DEF x
<1>7. exec'[e] = x /\ (\A o \in Execution \ {e} : exec'[o] = exec[o]) /\ exec' \in [Execution -> Exec]
  BY <1>0, <1>6, BecomeIs
<1>8. ExecSound(e)'
  BY <1>0, <1>3, <1>4, <1>6, <1>7 DEF ExecSound, Running, Early, Decodes, Pcm, Wave
<1>9. HolderSound(e)'
  BY <1>0, <1>3, <1>4, <1>5, <1>6, <1>7 DEF HolderSound, Exists, Decodes, Pcm
<1>10. PrepTypeOK'
  BY <1>0, <1>5, <1>7 DEF PrepTypeOK, MediaTypeOK
<1>11. OwnStep(e)
  BY <1>0, <1>6, <1>7 DEF OwnStep, Late
<1>12. KeepsReferenced
  BY <1>0 DEF KeepsReferenced
<1> QED
  BY <1>0, <1>5, <1>8, <1>9, <1>10, <1>11, <1>12, SameRowsShrink, OwnStepKeeps

LEMMA InvalidateKeeps ==
    ASSUME PreparationIInv, NEW e \in Execution, exec[e].at = "verify", Holds(e), MayBind(e), job' = Bound(e),
           Invalidate(e), UNCHANGED <<outbox, written>>, Quiet
    PROVE  PreparationIInv' /\ KeepsReferenced
<1> DEFINE r == exec[e].rec
           x == [exec[e] EXCEPT !.at = "inspect", !.pcm = Pcm(e)]
           S == {row[r].pcm, row[r].wave}
<1>0. /\ PrepTypeOK /\ ExecSound(e) /\ HolderSound(e) /\ lease = e /\ exec[e].at = "verify" /\ Running(e)
      /\ Become(e, x) /\ UNCHANGED <<lease, outbox, written, sweep, clearing>>
      /\ UpdateDerived(r, None, None, 0) /\ disk' = Without(S) /\ r \in Recording /\ Exists(r)
  BY DEF PreparationIInv, ExecsSound, Holds, Running, Quiet, Invalidate, HolderSound, Pcm
<1>1. exec[e] \in Exec /\ Pcm(e) \in PcmFile /\ Pcm(e) \in Cache
  BY <1>0, FieldTypes, CacheNames
<1>2. /\ row' \in [Recording -> Row \cup {None}]
      /\ \A s \in Recording \ {r} : row'[s] = row[s]
      /\ row'[r] # None /\ row'[r].source = row[r].source
      /\ row'[r].pcm = None /\ row'[r].wave = None
  <2>1. PICK no \in Cache \cup {None} : no = None
    OBVIOUS
  <2>2. PICK zero \in 0 .. MaxVersion : zero = 0
    BY MediaAssumption
  <2>3. r \in Recording /\ PrepTypeOK /\ UpdateDerived(r, no, no, zero)
    BY <1>0, <2>1, <2>2
  <2> HIDE DEF r
  <2>4. /\ row' \in [Recording -> Row \cup {None}]
        /\ \A s \in Recording \ {r} : row'[s] = row[s]
        /\ row'[r] # None /\ row'[r].source = row[r].source
        /\ row'[r].pcm = no /\ row'[r].wave = no /\ row'[r].hash = zero
    BY <2>3, UpdateIs
  <2> QED
    BY <2>1, <2>4
<1>3. /\ disk' \in [File -> Content]
      /\ \A f \in File : disk'[f] = IF f \in S THEN Absent ELSE disk[f]
  <2>1. Absent \in Content
    BY MediaAssumption DEF Absent, Content, Mixed
  <2>2. disk' = [f \in File |-> IF f \in S THEN Absent ELSE disk[f]]
    BY <1>0 DEF Without
  <2>3. \A f \in File : disk[f] \in Content
    BY <1>0, FieldTypes
  <2> HIDE DEF S
  <2> QED
    BY <2>1, <2>2, <2>3
<1>4. disk'[Pcm(e)] = Absent
  <2>1. disk[Pcm(e)] = Absent
    BY <1>0 DEF ExecSound, Early
  <2> QED
    BY <1>3, <2>1, CacheNames
<1>5. /\ job' \in [Recording -> [bound : 0 .. MaxVersion, chunks : 0 .. Mixed]] /\ ChunksBound'
      /\ job'[r].bound = exec[e].hash /\ exec[e].hash # 0
  BY <1>0, BoundIs
<1>6. /\ x \in Exec /\ x.at = "inspect" /\ x.rec = r /\ x.media = exec[e].media /\ x.pcm = Pcm(e)
      /\ x.hash = exec[e].hash /\ x.aged = exec[e].aged
  BY <1>1 DEF Exec, Stage
<1> HIDE DEF x
<1>7. exec'[e] = x /\ (\A o \in Execution \ {e} : exec'[o] = exec[o]) /\ exec' \in [Execution -> Exec]
  BY <1>0, <1>6, BecomeIs
<1>8. ExecSound(e)'
  <2>1. \A o \in Execution \ {e} : Pcm(o) # Pcm(e)
    BY CacheNames
  <2>2. Running(e)' /\ exec[e].media \in Media /\ r \in Recording
    BY <1>0, <1>6, <1>7 DEF ExecSound, Running
  <2> QED
    BY <1>0, <1>1, <1>4, <1>5, <1>6, <1>7, <2>1, <2>2 DEF ExecSound, Early, Decodes, Pcm, Wave, Media, SourceFile, Managed, PcmFile
<1>9. HolderSound(e)'
  BY <1>0, <1>2, <1>5, <1>6, <1>7 DEF HolderSound, Exists, Decodes, Pcm
<1>10. PrepTypeOK'
  BY <1>0, <1>2, <1>3, <1>5, <1>7 DEF PrepTypeOK, MediaTypeOK
<1>11. OwnStep(e)
  BY <1>0, <1>3, <1>6, <1>7 DEF OwnStep, Late
<1>12. RowsShrink
  <2> SUFFICES ASSUME NEW s \in Recording, row'[s] # None
               PROVE  /\ row[s] # None /\ row'[s].source \in SourceFile
                      /\ row'[s].pcm \in {row[s].pcm, None} /\ row'[s].wave \in {row[s].wave, None}
                      /\ row'[s].hash # row[s].hash => row'[s].pcm = None /\ row'[s].wave = None
    BY <1>2 DEF RowsShrink
  <2>1. row[s] # None
    BY <1>0, <1>2 DEF Exists
  <2>2. row[s].source \in SourceFile
    BY <2>1 DEF PreparationIInv, RowsSound, ColumnsTyped, Exists
  <2> QED
    BY <1>2, <2>1, <2>2
<1>13. KeepsReferenced
  <2> SUFFICES ASSUME NEW f \in Managed \cup Cache, Referenced(f)', disk[f] # Absent, disk'[f] = Absent
               PROVE  FALSE
    BY DEF KeepsReferenced
  <2>1. f \in File /\ f \in S
    BY <1>3, CacheNames DEF Media
  <2>2. f \in Cache /\ f # None
    <3>1. row[r].pcm \in Cache \cup {None} /\ row[r].wave \in Cache \cup {None}
      BY <1>0, FieldTypes
    <3> QED
      BY <2>1, <3>1, NoneIsNone
  <2>3. PICK s \in Recording : row'[s] # None /\ f \in {row'[s].pcm, row'[s].wave}
    <3>1. RowsSound'
      BY <1>11, <1>12, OwnStepFrame, RowsKept
    <3>2. \A s \in Recording : row'[s] # None => f # row'[s].source /\ f # row'[s].managed
      <4>1. \A s \in Recording : row'[s] # None => row'[s].managed \in Managed \cup {None}
        BY <1>2 DEF Row
      <4>2. \A s \in Recording : row'[s] # None => row'[s].source \in SourceFile
        BY <3>1 DEF RowsSound, ColumnsTyped, Exists
      <4> QED
        BY <2>2, <4>1, <4>2, CacheNames, NoneIsNone DEF Media
    <3> QED
      BY <3>2 DEF Referenced, References, Exists
  <2>4. s # r /\ Exists(s) /\ f \in {row[s].pcm, row[s].wave}
    BY <1>2, <2>2, <2>3 DEF Exists
  <2>5. /\ row[r].pcm \in PcmFile \cup {None} /\ row[r].wave \in WaveFile \cup {None}
        /\ row[s].pcm \in PcmFile \cup {None} /\ row[s].wave \in WaveFile \cup {None}
    BY <1>0, <2>4 DEF PreparationIInv, RowsSound, ColumnsTyped
  <2>6. row[r].pcm # row[s].pcm \/ row[r].pcm = None
    BY <1>0, <2>4 DEF PreparationIInv, RowsSound, RowsShareNothing
  <2>7. row[r].wave # row[s].wave \/ row[r].wave = None
    BY <1>0, <2>4 DEF PreparationIInv, RowsSound, RowsShareNothing
  <2> QED
    BY <2>1, <2>2, <2>4, <2>5, <2>6, <2>7, CacheNames
<1> QED
  BY <1>0, <1>5, <1>8, <1>9, <1>10, <1>11, <1>12, <1>13, OwnStepKeeps

LEMMA VerifyKeeps ==
    ASSUME PreparationIInv, NEW e \in Execution, Verify(e)
    PROVE  PreparationIInv' /\ KeepsReferenced
<1>0. exec[e].at = "verify" /\ Running(e) /\ exec[e].rec \in Recording /\ UNCHANGED <<outbox, written>> /\ Quiet
  BY DEF Verify, Running, PreparationIInv, ExecsSound, ExecSound
<1>1. CASE MayBind(e) /\ Holds(e) /\ job' = Bound(e) /\ Reuse(e)
  BY <1>0, <1>1, ReuseKeeps
<1>2. CASE MayBind(e) /\ Holds(e) /\ job' = Bound(e) /\ Invalidate(e)
  BY <1>0, <1>2, InvalidateKeeps
<1>3. CASE MayBind(e) /\ Holds(e) /\ job' = Bound(e) /\ End(e) /\ UNCHANGED row
  <2>1. job' \in [Recording -> [bound : 0 .. MaxVersion, chunks : 0 .. Mixed]] /\ ChunksBound' /\ lease = e
    BY <1>0, <1>3, BoundIs DEF Holds
  <2> QED
    BY <1>0, <1>3, <2>1, EndKeeps
<1>4. CASE End(e) /\ UNCHANGED <<row, job>>
  <2>1. job' \in [Recording -> [bound : 0 .. MaxVersion, chunks : 0 .. Mixed]] /\ ChunksBound'
    BY <1>4 DEF PrepTypeOK, PreparationIInv, ChunksBound
  <2> QED
    BY <1>0, <1>4, <2>1, EndKeeps
<1> QED
  BY <1>1, <1>2, <1>3, <1>4 DEF Verify

-----------------------------------------------------------------------------
(* The library, the sweeps of the cache, the users and the clock. *)

\* A step of no execution, which leaves the owner of the lease its row and its audio's name.
OutsideStep ==
    /\ exec' = exec /\ job' = job /\ lease' \in {lease, None}
    /\ RowsShrink
    /\ lease' # None => row'[exec[lease].rec] # None /\ row'[exec[lease].rec].pcm = row[exec[lease].rec].pcm
    /\ written' \in Nat /\ written' >= written
    /\ \A f \in File : disk'[f] \in {disk[f], Absent} \/ (f \in SourceFile /\ disk'[f] > written /\ disk'[f] <= written')
    /\ \A f \in sweep' : ~Referenced(f) /\ exec[f[2]].aged

LEMMA OutsideKeeps ==
    ASSUME PreparationIInv, OutsideStep, PrepTypeOK'
    PROVE  PreparationIInv'
<1>0. exec' = exec /\ job' = job /\ lease' \in {lease, None} /\ RowsShrink /\ PrepTypeOK
  BY DEF OutsideStep, PreparationIInv
<1>1. ExecsGoOn
  BY <1>0 DEF ExecsGoOn, Running
<1>2. CacheWrites
  <2>1. \A f \in Cache : f \in File /\ f \notin SourceFile
    BY CacheNames DEF Media
  <2> QED
    BY <2>1 DEF CacheWrites, OutsideStep
<1>3. /\ CacheIsOfItsHash' /\ RowsSound'
      /\ \A f \in Cache : Referenced(f)' => Referenced(f)
  BY <1>0, <1>1, <1>2, RowsKept
<1>4. MediaWritten'
  <2> SUFFICES ASSUME NEW f \in Media PROVE disk'[f] <= written'
    BY DEF MediaWritten, Media, SourceFile, Managed
  <2>1. f \in File
    BY CacheNames
  <2>2. disk[f] <= written /\ written \in Nat /\ disk[f] \in Nat
    BY <1>0, <2>1, FieldTypes DEF PreparationIInv, MediaWritten, Content, Absent
  <2>3. written' \in Nat /\ written' >= written
    BY DEF OutsideStep
  <2> QED
    BY <2>1, <2>2, <2>3 DEF OutsideStep, Absent
<1>5. ExecsSound'
  <2> SUFFICES ASSUME NEW o \in Execution PROVE ExecSound(o)' /\ (lease' = o => HolderSound(o)')
    BY DEF ExecsSound
  <2>1. exec'[o] = exec[o] /\ \A q \in Execution : exec[q].at \in Late => exec'[q].at \in Late
    BY <1>0
  <2>2. lease' = o => lease = o /\ row'[exec[o].rec] # None /\ row'[exec[o].rec].pcm = row[exec[o].rec].pcm
    BY NoneIsNone DEF OutsideStep
  <2>3. Beside(o)
    BY <1>0, <2>1, <2>2 DEF Beside, OutsideStep
  <2> QED
    BY <2>3, BesideKeeps
<1>6. ChunksBound'
  BY <1>0 DEF PreparationIInv, ChunksBound
<1>7. SweepSound'
  <2>1. \A f \in sweep' : f \in Cache
    BY DEF PrepTypeOK
  <2> QED
    BY <1>0, <1>3, <2>1 DEF SweepSound, OutsideStep
<1> QED
  BY <1>3, <1>4, <1>5, <1>6, <1>7 DEF PreparationIInv

\* The owner of the lease has a row.
LEMMA HolderHasRow ==
    ASSUME PreparationIInv, lease # None
    PROVE  exec[lease].rec \in Recording /\ Exists(exec[lease].rec)
<1>1. lease \in Execution
  BY DEF PreparationIInv, PrepTypeOK
<1> QED
  BY <1>1 DEF PreparationIInv, ExecsSound, HolderSound

\* Removing files leaves what remains as it was.
LEMMA WithoutIs ==
    ASSUME PrepTypeOK, NEW S, disk' = Without(S)
    PROVE  disk' \in [File -> Content] /\ \A f \in File : disk'[f] = IF f \in S THEN Absent ELSE disk[f]
<1>1. Absent \in Content
  BY MediaAssumption DEF Absent, Content, Mixed
<1>2. disk' = [f \in File |-> IF f \in S THEN Absent ELSE disk[f]]
  BY DEF Without
<1>3. \A f \in File : disk[f] \in Content
  BY FieldTypes
<1> QED
  BY <1>1, <1>2, <1>3

\* Steps that leave the rows alone, and take only files away.
LEMMA RemovalKeeps ==
    ASSUME PreparationIInv, UNCHANGED <<row, outbox, written, exec, job>>, lease' \in {lease, None},
           disk' \in [File -> Content], \A f \in File : disk'[f] \in {disk[f], Absent},
           sweep' \subseteq Cache, \A f \in sweep' : ~Referenced(f) /\ exec[f[2]].aged, clearing' \in BOOLEAN
    PROVE  PreparationIInv'
<1>1. PrepTypeOK'
  BY DEF PreparationIInv, PrepTypeOK, MediaTypeOK
<1>2. lease' # None => lease' = lease /\ row'[exec[lease].rec] # None
  BY HolderHasRow DEF Exists
<1>3. written' \in Nat /\ written' >= written
  BY DEF PreparationIInv, PrepTypeOK, MediaTypeOK
<1>4. OutsideStep
  BY <1>2, <1>3, SameRowsShrink DEF OutsideStep
<1> QED
  BY <1>1, <1>4, OutsideKeeps

LEMMA LeaseLapsesKeeps ==
    ASSUME PreparationIInv, LeaseLapses
    PROVE  PreparationIInv' /\ KeepsReferenced
<1>1. UNCHANGED <<row, outbox, written, exec, job, disk, sweep, clearing>> /\ lease' = None
  BY DEF LeaseLapses, mediaVars, Quiet
<1>2. /\ disk \in [File -> Content] /\ sweep \subseteq Cache /\ clearing \in BOOLEAN
      /\ \A f \in sweep : ~Referenced(f) /\ exec[f[2]].aged
  BY DEF PreparationIInv, PrepTypeOK, MediaTypeOK, SweepSound
<1> QED
  BY <1>1, <1>2, RemovalKeeps DEF KeepsReferenced

\* What a sweep has found to be orphaned stays so: no execution that is through with its files is going
\* to have them referred to.
LEMMA SweepReadsKeeps ==
    ASSUME PreparationIInv, SweepReads
    PROVE  PreparationIInv' /\ KeepsReferenced
<1> DEFINE named == UNION {{row[r].pcm, row[r].wave} : r \in {s \in Recording : Exists(s)}}
<1>1. UNCHANGED <<row, outbox, written, exec, job, disk, lease, clearing>> /\ sweep' = Orphaned(named)
  BY DEF SweepReads, mediaVars
<1>2. disk \in [File -> Content] /\ clearing \in BOOLEAN /\ PrepTypeOK /\ ColumnsTyped
  BY DEF PreparationIInv, PrepTypeOK, MediaTypeOK, RowsSound
<1>3. ASSUME NEW f \in sweep' PROVE f \in Cache /\ ~Referenced(f) /\ exec[f[2]].aged
  <2>1. f \in Cache /\ f \notin named /\ exec[f[2]].aged
    BY <1>1, <1>3 DEF Orphaned
  <2>2. \A r \in Recording : Exists(r) => f \notin {row[r].pcm, row[r].wave}
    BY <2>1
  <2> QED
    BY <1>2, <2>1, <2>2, CacheReferences
<1>4. KeepsReferenced
  BY <1>1 DEF KeepsReferenced
<1> QED
  BY <1>1, <1>2, <1>3, <1>4, RemovalKeeps

LEMMA SweepRemovesKeeps ==
    ASSUME PreparationIInv, NEW f \in Cache, SweepRemoves(f)
    PROVE  PreparationIInv' /\ KeepsReferenced
<1>1. UNCHANGED <<row, outbox, written, exec, job, lease, clearing>> /\ sweep' = sweep \ {f}
      /\ disk' = Without({f}) /\ f \in sweep
  BY DEF SweepRemoves
<1>2. PrepTypeOK /\ sweep \subseteq Cache /\ clearing \in BOOLEAN
      /\ \A g \in sweep : ~Referenced(g) /\ exec[g[2]].aged
  BY DEF PreparationIInv, PrepTypeOK, SweepSound
<1>3. disk' \in [File -> Content] /\ \A g \in File : disk'[g] = IF g \in {f} THEN Absent ELSE disk[g]
  BY <1>1, <1>2, WithoutIs
<1>4. KeepsReferenced
  <2>1. \A g \in Managed \cup Cache : g \in File
    BY CacheNames DEF Media
  <2> QED
    BY <1>1, <1>2, <1>3, <2>1 DEF KeepsReferenced
<1> QED
  BY <1>1, <1>2, <1>3, <1>4, RemovalKeeps

LEMMA ClearCacheKeeps ==
    ASSUME PreparationIInv, ClearCache \/ ClearEnds
    PROVE  PreparationIInv' /\ KeepsReferenced
<1>1. UNCHANGED <<row, outbox, written, exec, job, disk, lease, sweep>> /\ clearing' \in BOOLEAN
  BY DEF ClearCache, ClearEnds, mediaVars
<1>2. /\ disk \in [File -> Content] /\ sweep \subseteq Cache
      /\ \A f \in sweep : ~Referenced(f) /\ exec[f[2]].aged
  BY DEF PreparationIInv, PrepTypeOK, MediaTypeOK, SweepSound
<1> QED
  BY <1>1, <1>2, RemovalKeeps DEF KeepsReferenced

LEMMA ClearRemovesKeeps ==
    ASSUME PreparationIInv, NEW f \in Cache, ClearRemoves(f)
    PROVE  PreparationIInv' /\ KeepsReferenced
<1>1. UNCHANGED <<row, outbox, written, exec, job, lease, sweep, clearing>> /\ disk' = Without({f}) /\ clearing
  BY DEF ClearRemoves
<1>2. PrepTypeOK /\ sweep \subseteq Cache /\ clearing \in BOOLEAN
      /\ \A g \in sweep : ~Referenced(g) /\ exec[g[2]].aged
  BY DEF PreparationIInv, PrepTypeOK, SweepSound
<1>3. disk' \in [File -> Content] /\ \A g \in File : disk'[g] = IF g \in {f} THEN Absent ELSE disk[g]
  BY <1>1, <1>2, WithoutIs
<1> QED
  BY <1>1, <1>2, <1>3, RemovalKeeps DEF KeepsReferenced

\* One row is replaced, or goes, and nothing else changes but the outbox. An executing job's row stays
\* with its audio.
LEMMA RowChangeKeeps ==
    ASSUME PreparationIInv, NEW r \in Recording, Exists(r), NEW v \in Row \cup {None},
           row' = [row EXCEPT ![r] = v],
           v # None => /\ v.source \in SourceFile
                       /\ v.pcm \in {row[r].pcm, None} /\ v.wave \in {row[r].wave, None}
                       /\ v.hash # row[r].hash => v.pcm = None /\ v.wave = None,
           Leased(r) => v # None /\ v.pcm = row[r].pcm,
           UNCHANGED <<disk, written, exec, job, lease, sweep, clearing>>,
           outbox' \subseteq Recording \X (Managed \cup Cache)
    PROVE  PreparationIInv' /\ KeepsReferenced
<1>1. /\ row' \in [Recording -> Row \cup {None}] /\ row'[r] = v
      /\ \A s \in Recording \ {r} : row'[s] = row[s]
  BY DEF PreparationIInv, PrepTypeOK, MediaTypeOK
<1>2. RowsShrink
  <2> SUFFICES ASSUME NEW s \in Recording, row'[s] # None
               PROVE  /\ row[s] # None /\ row'[s].source \in SourceFile
                      /\ row'[s].pcm \in {row[s].pcm, None} /\ row'[s].wave \in {row[s].wave, None}
                      /\ row'[s].hash # row[s].hash => row'[s].pcm = None /\ row'[s].wave = None
    BY <1>1 DEF RowsShrink
  <2>1. CASE s = r
    BY <2>1, <1>1 DEF Exists
  <2>2. CASE s # r
    BY <2>2, <1>1 DEF PreparationIInv, RowsSound, ColumnsTyped, Exists
  <2> QED
    BY <2>1, <2>2
<1>3. lease' # None => row'[exec[lease].rec] # None /\ row'[exec[lease].rec].pcm = row[exec[lease].rec].pcm
  BY <1>1, HolderHasRow DEF Exists, Leased
<1>4. PrepTypeOK'
  BY <1>1 DEF PreparationIInv, PrepTypeOK, MediaTypeOK
<1>5. written' \in Nat /\ written' >= written
  BY DEF PreparationIInv, PrepTypeOK, MediaTypeOK
<1>6. OutsideStep
  BY <1>2, <1>3, <1>5 DEF OutsideStep, PreparationIInv, SweepSound
<1> QED
  BY <1>4, <1>6, OutsideKeeps DEF KeepsReferenced

LEMMA TrashKeeps ==
    ASSUME PreparationIInv, NEW r \in Recording, MoveToTrash(r) \/ Restore(r), UNCHANGED <<exec, job, lease>>, Quiet
    PROVE  PreparationIInv' /\ KeepsReferenced
<1>1. PICK b \in BOOLEAN : row' = [row EXCEPT ![r].trashed = b]
  BY DEF MoveToTrash, Restore
<1> DEFINE v == [row[r] EXCEPT !.trashed = b]
<1>2. /\ Exists(r) /\ row[r] \in Row /\ row' = [row EXCEPT ![r] = v] /\ row[r].source \in SourceFile
      /\ UNCHANGED <<disk, outbox, written, exec, job, lease, sweep, clearing>>
      /\ outbox \subseteq Recording \X (Managed \cup Cache)
  BY <1>1 DEF MoveToTrash, Restore, Quiet, PreparationIInv, PrepTypeOK, MediaTypeOK, Exists, RowsSound, ColumnsTyped
<1>3. v \in Row /\ v.source = row[r].source /\ v.pcm = row[r].pcm /\ v.wave = row[r].wave /\ v.hash = row[r].hash
  BY <1>2 DEF Row
<1> HIDE DEF v
<1>4. v # None /\ v \in Row \cup {None}
  BY <1>3, NoneAssumption
<1> QED
  BY <1>2, <1>3, <1>4, RowChangeKeeps

LEMMA PermanentlyDeleteKeeps ==
    ASSUME PreparationIInv, NEW r \in Recording, PermanentlyDelete(r, Leased(r)), UNCHANGED <<exec, job, lease>>, Quiet
    PROVE  PreparationIInv' /\ KeepsReferenced
<1>1. PICK v \in Row \cup {None} : v = None
  OBVIOUS
<1>2. /\ Exists(r) /\ ~Leased(r) /\ row' = [row EXCEPT ![r] = v]
      /\ UNCHANGED <<disk, written, exec, job, lease, sweep, clearing>>
      /\ outbox' = outbox \cup {<<r, f>> : f \in Artifacts(r)}
  BY <1>1 DEF PermanentlyDelete, Quiet
<1>3. outbox' \subseteq Recording \X (Managed \cup Cache)
  <2>1. PrepTypeOK /\ outbox \subseteq Recording \X (Managed \cup Cache)
    BY DEF PreparationIInv, PrepTypeOK, MediaTypeOK
  <2>2. \A f \in Artifacts(r) : f \in Managed \cup Cache
    BY <1>2, <2>1, FieldTypes DEF Artifacts
  <2> QED
    BY <1>2, <2>1, <2>2
<1> QED
  BY <1>1, <1>2, <1>3, RowChangeKeeps

LEMMA RelinkSourceKeeps ==
    ASSUME PreparationIInv, NEW r \in Recording, NEW f \in SourceFile, NEW clear \in BOOLEAN,
           RelinkSource(r, f, clear, Leased(r)), UNCHANGED <<exec, job, lease>>, Quiet
    PROVE  PreparationIInv' /\ KeepsReferenced
<1> DEFINE cleared == [row[r] EXCEPT !.source = f, !.pcm = None, !.wave = None, !.hash = 0]
           moved   == [row[r] EXCEPT !.source = f]
<1>1. /\ Exists(r) /\ ~Leased(r) /\ row[r] \in Row /\ f \in File
      /\ UNCHANGED <<disk, outbox, written, exec, job, lease, sweep, clearing>>
      /\ outbox \subseteq Recording \X (Managed \cup Cache)
      /\ row' = [row EXCEPT ![r] = IF clear THEN cleared ELSE moved]
  BY CacheNames DEF RelinkSource, Quiet, PreparationIInv, PrepTypeOK, MediaTypeOK, Exists, Media
<1>2. cleared \in Row /\ cleared.source = f /\ cleared.pcm = None /\ cleared.wave = None
  <2>1. 0 \in 0 .. MaxVersion
    BY MediaAssumption
  <2> QED
    BY <1>1, <2>1 DEF Row
<1>3. moved \in Row /\ moved.source = f /\ moved.pcm = row[r].pcm /\ moved.wave = row[r].wave /\ moved.hash = row[r].hash
  BY <1>1 DEF Row
<1> HIDE DEF cleared, moved
<1>4. CASE clear
  <2>1. row' = [row EXCEPT ![r] = cleared]
    BY <1>1, <1>4
  <2> QED
    BY <1>1, <1>2, <2>1, RowChangeKeeps
<1>5. CASE ~clear
  <2>1. row' = [row EXCEPT ![r] = moved]
    BY <1>1, <1>5
  <2> QED
    BY <1>1, <1>3, <2>1, RowChangeKeeps
<1> QED
  BY <1>4, <1>5

\* The outbox gives up only files that no row names.
LEMMA DrainOneKeeps ==
    ASSUME PreparationIInv, NEW o \in outbox, DrainOne(o), UNCHANGED <<exec, job, lease>>, Quiet
    PROVE  PreparationIInv' /\ KeepsReferenced
<1>0. /\ PrepTypeOK /\ outbox \subseteq Recording \X (Managed \cup Cache) /\ disk \in [File -> Content]
      /\ sweep \subseteq Cache /\ clearing \in BOOLEAN
      /\ \A g \in sweep : ~Referenced(g) /\ exec[g[2]].aged
  BY DEF PreparationIInv, PrepTypeOK, MediaTypeOK, SweepSound
<1>1. UNCHANGED <<row, written, exec, job, lease, sweep, clearing>> /\ outbox' \subseteq outbox
  BY DEF DrainOne, Quiet
<1>2. disk' = disk \/ (~Referenced(o[2]) /\ disk' = [disk EXCEPT ![o[2]] = Absent])
  BY DEF DrainOne
<1>3. \A f \in File : disk'[f] = disk[f] \/ (disk'[f] = Absent /\ ~Referenced(f))
  BY <1>0, <1>2
<1>4. disk' \in [File -> Content]
  <2>1. Absent \in Content
    BY MediaAssumption DEF Absent, Content, Mixed
  <2> QED
    BY <1>0, <1>2, <2>1
<1>5. KeepsReferenced
  <2>1. \A g \in Managed \cup Cache : g \in File
    BY CacheNames DEF Media
  <2> QED
    BY <1>3, <2>1 DEF KeepsReferenced
<1>6. PrepTypeOK'
  BY <1>0, <1>1, <1>4 DEF PrepTypeOK, MediaTypeOK
<1>7. lease' # None => row'[exec[lease].rec] # None
  BY <1>1, HolderHasRow DEF Exists
<1>8. written' \in Nat /\ written' >= written
  BY <1>0, <1>1 DEF PrepTypeOK, MediaTypeOK
<1>9. OutsideStep
  BY <1>0, <1>1, <1>3, <1>7, <1>8, SameRowsShrink DEF OutsideStep
<1> QED
  BY <1>5, <1>6, <1>9, OutsideKeeps

\* A media file that changes gets a content that no file had.
LEMMA ModifyKeeps ==
    ASSUME PreparationIInv, NEW f \in SourceFile, Modify(f), UNCHANGED <<exec, job, lease>>, Quiet
    PROVE  PreparationIInv' /\ KeepsReferenced
<1>0. /\ PrepTypeOK /\ disk \in [File -> Content] /\ written \in Nat /\ written <= MaxVersion /\ f \in File
      /\ MaxVersion \in Nat
  BY FieldTypes, CacheNames DEF PreparationIInv, PrepTypeOK, MediaTypeOK, Media
<1>1. UNCHANGED <<row, outbox, exec, job, lease, sweep, clearing>>
  BY DEF Modify, Quiet
<1>2. PICK c : disk' = [disk EXCEPT ![f] = c] /\ ((c = Absent /\ written' = written)
                 \/ (c = written + 1 /\ written < MaxVersion /\ written' = written + 1))
  BY DEF Modify
<1>3. c \in Content /\ written' \in 0 .. MaxVersion /\ written' >= written
      /\ (c = Absent \/ (c > written /\ c <= written'))
  BY <1>0, <1>2 DEF Content, Absent, Mixed
<1>4. disk' \in [File -> Content] /\ disk'[f] = c /\ \A g \in File \ {f} : disk'[g] = disk[g]
  BY <1>0, <1>2, <1>3
<1>5. KeepsReferenced
  <2>1. \A g \in Managed \cup Cache : g \in File /\ g # f
    BY CacheNames DEF Media
  <2> QED
    BY <1>4, <2>1 DEF KeepsReferenced
<1>6. PrepTypeOK'
  BY <1>0, <1>1, <1>3, <1>4 DEF PrepTypeOK, MediaTypeOK
<1>7. lease' # None => row'[exec[lease].rec] # None
  BY <1>1, HolderHasRow DEF Exists
<1>8. \A g \in sweep : ~Referenced(g) /\ exec[g[2]].aged
  BY DEF PreparationIInv, SweepSound
<1>9. written' \in Nat
  BY <1>3
<1>10. OutsideStep
  BY <1>1, <1>3, <1>4, <1>7, <1>8, <1>9, SameRowsShrink DEF OutsideStep
<1> QED
  BY <1>5, <1>6, <1>10, OutsideKeeps

-----------------------------------------------------------------------------
(* The invariant, and what follows from it. *)

LEMMA PreparationStarts ==
    ASSUME PrepInit
    PROVE  PreparationIInv
<1>1. PICK s \in [Recording -> SourceFile], copies \in SUBSET Recording :
          /\ MediaInit(copies, s)
          /\ row = [r \in Recording |-> NewRow(s[r], IF r \in copies THEN <<"managed", r>> ELSE None)]
  BY DEF PrepInit
<1>2. PICK v \in [Source -> 1 .. Cardinality(Source)] :
          disk = [f \in File |-> IF f \in SourceFile THEN v[f[2]]
                                 ELSE IF f \in {"managed"} \X copies THEN v[s[f[2]][2]] ELSE Absent]
  BY <1>1 DEF MediaInit
<1>3. written = Cardinality(Source) /\ outbox = {}
  BY <1>1 DEF MediaInit
<1>4. /\ exec = [e \in Execution |-> Idle("new", FALSE)] /\ lease = None /\ sweep = {} /\ clearing = FALSE
      /\ job = [r \in Recording |-> [bound |-> 0, chunks |-> Absent]]
  BY DEF PrepInit
<1>5. Cardinality(Source) \in Nat /\ Cardinality(Source) <= MaxVersion /\ MaxVersion \in Nat
  BY MediaAssumption, FS_CardinalityType
<1>6. \A f \in File : disk[f] \in 0 .. Cardinality(Source) /\ (f \in Cache => disk[f] = Absent)
  <2> SUFFICES ASSUME NEW f \in File
               PROVE  disk[f] \in 0 .. Cardinality(Source) /\ (f \in Cache => disk[f] = Absent)
    OBVIOUS
  <2>0. f \in Cache => f \notin SourceFile /\ f \notin Managed
    BY CacheNames DEF Media
  <2>1. CASE f \in SourceFile
    <3>1. f[2] \in Source /\ disk[f] = v[f[2]]
      BY <2>1, <1>2 DEF SourceFile
    <3> QED
      BY <3>1, <2>0, <2>1, <1>5
  <2>2. CASE f \notin SourceFile /\ f \in {"managed"} \X copies
    <3>1. f[2] \in Recording /\ disk[f] = v[s[f[2]][2]] /\ f \in Managed
      BY <2>2, <1>2 DEF Managed
    <3>2. s[f[2]] \in SourceFile
      BY <3>1
    <3>3. s[f[2]][2] \in Source
      BY <3>2 DEF SourceFile
    <3> QED
      BY <3>1, <3>3, <2>0, <1>5
  <2>3. CASE f \notin SourceFile /\ f \notin {"managed"} \X copies
    <3>1. disk[f] = 0
      BY <2>3, <1>2 DEF Absent
    <3> QED
      BY <3>1, <1>5 DEF Absent
  <2> QED
    BY <2>1, <2>2, <2>3
<1>7. \A r \in Recording : /\ row[r] \in Row /\ Exists(r) /\ row[r].source \in SourceFile
                           /\ row[r].pcm = None /\ row[r].wave = None
  <2> SUFFICES ASSUME NEW r \in Recording
               PROVE  /\ row[r] \in Row /\ Exists(r) /\ row[r].source \in SourceFile
                      /\ row[r].pcm = None /\ row[r].wave = None
    OBVIOUS
  <2> DEFINE m == IF r \in copies THEN <<"managed", r>> ELSE None
  <2>1. s[r] \in SourceFile /\ s[r] \in File /\ m \in Managed \cup {None} /\ 0 \in 0 .. MaxVersion
    BY <1>5 DEF File, Managed
  <2>2. row[r] = NewRow(s[r], m)
    BY <1>1
  <2> HIDE DEF m
  <2>3. row[r] \in Row /\ row[r].source = s[r] /\ row[r].pcm = None /\ row[r].wave = None
    BY <2>1, <2>2 DEF NewRow, Row
  <2> QED
    BY <2>1, <2>3, NoneAssumption DEF Exists
<1>8. PrepTypeOK
  <2>1. disk \in [File -> Content]
    <3>1. disk = [f \in File |-> disk[f]]
      BY <1>2
    <3>2. \A f \in File : disk[f] \in Content
      BY <1>5, <1>6 DEF Content, Absent, Mixed
    <3> QED
      BY <3>1, <3>2
  <2>2. row \in [Recording -> Row \cup {None}]
    <3>1. row = [r \in Recording |-> row[r]]
      BY <1>1
    <3> QED
      BY <3>1, <1>7
  <2>3. exec \in [Execution -> Exec]
    <3>1. Idle("new", FALSE) \in Exec
      BY <1>5 DEF Idle, Exec, Stage, Content, Absent, Mixed
    <3> QED
      BY <3>1, <1>4
  <2>4. job \in [Recording -> [bound : 0 .. MaxVersion, chunks : 0 .. Mixed]]
    BY <1>4, <1>5 DEF Absent, Mixed
  <2>5. written \in 0 .. MaxVersion
    BY <1>3, <1>5
  <2> QED
    BY <1>3, <1>4, <2>1, <2>2, <2>3, <2>4, <2>5 DEF PrepTypeOK, MediaTypeOK
<1>9. CacheIsOfItsHash /\ RowsSound
  <2>1. \A e \in Execution : Pcm(e) # None /\ Wave(e) # None
    BY CacheNames, NoneIsNone
  <2> QED
    BY <1>7, <2>1 DEF CacheIsOfItsHash, RowsSound, ColumnsTyped, RowsAfterWriting, RowsShareNothing
<1>10. MediaWritten
  <2>1. \A f \in Media : f \in File
    BY CacheNames
  <2> QED
    BY <1>3, <1>5, <1>6, <2>1 DEF MediaWritten
<1>11. ExecsSound
  <2> SUFFICES ASSUME NEW e \in Execution PROVE ExecSound(e)
    BY <1>4, NoneIsNone DEF ExecsSound
  <2>1. exec[e].at = "new" /\ exec[e].hash = 0 /\ exec[e].aged = FALSE
    BY <1>4 DEF Idle
  <2>2. disk[Pcm(e)] = Absent
    BY <1>6, CacheNames
  <2> QED
    BY <2>1, <2>2, <1>3, <1>5 DEF ExecSound, Running, Decodes
<1>12. ChunksBound /\ SweepSound
  BY <1>4 DEF ChunksBound, SweepSound
<1> QED
  BY <1>8, <1>9, <1>10, <1>11, <1>12 DEF PreparationIInv

LEMMA PreparationKept ==
    ASSUME PreparationIInv, [PrepNext]_prepVars
    PROVE  PreparationIInv' /\ (prepVars' # prepVars => KeepsReferenced)
<1>1. CASE UNCHANGED prepVars
  <2>1. UNCHANGED <<row, outbox, written, exec, job, lease, disk, sweep, clearing>>
    BY <1>1 DEF prepVars
  <2>2. /\ disk \in [File -> Content] /\ sweep \subseteq Cache /\ clearing \in BOOLEAN
        /\ \A f \in sweep : ~Referenced(f) /\ exec[f[2]].aged
    BY DEF PreparationIInv, PrepTypeOK, MediaTypeOK, SweepSound
  <2> QED
    BY <1>1, <2>1, <2>2, RemovalKeeps
<1>2. ASSUME NEW e \in Execution, NEW r \in Recording, NEW fresh \in BOOLEAN, Begin(e, r, fresh)
      PROVE  PreparationIInv' /\ KeepsReferenced
  BY <1>2, BeginKeeps
<1>3. ASSUME NEW e \in Execution, Step(e)
      PROVE  PreparationIInv' /\ KeepsReferenced
  BY <1>3, HashSourceKeeps, VerifyKeeps, StartDecodingKeeps, DecodedKeeps, RehashKeeps, ReverifyKeeps,
     DrawWaveformKeeps, SaveKeeps, PlanKeeps DEF Step
<1>4. ASSUME NEW e \in Execution, Stop(e) \/ Die(e) \/ Age(e)
      PROVE  PreparationIInv' /\ KeepsReferenced
  BY <1>4, StopKeeps, DieKeeps, AgeKeeps
<1>5. CASE LibraryStep
  <2>1. UNCHANGED <<exec, job, lease>> /\ Quiet
    BY <1>5 DEF LibraryStep
  <2>2. ASSUME NEW r \in Recording, MoveToTrash(r) \/ Restore(r) PROVE PreparationIInv' /\ KeepsReferenced
    BY <2>1, <2>2, TrashKeeps
  <2>3. ASSUME NEW r \in Recording, PermanentlyDelete(r, Leased(r)) PROVE PreparationIInv' /\ KeepsReferenced
    BY <2>1, <2>3, PermanentlyDeleteKeeps
  <2>4. ASSUME NEW r \in Recording, NEW f \in SourceFile, NEW clear \in BOOLEAN, RelinkSource(r, f, clear, Leased(r))
        PROVE  PreparationIInv' /\ KeepsReferenced
    BY <2>1, <2>4, RelinkSourceKeeps
  <2>5. ASSUME NEW o \in outbox, DrainOne(o) PROVE PreparationIInv' /\ KeepsReferenced
    BY <2>1, <2>5, DrainOneKeeps
  <2>6. ASSUME NEW f \in SourceFile, Modify(f) PROVE PreparationIInv' /\ KeepsReferenced
    BY <2>1, <2>6, ModifyKeeps
  <2> QED
    BY <1>5, <2>2, <2>3, <2>4, <2>5, <2>6 DEF LibraryStep
<1>6. CASE LeaseLapses \/ SweepReads \/ ClearCache \/ ClearEnds
  BY <1>6, LeaseLapsesKeeps, SweepReadsKeeps, ClearCacheKeeps
<1>7. ASSUME NEW f \in Cache, SweepRemoves(f) \/ ClearRemoves(f)
      PROVE  PreparationIInv' /\ KeepsReferenced
  BY <1>7, SweepRemovesKeeps, ClearRemovesKeeps
<1> QED
  BY <1>1, <1>2, <1>3, <1>4, <1>5, <1>6, <1>7 DEF PrepNext

\* What executions, rows, the cache and its sweeps rely on holds in every reachable state.
THEOREM PreparationInvariant == PrepSpec => []PreparationIInv
<1>1. PrepInit => PreparationIInv
  BY PreparationStarts
<1>2. PreparationIInv /\ [PrepNext]_prepVars => PreparationIInv'
  BY PreparationKept
<1> QED
  BY <1>1, <1>2, PTL DEF PrepSpec

\* The audio and the waveform that a recording refers to are of the source whose hash the row records, through
\* changes of the source while it is decoded, lapses of the lease and executions that end late
\* (verifyNormalizedSource, updateDerivedMedia).
THEOREM CachedMediaIsRight == PrepSpec => []PreparationInv
<1>1. PreparationIInv => PreparationInv
  BY DEF PreparationIInv, PreparationInv
<1> QED
  BY <1>1, PreparationInvariant, PTL

\* All chunks of a job, in whichever executions they are transcribed, are of audio of one source
\* (verifySourceMedia binds the job to the hash before it has chunks).
THEOREM JobHasOneSource == PrepSpec => []ChunksOfOneSource
<1>1. PreparationIInv => ChunksOfOneSource
  BY DEF PreparationIInv, ExecsSound, HolderSound, ChunksOfOneSource, Holds
<1> QED
  BY <1>1, PreparationInvariant, PTL

\* Neither the outbox, nor a sweep that read the rows earlier, nor an execution that cleans up after itself removes
\* a file that a recording refers to (drainPendingArtifactDeletions, removeExpiredOrphanedGenerationFiles,
\* removeCacheCandidateIfUnreferenced).
THEOREM ReferencedFilesStay == PrepSpec => ReferencedIsKept
<1>1. PreparationIInv /\ [PrepNext]_prepVars =>
        [\A f \in Managed \cup Cache :
            Referenced(f) /\ Referenced(f)' /\ disk[f] # Absent /\ disk'[f] = Absent => clearing]_prepVars
  BY PreparationKept DEF KeepsReferenced
<1> QED
  BY <1>1, PreparationInvariant, PTL DEF PrepSpec, ReferencedIsKept
=============================================================================
