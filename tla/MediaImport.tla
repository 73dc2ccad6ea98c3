----------------------------- MODULE MediaImport -----------------------------
(***************************************************************************)
(* Importing media in the desktop application: single files and folders,   *)
(* by reference or as managed copies that a thread writes to a staging file*)
(* and the finished handler publishes and enters into the library. An      *)
(* import and the recording it creates share their name.                   *)
(***************************************************************************)
EXTENDS MediaFiles

CONSTANTS MaxGeneration,    \* bound: folder imports
          BatchSize         \* how many files a batch enters by reference

ASSUME ImportAssumption == IsFiniteSet(Recording) /\ MaxGeneration \in Nat /\ BatchSize \in Nat \ {0}

VARIABLES
    up,         \* the application runs
    managedOn,  \* m_managedMediaCopyEnabled
    fresh,      \* names not used yet
    copy,       \* the copies of m_managedCopyState
    staging,    \* the .pending files
    scans,      \* folder scans under way
    cancelled,  \* folder imports whose cancellation flag is set; a flag lives with those that hold it
    folder      \* the members m_folderImport...

appVars    == <<up, managedOn, fresh, copy, staging, scans, cancelled, folder>>
importVars == <<disk, row, outbox, written, appVars>>

MaxActiveCopies == 2
Generation == 1 .. MaxGeneration
Copy   == [at : {"none", "copying", "finished", "published"}, gen : 0 .. MaxGeneration,
           result : {"none", "ok", "error", "cancelled"}]
Folder == [running : BOOLEAN, gen : 0 .. MaxGeneration, pending : SUBSET Recording,
           active : 0 .. MaxActiveCopies, completed : 0 .. Cardinality(Recording),
           total : 0 .. Cardinality(Recording), timer : BOOLEAN]

NoCopy   == [at |-> "none", gen |-> 0, result |-> "none"]
NoFolder == [running |-> FALSE, gen |-> 0, pending |-> {}, active |-> 0, completed |-> 0, total |-> 0,
             timer |-> FALSE]

ImportTypeOK ==
    /\ MediaTypeOK
    /\ up \in BOOLEAN /\ managedOn \in BOOLEAN
    /\ fresh \subseteq Recording /\ staging \subseteq Recording
    /\ copy \in [Recording -> Copy]
    /\ scans \subseteq Generation /\ cancelled \subseteq Generation
    /\ folder \in Folder

ImportInit ==
    /\ \E s \in [Recording -> SourceFile] : MediaInit({}, s)
    /\ row = [r \in Recording |-> None]
    /\ up = TRUE /\ managedOn = TRUE
    /\ fresh = Recording /\ staging = {}
    /\ copy = [r \in Recording |-> NoCopy]
    /\ scans = {} /\ cancelled = {} /\ folder = NoFolder

\* The application runs one handler at a time; one that has published a copy has not yet ended.
Ready == up /\ \A r \in Recording : copy[r].at # "published"

AnyMedia(f) == f \in SourceFile /\ disk[f] # Absent

-----------------------------------------------------------------------------
(* The members of a folder import. *)

\* finishFolderImport; what the import counted is only shown from now on
Finish(f) == [NoFolder EXCEPT !.gen = f.gen, !.active = f.active]

\* How a batch and a completion go on: start the batch timer, finish, or wait for a copy.
GoOn(f) ==
    IF f.pending # {} /\ (~managedOn \/ f.active < MaxActiveCopies) THEN [f EXCEPT !.timer = TRUE]
    ELSE IF f.pending = {} /\ f.active = 0 THEN Finish(f)
    ELSE f

\* Mutant: a cancelled import does not look whether this was the last copy.
CompleteItemsStopping(f, g, processed) ==
    IF g # f.gen \/ ~f.running THEN f
    ELSE LET c == [f EXCEPT !.completed = IF @ + processed > f.total THEN f.total ELSE @ + processed]
         IN  IF g \in cancelled THEN c ELSE GoOn(c)

\* Mutant: an import by reference counts its files one by one.
CompleteItemsOnce(f, g, processed) ==
    IF g # f.gen \/ ~f.running THEN f
    ELSE LET c == [f EXCEPT !.completed = IF @ + 1 > f.total THEN f.total ELSE @ + 1]
         IN  IF g \in cancelled THEN (IF f.active = 0 THEN Finish(c) ELSE c) ELSE GoOn(c)

\* completeFolderImportItems
CompleteItems(f, g, processed) ==
    IF g # f.gen \/ ~f.running THEN f
    ELSE LET c == [f EXCEPT !.completed = IF @ + processed > f.total THEN f.total ELSE @ + processed]
         IN  IF g \in cancelled THEN (IF f.active = 0 THEN Finish(c) ELSE c) ELSE GoOn(c)

Tracked(r) == copy[r].gen # 0 /\ copy[r].gen = folder.gen

-----------------------------------------------------------------------------
(* What the user asks for. *)

\* importUrls and importUrlsInternal of one file: refused, referenced, or copied by a thread
ImportFile(r) ==
    /\ Ready /\ r \in fresh
    /\ fresh' = fresh \ {r}
    /\ \/ /\ ~managedOn
          /\ \E f \in SourceFile : disk[f] # Absent /\ Create(r, f, None)
          /\ UNCHANGED copy
       \/ /\ managedOn /\ \E f \in SourceFile : AnyMedia(f)
          /\ copy' = [copy EXCEPT ![r] = [at |-> "copying", gen |-> 0, result |-> "none"]]
          /\ UNCHANGED row
    /\ UNCHANGED <<disk, outbox, written, up, managedOn, staging, scans, cancelled, folder>>

\* A file of the recordings directory is entered as it is; it may be the copy of another recording.
ImportManagedFile(r) ==
    /\ Ready /\ r \in fresh
    /\ fresh' = fresh \ {r}
    /\ \E f \in Managed : disk[f] # Absent /\ Create(r, f, f)
    /\ UNCHANGED <<disk, outbox, written, up, managedOn, copy, staging, scans, cancelled, folder>>

ImportFolder ==
    /\ Ready /\ ~folder.running /\ folder.gen < MaxGeneration
    /\ folder' = [NoFolder EXCEPT !.running = TRUE, !.gen = folder.gen + 1]
    /\ scans' = scans \cup {folder.gen + 1}
    /\ cancelled' = {g \in cancelled : g \in scans \/ \E r \in Recording : copy[r].gen = g}
    /\ UNCHANGED <<mediaVars, up, managedOn, fresh, copy, staging>>

CancelFolderImport ==
    /\ Ready /\ folder.running
    /\ cancelled' = cancelled \cup {folder.gen}
    /\ folder' = LET f == [folder EXCEPT !.timer = FALSE, !.pending = {}]
                 IN  IF f.active = 0 THEN Finish(f) ELSE f
    /\ UNCHANGED <<mediaVars, up, managedOn, fresh, copy, staging, scans>>

SetManagedMediaCopy ==
    /\ Ready
    /\ managedOn' = ~managedOn
    /\ UNCHANGED <<mediaVars, up, fresh, copy, staging, scans, cancelled, folder>>

-----------------------------------------------------------------------------
(* Threads and handlers. *)

\* The scan of a folder ends: it was cancelled, failed, found nothing or found files.
ScanFinishes(g) ==
    /\ Ready /\ g \in scans
    /\ scans' = scans \ {g}
    /\ IF g # folder.gen \/ ~folder.running
       THEN UNCHANGED <<folder, fresh>>
       ELSE \/ folder' = Finish(folder) /\ UNCHANGED fresh
            \/ /\ g \notin cancelled
               /\ \E paths \in (SUBSET fresh) \ {{}} :
                     /\ fresh' = fresh \ paths
                     /\ folder' = [folder EXCEPT !.pending = paths, !.total = Cardinality(paths), !.timer = TRUE]
    /\ UNCHANGED <<mediaVars, up, managedOn, copy, staging, cancelled>>

\* How many files the next batch takes
Slots == IF managedOn THEN MaxActiveCopies - folder.active ELSE BatchSize
Smaller(a, b) == IF a < b THEN a ELSE b

\* A batch: some files are copied, the others refused or entered at once.
Batch(taken, copied, entered) ==
    LET started == [folder EXCEPT !.timer = FALSE, !.pending = @ \ taken, !.active = @ + Cardinality(copied)]
        now     == taken \ copied
        counted == IF now = {} THEN started
                   ELSE CompleteItems(started, folder.gen, Cardinality(now))
    IN  /\ folder' = GoOn(counted)
        /\ copy' = [r \in Recording |-> IF r \in copied THEN [at |-> "copying", gen |-> folder.gen, result |-> "none"]
                                        ELSE copy[r]]
        /\ \E f \in SourceFile : row' = [r \in Recording |-> IF r \in entered THEN NewRow(f, None) ELSE row[r]]

\* processFolderImportBatch
BatchTimerFires ==
    /\ Ready /\ folder.timer
    /\ IF Slots = 0
       THEN folder' = [folder EXCEPT !.timer = FALSE] /\ UNCHANGED <<copy, row>>
       ELSE \E taken \in SUBSET folder.pending :
               /\ Cardinality(taken) = Smaller(Slots, Cardinality(folder.pending))
               /\ \E copied \in SUBSET taken :
                     /\ ~managedOn => copied = {}
                     /\ \E entered \in SUBSET (taken \ copied) :
                           /\ managedOn => entered = {}
                           /\ Batch(taken, copied, entered)
    /\ UNCHANGED <<disk, outbox, written, up, managedOn, fresh, staging, scans, cancelled>>

\* copyManagedMedia, on a thread of the pool
CopyThread(r) ==
    /\ up /\ copy[r].at = "copying"
    /\ \E result \in {"ok", "error", "cancelled"} :
        /\ result = "cancelled" => copy[r].gen \in cancelled
        /\ result = "ok" => \E f \in SourceFile : AnyMedia(f)
        /\ copy' = [copy EXCEPT ![r] = [copy[r] EXCEPT !.at = "finished", !.result = result]]
        /\ staging' = IF result = "ok" THEN staging \cup {r} ELSE staging
    /\ UNCHANGED <<mediaVars, up, managedOn, fresh, scans, cancelled, folder>>

Uncounted(r) == IF Tracked(r) THEN [folder EXCEPT !.active = @ - 1] ELSE folder
Counted(r, f) == IF Tracked(r) THEN CompleteItems(f, copy[r].gen, 1) ELSE f

\* The copy is given up: cancelled, failed, or not published.
CopyRefused(r) ==
    /\ Ready /\ copy[r].at = "finished"
    /\ copy' = [copy EXCEPT ![r] = NoCopy]
    /\ staging' = staging \ {r}
    /\ folder' = Counted(r, Uncounted(r))
    /\ UNCHANGED <<mediaVars, up, managedOn, fresh, scans, cancelled>>

\* publishManagedImport
CopyPublished(r) ==
    /\ Ready /\ copy[r].at = "finished" /\ copy[r].result = "ok" /\ copy[r].gen \notin cancelled
    /\ r \in staging /\ disk[<<"managed", r>>] = Absent
    /\ \E f \in SourceFile :
        disk' = [disk EXCEPT ![<<"managed", r>>] = IF disk[f] = Absent THEN Mixed ELSE disk[f]]
    /\ copy' = [copy EXCEPT ![r].at = "published"]
    /\ staging' = staging \ {r}
    /\ folder' = Uncounted(r)
    /\ UNCHANGED <<row, outbox, written, up, managedOn, fresh, scans, cancelled>>

\* Mutant: the copy stays when the recording could not be created.
CopyEnteredOrKept(r) ==
    /\ up /\ copy[r].at = "published"
    /\ \/ /\ \E f \in SourceFile : AnyMedia(f) /\ Create(r, f, <<"managed", r>>)
          /\ folder' = Counted(r, folder) /\ UNCHANGED disk
       \/ folder' = Counted(r, folder) /\ UNCHANGED <<row, disk>>
    /\ copy' = [copy EXCEPT ![r] = NoCopy]
    /\ UNCHANGED <<outbox, written, up, managedOn, fresh, staging, scans, cancelled>>

\* importManagedCopy, and the removal of the copy when it fails
CopyEntered(r) ==
    /\ up /\ copy[r].at = "published"
    /\ \/ /\ \E f \in SourceFile : AnyMedia(f) /\ Create(r, f, <<"managed", r>>)
          /\ folder' = Counted(r, folder) /\ UNCHANGED disk
       \/ /\ disk' = [disk EXCEPT ![<<"managed", r>>] = Absent]
          /\ folder' = Counted(r, folder) /\ UNCHANGED row
    /\ copy' = [copy EXCEPT ![r] = NoCopy]
    /\ UNCHANGED <<outbox, written, up, managedOn, fresh, staging, scans, cancelled>>

-----------------------------------------------------------------------------
(* The application ends and starts; the library. *)

Down == /\ up' = FALSE /\ copy' = [r \in Recording |-> NoCopy]
        /\ scans' = {} /\ cancelled' = {} /\ folder' = [NoFolder EXCEPT !.gen = folder.gen]
        /\ UNCHANGED <<mediaVars, managedOn, fresh>>

\* The destructor waits for the threads and removes what they staged.
Quit == Ready /\ Down /\ staging' = staging \ {r \in Recording : copy[r].at # "none"}

Crash == up /\ Down /\ UNCHANGED staging

Restart == /\ ~up /\ up' = TRUE
           /\ UNCHANGED <<mediaVars, managedOn, fresh, copy, staging, scans, cancelled, folder>>

\* TemporaryFileJanitor::clean, at a start a day later
Janitor(r) ==
    /\ Ready /\ r \in staging /\ copy[r].at = "none"
    /\ staging' = staging \ {r}
    /\ UNCHANGED <<mediaVars, up, managedOn, fresh, copy, scans, cancelled, folder>>

LibraryStep ==
    /\ \/ Ready /\ \E r \in Recording : MoveToTrash(r) \/ Restore(r) \/ PermanentlyDelete(r, FALSE)
       \/ Ready /\ \E r \in Recording, f \in Managed : RelinkSource(r, f, row[r].managed = None, FALSE)
       \/ \E o \in outbox : DrainOne(o)
       \/ \E f \in SourceFile : Modify(f)
    /\ UNCHANGED appVars

Handlers ==
    \/ \E g \in Generation : ScanFinishes(g)
    \/ BatchTimerFires
    \/ \E r \in Recording : CopyThread(r) \/ CopyRefused(r) \/ CopyPublished(r) \/ CopyEntered(r)

ImportNext ==
    \/ \E r \in Recording : ImportFile(r) \/ ImportManagedFile(r) \/ Janitor(r)
    \/ ImportFolder \/ CancelFolderImport \/ SetManagedMediaCopy
    \/ Handlers
    \/ Quit \/ Crash \/ Restart \/ LibraryStep

ImportSpec == ImportInit /\ [][ImportNext]_importVars

\* Threads end and the event loop delivers what they report. Nothing makes a user start it again.
ImportFairness ==
    /\ \A g \in Generation : WF_importVars(ScanFinishes(g))
    /\ WF_importVars(BatchTimerFires)
    /\ \A r \in Recording : /\ WF_importVars(CopyThread(r))
                            /\ WF_importVars(CopyRefused(r) \/ CopyPublished(r))
                            /\ WF_importVars(CopyEntered(r))

FairImportSpec == ImportSpec /\ ImportFairness

-----------------------------------------------------------------------------
(* Properties. *)

\* Every file of a folder is pending, being copied, or counted, exactly once, until the import ends or
\* is cancelled; the count is not capped by the total because of a file counted twice.
FolderAccounted ==
    folder.running /\ folder.gen \notin cancelled \cup scans =>
        folder.completed + folder.active + Cardinality(folder.pending)
            + Cardinality({r \in Recording : Tracked(r) /\ copy[r].at = "published"}) = folder.total

\* The counter of active copies is that of the copies under way, of whichever folder import.
ActiveIsReal ==
    folder.active = Cardinality({r \in Recording : copy[r].gen # 0 /\ copy[r].at \in {"copying", "finished"}})

\* The books of a folder import balance.
ImportInv == ImportTypeOK /\ FolderAccounted /\ ActiveIsReal

\* A folder import ends, also when it is cancelled, or the setting is changed, while files are copied.
FolderImportEnds == folder.running ~> ~folder.running

\* A managed copy belongs to a recording, to an import or to the outbox until it is removed; only a
\* crash between its publication and the insertion of the row leaves one that nothing accounts for.
Accounted(f) == \/ \E r \in Recording : Exists(r) /\ row[r].managed = f
                \/ \E o \in outbox : o[2] = f
                \/ copy[f[2]].at = "published"

CopyIsAccountedFor ==
    [][\A f \in Managed : Accounted(f) /\ disk'[f] # Absent => Accounted(f)' \/ ~up']_importVars

\* The outbox of one recording never takes a managed copy that any other recording refers to, as its
\* copy or as its source.
SharedCopyIsKept ==
    [][\A f \in Managed : disk[f] # Absent /\ Referenced(f) /\ Referenced(f)' => disk'[f] # Absent]_importVars

=============================================================================
