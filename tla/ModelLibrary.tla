----------------------------- MODULE ModelLibrary -----------------------------
(***************************************************************************)
(* The models of one desktop application: ModelManager and                 *)
(* ModelManagerViewModel over the downloads of ModelDownload. There is one *)
(* model of the manifest, whose row follows its download, and one custom   *)
(* model, imported from a local file.                                      *)
(***************************************************************************)
EXTENDS ModelDownload

CONSTANTS Gui   \* the process modelled here; the others only download

ASSUME GuiIsDesktop == Gui \in Process /\ Desktop = {Gui}

VARIABLES
    row,       \* the row of the manifest's model in ModelListModel
    check,     \* m_verifyTasks: the check of that model's file
    custom,    \* the files of the custom model, and whether the manager lists it
    import,    \* m_importTasks
    default,   \* the default model: of the view model, of the manager and in the settings
    spinner,   \* m_defaultModelDownloadActive
    use        \* m_modelsInUse, and by whom

libVars == <<row, check, custom, import, default, spinner, use>>
allVars == <<dlVars, libVars>>

ModelId == {"manifest", "custom"}

Transient == {"Requested", "Downloading", "Paused", "Verifying", "Testing"}
RowState  == Transient \cup {"Installed", "NotInstalled", "Cancelled", "Failed"}

NoCustom == [staging |-> FALSE, bin |-> FALSE, sidecar |-> FALSE, listed |-> FALSE]
NotUsed  == [model |-> "none", test |-> FALSE]
\* persistDefaultModel and setDefaultModelId of the manager
DefaultIs(m) == [view |-> m, manager |-> m, settings |-> m]

\* The view model, the manager and the settings are well typed: no name of a state that the row
\* cannot display reaches it.
LibTypeOK ==
    /\ row \in [state : RowState, installed : BOOLEAN, checked : BOOLEAN]
    /\ check \in {"none", "running", "valid", "invalid", "absent"}
    /\ custom \in [staging : BOOLEAN, bin : BOOLEAN, sidecar : BOOLEAN, listed : BOOLEAN]
    /\ import \in {"none", "running", "prepared", "failed"}
    /\ default \in [view : ModelId, manager : ModelId, settings : ModelId]
    /\ spinner \in BOOLEAN
    /\ use \in [model : ModelId \cup {"none"}, test : BOOLEAN]

-----------------------------------------------------------------------------
(* The row. *)

\* downloadStateName
Shown(state) == IF state = "Pending" THEN "Requested" ELSE state

\* setInstalled
SetInstalled(installed, checked) ==
    [state |-> IF installed THEN "Installed" ELSE "NotInstalled", installed |-> installed,
     checked |-> checked]

\* refreshFromService, replaceModels: an operation's state stays on display
Refreshed(r, installed) ==
    [state     |-> IF r.state \in Transient THEN r.state ELSE SetInstalled(installed, FALSE).state,
     installed |-> installed,
     checked   |-> installed /\ r.installed /\ r.checked]

\* The rest of refreshFromService: a default that is not listed any more gives way. setDefaultModelId
\* of the manager refuses what it does not know.
DefaultAmong(listed) ==
    LET asked == IF default.settings = "custom" /\ ~listed THEN "manifest" ELSE default.settings
    IN  DefaultIs(asked)

\* refreshDefaultModelDownload: whether operation o of the default model is shown as going on
Spins(o) == o.state \in Active

\* Mutant: the end of a download is displayed only when it succeeded.
FollowSuccess ==
    LET was == op[Gui]
        is  == op'[Gui]
        signal == is # was /\ (is.state # was.state \/ part' # part)
        ended  == is.state \in Ended \cup {"Cancelled"} /\ is.verify = "none"
    IN  /\ row' = IF ~signal \/ (ended /\ is.state # "Completed") THEN row
                  ELSE IF ended THEN SetInstalled(final' # "none", final' # "none")
                  ELSE [row EXCEPT !.state = Shown(is.state)]
        /\ spinner' = IF signal /\ default.view = "manifest" THEN Spins(is) ELSE spinner

\* A signal of the desktop's own download, handled by attachDownload: stateChanged, progressChanged
\* and finished.
FollowDownload ==
    LET was == op[Gui]
        is  == op'[Gui]
        signal == is # was /\ (is.state # was.state \/ part' # part)
        ended  == is.state \in Ended \cup {"Cancelled"} /\ is.verify = "none"
    IN  /\ row' = IF ~signal THEN row
                  ELSE IF ended THEN SetInstalled(final' # "none", is.state = "Completed" /\ final' # "none")
                  ELSE [row EXCEPT !.state = Shown(is.state)]
        /\ spinner' = IF signal /\ default.view = "manifest" THEN Spins(is) ELSE spinner

LibInit ==
    /\ DlInit
    /\ row = SetInstalled(final # "none", FALSE)
    /\ check = "none" /\ import = "none"
    /\ custom = NoCustom
    /\ default = DefaultIs("manifest")
    /\ spinner = FALSE
    /\ use = NotUsed

-----------------------------------------------------------------------------
(* Downloads. *)

DownloadStep ==
    /\ \/ \E p \in Process : Download(p) \/ Step(p)
       \/ Pause(Gui) \/ Resume(Gui) \/ Cancel(Gui)
       \/ \E p \in Process \ {Gui} : Die(p)
       \/ CopyIn
    /\ FollowDownload
    /\ UNCHANGED <<check, custom, import, default, use>>

-----------------------------------------------------------------------------
(* The view model's own check of the file. *)

Verify ==
    /\ check = "none"
    /\ check' = "running"
    /\ row' = [row EXCEPT !.state = "Verifying"]
    /\ UNCHANGED <<dlVars, custom, import, default, spinner, use>>

\* ModelFileOperations::verify, on another thread
CheckReads ==
    /\ check = "running"
    /\ check' = IF final = "none" THEN "absent" ELSE IF final \in Valid THEN "valid" ELSE "invalid"
    /\ UNCHANGED <<dlVars, row, custom, import, default, spinner, use>>

CheckFinished ==
    /\ check \in {"valid", "invalid", "absent"}
    /\ check' = "none"
    /\ row' = SetInstalled(final # "none" /\ check # "absent", final # "none" /\ check = "valid")
    /\ UNCHANGED <<dlVars, custom, import, default, spinner, use>>

-----------------------------------------------------------------------------
(* Use of a model by the worker, for a job or for a test. *)

\* setModelInUse; a test (ModelTestController, and its row in main.cpp) finds the file first
Use(m, test) ==
    /\ use = NotUsed
    /\ IF m = "manifest" THEN final # "none" ELSE custom.listed
    /\ use' = [model |-> m, test |-> test]
    /\ row' = IF m = "manifest" /\ test THEN [Refreshed(row, final # "none") EXCEPT !.state = "Testing"]
              ELSE Refreshed(row, final # "none")
    /\ default' = DefaultAmong(custom.listed)
    /\ spinner' = IF test /\ m = default.view THEN FALSE ELSE spinner      \* updateDownload
    /\ UNCHANGED <<dlVars, check, custom, import>>

Unuse ==
    /\ use # NotUsed
    /\ use' = NotUsed
    /\ row' = IF use = [model |-> "manifest", test |-> TRUE]
              THEN [Refreshed(row, final # "none") EXCEPT !.state = SetInstalled(final # "none", FALSE).state]
              ELSE Refreshed(row, final # "none")
    /\ default' = DefaultAmong(custom.listed)
    /\ spinner' = IF use.test /\ use.model = default.view THEN FALSE ELSE spinner
    /\ UNCHANGED <<dlVars, check, custom, import>>

-----------------------------------------------------------------------------
(* Removal. *)

\* Mutant: a model in use is removed as well.
RemoveManifestEvenUsed ==
    /\ check = "none"
    /\ RemoveFile
    /\ row' = Refreshed(row, FALSE)
    /\ default' = DefaultAmong(custom.listed)
    /\ UNCHANGED <<check, custom, import, spinner, use>>

\* remove, ModelManager::removeModel, of the manifest's model
RemoveManifest ==
    /\ check = "none" /\ use.model # "manifest"
    /\ RemoveFile
    /\ row' = Refreshed(row, FALSE)
    /\ default' = DefaultAmong(custom.listed)
    /\ UNCHANGED <<check, custom, import, spinner, use>>

RemoveCustom ==
    /\ custom.listed /\ use.model # "custom"
    /\ custom' = [custom EXCEPT !.bin = FALSE, !.sidecar = FALSE, !.listed = FALSE]
    /\ default' = DefaultAmong(FALSE)
    /\ row' = Refreshed(row, final # "none")
    /\ spinner' = IF default.view = "custom" THEN Spins(op[Gui]) ELSE spinner
    /\ UNCHANGED <<dlVars, check, import, use>>

-----------------------------------------------------------------------------
(* Import of the custom model. *)

\* importCustom, customModelImportRequest: an id whose files do not exist
Import ==
    /\ import = "none" /\ custom = NoCustom
    /\ import' = "running"
    /\ UNCHANGED <<dlVars, row, check, custom, default, spinner, use>>

\* ModelFileOperations::prepareImport, which cleans up after itself
ImportPrepares ==
    /\ import = "running"
    /\ \/ import' = "prepared" /\ custom' = [custom EXCEPT !.staging = TRUE]
       \/ import' = "failed" /\ UNCHANGED custom
    /\ UNCHANGED <<dlVars, row, check, default, spinner, use>>

\* commitCustomModelImport, when neither the rename nor the sidecar fails
CommitImport ==
    /\ custom' = [staging |-> FALSE, bin |-> TRUE, sidecar |-> TRUE, listed |-> TRUE]
    /\ row' = Refreshed(row, final # "none")
    /\ default' = DefaultAmong(TRUE)

\* The end of the task: the model is published, or what was written is removed.
ImportFinished ==
    /\ import \in {"prepared", "failed"}
    /\ import' = "none"
    /\ \/ import = "prepared" /\ CommitImport
       \/ custom' = NoCustom /\ UNCHANGED <<row, default>>
    /\ UNCHANGED <<dlVars, check, spinner, use>>

-----------------------------------------------------------------------------
(* The default model, and the end of the application. *)

\* setDefaultModel, refreshDefaultModelDownload
SetDefault(m) ==
    /\ m = "custom" => custom.listed
    /\ default' = DefaultIs(m)
    /\ spinner' = (m = "manifest" /\ Spins(op[Gui]))
    /\ UNCHANGED <<dlVars, row, check, custom, import, use>>

\* What the files of the custom model may be when the application ends: as they are after
\* cancelAndDrainFileOperations, or half-way through a rename or a removal when it crashes.
LeftBehind ==
    {[custom EXCEPT !.staging = FALSE], custom}
        \cup (IF import = "prepared" THEN {[custom EXCEPT !.staging = FALSE, !.bin = TRUE]} ELSE {})
        \cup (IF custom.listed /\ use.model # "custom" THEN {[custom EXCEPT !.bin = FALSE]} ELSE {})

\* The application ends and is started again: discoverCustomModels, installServices
Relaunch ==
    /\ Finish(Gui, "None") /\ UNCHANGED <<part, final>>
    /\ \E left \in LeftBehind :
        LET found == left.bin /\ left.sidecar
        IN  /\ custom' = [left EXCEPT !.listed = found]
            /\ default' = DefaultAmong(found)
    /\ row' = SetInstalled(final # "none", FALSE)
    /\ check' = "none" /\ import' = "none" /\ spinner' = FALSE /\ use' = NotUsed

LibNext ==
    \/ DownloadStep
    \/ Verify \/ CheckReads \/ CheckFinished
    \/ \E m \in ModelId, test \in BOOLEAN : Use(m, test)
    \/ Unuse
    \/ RemoveManifest \/ RemoveCustom
    \/ Import \/ ImportPrepares \/ ImportFinished
    \/ \E m \in ModelId : SetDefault(m)
    \/ Relaunch

LibSpec == LibInit /\ [][LibNext]_allVars

-----------------------------------------------------------------------------
(* Properties. *)

\* A row on which something seems to happen has an operation that will end it: whatever order
\* downloads, checks, tests and refreshes come in, none of their states stays behind on display.
NoGhostOperation ==
    row.state \in Transient => \/ op[Gui].state \in Active \cup {"Paused"}
                               \/ check # "none"
                               \/ use = [model |-> "manifest", test |-> TRUE]

\* The progress of the default model's download is shown only while there is one.
SpinnerIsReal == spinner => default.view = "manifest" /\ op[Gui].state \in Active

\* A custom model that is listed has its file and its checksum, and one that can be the default
\* after a crash half-way through an import or a removal does too.
ListedIsWhole ==
    /\ custom.listed => custom.bin /\ custom.sidecar
    /\ "custom" \in {default.view, default.manager, default.settings} => custom.listed

\* What the list of models may show at any time.
LibraryInv == LibTypeOK /\ NoGhostOperation /\ SpinnerIsReal /\ ListedIsWhole

\* The file of a model that the worker uses is not removed, by this application or by a download
\* of any (a model that was copied in while a download checked its predecessor may be).
UsedModelKept ==
    [][/\ use.model = "manifest" /\ use'.model = "manifest" /\ final = "published" => final' = final
       /\ use.model = "custom" /\ use'.model = "custom" => custom'.bin]_allVars

=============================================================================
