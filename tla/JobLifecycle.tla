---------------------------- MODULE JobLifecycle ----------------------------
(***************************************************************************)
(* The job state machine of src/src/jobs/JobStateMachine.cpp: the states a *)
(* transcription job's row can be in and the moves between them that the   *)
(* repository accepts.  Pure operators; no state.                          *)
(***************************************************************************)

\* The pipeline stages an executor walks a claimed job through, in the order
\* the repository's recovery statements list them.
ExecutingState ==
    {"Preparing", "Normalizing", "WaitingForModel", "LoadingModel",
     "AnalyzingSpeech", "Transcribing", "Finalizing"}

\* JobStateMachine::isRunning: neither queued, nor terminal, nor interrupted.
RunningState  == ExecutingState \cup {"Cancelling"}
TerminalState == {"Completed", "Cancelled", "Failed"}
JobState      == RunningState \cup TerminalState \cup {"Queued", "Interrupted"}

\* The way out of the pipeline that every stage has.
LeaveTo == {"Cancelling", "Failed", "Interrupted"}

Transitions ==
    ({"Queued"}          \X {"Preparing", "Cancelled"})                           \cup
    ({"Preparing"}       \X ({"Normalizing", "AnalyzingSpeech",
                              "WaitingForModel", "LoadingModel"} \cup LeaveTo))   \cup
    ({"Normalizing"}     \X ({"WaitingForModel", "LoadingModel",
                              "AnalyzingSpeech"} \cup LeaveTo))                   \cup
    ({"WaitingForModel"} \X ({"LoadingModel"} \cup LeaveTo))                      \cup
    ({"LoadingModel"}    \X ({"AnalyzingSpeech", "Transcribing"} \cup LeaveTo))   \cup
    ({"AnalyzingSpeech"} \X ({"WaitingForModel", "LoadingModel",
                              "Transcribing"} \cup LeaveTo))                      \cup
    ({"Transcribing"}    \X ({"Finalizing"} \cup LeaveTo))                        \cup
    ({"Finalizing"}      \X ({"Completed"} \cup LeaveTo))                         \cup
    ({"Cancelling"}      \X {"Cancelled"})                                        \cup
    ({"Interrupted"}     \X {"Queued", "Cancelled"})                              \cup
    ({"Failed"}          \X {"Queued"})                                           \cup
    ({"Cancelled"}       \X {"Queued"})

CanTransition(from, to) == from = to \/ <<from, to>> \in Transitions

IsTerminal(s) == s \in TerminalState
IsRunning(s)  == s \in RunningState
=============================================================================
