---------------------------- MODULE ModelDownload ----------------------------
(***************************************************************************)
(* The download of one model by several processes (ModelDownloadOperation).*)
(* They share a directory with the model, the partial download and a lock  *)
(* file. A file is a sequence of blocks; block i of the right model is the *)
(* number i, and 0 is a block that is wrong.                               *)
(***************************************************************************)
EXTENDS Naturals, Sequences

CONSTANTS Process,      \* desktop applications and command lines
          Desktop,      \* those with buttons to pause, resume and cancel
          NoProcess,
          Size,         \* m_entry.fileSize, in blocks
          MaxRetries    \* MaximumRetries

ASSUME ProcessAssumption == Desktop \subseteq Process /\ NoProcess \notin Process
ASSUME SizeAssumption == Size \in Nat \ {0} /\ MaxRetries \in Nat

VARIABLES
    part,     \* the blocks of <model>.part
    final,    \* the model file
    lock,     \* who holds <model>.lock
    op        \* the operation of each process

dlVars == <<part, final, lock, op>>

Whole == [i \in 1 .. Size |-> i]

\* "published" was renamed from a whole part, "corrupt" from any other; "copied" and "bad" came
\* from elsewhere, with the right checksum and with a wrong one.
Content == {"none", "published", "corrupt", "copied", "bad"}
Valid   == {"published", "copied"}

Active   == {"Pending", "Downloading", "Verifying"}
Ended    == {"None", "Completed", "Failed"}
OpState  == Active \cup Ended \cup {"Paused", "Cancelled"}
Purpose  == {"ExistingFinal", "DownloadedPart", "FinalBeforeCommit"}

Operation == [state   : OpState,
              timer   : {"none", "start", "lock", "retry", "restart"},
              retries : 0 .. MaxRetries,
              reply   : {"none", "waiting", "streaming"},      \* m_reply, m_responseValidated
              offset  : 0 .. Size,                             \* m_requestOffset
              at      : 0 .. Size,                             \* what the server sends next
              honest  : BOOLEAN,                               \* its blocks are the right ones
              long    : BOOLEAN,                               \* it sends more than the model
              verify  : Purpose \cup {"none"},                 \* m_verificationWatcher
              hash    : {"none", "valid", "invalid"}]          \* what the reader found

NewOp(state, timer) == [state |-> state, timer |-> timer, retries |-> 0, reply |-> "none", offset |-> 0,
                        at |-> 0, honest |-> TRUE, long |-> FALSE, verify |-> "none", hash |-> "none"]

\* A finished operation is deleted.
Idle(p) == op[p].state \in Ended \cup {"Cancelled"} /\ op[p].verify = "none"

\* Every file and operation is well typed; in particular no part grows past the size of the model.
DlTypeOK ==
    /\ part \in Seq(0 .. Size) /\ Len(part) <= Size
    /\ final \in Content
    /\ lock \in Process \cup {NoProcess}
    /\ op \in [Process -> Operation]

DlInit ==
    /\ part = <<>> /\ lock = NoProcess
    /\ final \in {"none", "bad"}
    /\ op = [p \in Process |-> NewOp("None", "none")]

-----------------------------------------------------------------------------
(* What the handlers share. Each gives op', lock', part' and final'. *)

Released(p) == IF lock = p THEN NoProcess ELSE lock
Become(p, o) == op' = [op EXCEPT ![p] = o]
Quiet(p)     == [op[p] EXCEPT !.reply = "none", !.verify = "none", !.hash = "none", !.timer = "none",
                              !.offset = 0, !.at = 0, !.honest = TRUE, !.long = FALSE]

Finish(p, state) == Become(p, NewOp(state, "none")) /\ lock' = Released(p)

\* Mutant: the lock is kept until the retry, which takes it anew.
FailKeepingLock(p, retryable, discardPartial) ==
    /\ IF retryable /\ op[p].retries < MaxRetries
       THEN /\ Become(p, [Quiet(p) EXCEPT !.state = "Pending", !.timer = "retry",
                                          !.retries = op[p].retries + 1])
            /\ UNCHANGED <<lock, part>>
       ELSE /\ Finish(p, "Failed")
            /\ part' = IF (discardPartial \/ retryable) /\ lock' # lock THEN <<>> ELSE part
    /\ UNCHANGED final

\* Mutant: the state returns to Pending, but no timer is started.
FailWithoutTimer(p, retryable, discardPartial) ==
    /\ IF retryable /\ op[p].retries < MaxRetries
       THEN /\ Become(p, [Quiet(p) EXCEPT !.state = "Pending", !.retries = op[p].retries + 1])
            /\ lock' = Released(p) /\ UNCHANGED part
       ELSE /\ Finish(p, "Failed")
            /\ part' = IF (discardPartial \/ retryable) /\ lock' # lock THEN <<>> ELSE part
    /\ UNCHANGED final

\* fail, scheduleRetry, discardPartialIfOwned
Fail(p, retryable, discardPartial) ==
    /\ IF retryable /\ op[p].retries < MaxRetries
       THEN /\ Become(p, [Quiet(p) EXCEPT !.state = "Pending", !.timer = "retry",
                                          !.retries = op[p].retries + 1])
            /\ lock' = Released(p) /\ UNCHANGED part
       ELSE /\ Finish(p, "Failed")
            /\ part' = IF (discardPartial \/ retryable) /\ lock' # lock THEN <<>> ELSE part
    /\ UNCHANGED final

\* beginVerification
BeginVerification(p, purpose) ==
    /\ Become(p, [Quiet(p) EXCEPT !.state = "Verifying", !.verify = purpose])
    /\ lock' = p

\* beginRequest, with the lock held; the disk may be full or the file not open
BeginRequest(p) ==
    \/ /\ Len(part) = Size
       /\ BeginVerification(p, "DownloadedPart") /\ UNCHANGED part
    \/ /\ Len(part) < Size
       /\ Become(p, [Quiet(p) EXCEPT !.state = "Downloading", !.reply = "waiting", !.offset = Len(part)])
       /\ lock' = p /\ UNCHANGED part
    \/ /\ Len(part) < Size
       /\ \E discard \in BOOLEAN : part' = IF discard THEN <<>> ELSE part
       /\ Become(p, NewOp("Failed", "none")) /\ lock' = NoProcess

\* Mutant: a lock counts as stale while its holder still computes a hash.
AcquireOfBusy(p) ==
    LET free == lock = NoProcess \/ \E q \in Process \ {p} : lock = q /\ op[q].verify # "none"
    IN  \/ /\ ~free
           /\ Become(p, [Quiet(p) EXCEPT !.state = "Pending", !.timer = "lock"])
           /\ UNCHANGED <<lock, part, final>>
        \/ /\ free /\ final # "none"
           /\ BeginVerification(p, "ExistingFinal") /\ UNCHANGED <<part, final>>
        \/ /\ free /\ final = "none"
           /\ BeginRequest(p) /\ UNCHANGED final

\* acquireDownloadLock, inspectLockedFiles
Acquire(p) ==
    \/ /\ lock \notin {p, NoProcess}
       /\ Become(p, [Quiet(p) EXCEPT !.state = "Pending", !.timer = "lock"])
       /\ UNCHANGED <<lock, part, final>>
    \/ /\ lock = NoProcess /\ final # "none"
       /\ BeginVerification(p, "ExistingFinal") /\ UNCHANGED <<part, final>>
    \/ /\ lock = NoProcess /\ final = "none"
       /\ BeginRequest(p) /\ UNCHANGED final

-----------------------------------------------------------------------------
(* Buttons, command lines and timers. *)

\* ModelManager::download: a new operation, started from the event loop
Download(p) ==
    /\ Idle(p)
    /\ Become(p, NewOp("Pending", "start"))
    /\ UNCHANGED <<part, final, lock>>

\* start, and the timers of a held lock and of a retry
TimerFires(p) ==
    /\ op[p].timer \in {"start", "lock", "retry"}
    /\ Acquire(p)

\* The request without a range that follows one whose range was ignored
RestartFires(p) ==
    /\ op[p].timer = "restart"
    /\ BeginRequest(p) /\ UNCHANGED final

\* Not while the hash is computed, nor before a retry
Pause(p) ==
    /\ op[p].state = "Downloading" \/ op[p].timer = "lock"
    /\ Become(p, [Quiet(p) EXCEPT !.state = "Paused"])
    /\ lock' = Released(p)
    /\ UNCHANGED <<part, final>>

Resume(p) == op[p].state = "Paused" /\ Acquire(p)

\* The reader of a hash must end before the lock is given up.
Cancel(p) ==
    /\ ~Idle(p) /\ op[p].state # "Cancelled"
    /\ \/ /\ op[p].verify # "none"
          /\ Become(p, [op[p] EXCEPT !.state = "Cancelled"])
          /\ UNCHANGED <<part, lock>>
       \/ /\ op[p].verify = "none"
          /\ Finish(p, "Cancelled")
          /\ part' = IF lock \in {p, NoProcess} THEN <<>> ELSE part
    /\ UNCHANGED final

\* The process ends, by a crash or in order; its lock is stale.
Die(p) ==
    /\ op[p] # NewOp("None", "none")
    /\ Finish(p, "None")
    /\ UNCHANGED <<part, final>>

-----------------------------------------------------------------------------
(* The server. It may ignore a range, send another one, fail, stop early, go on too long and *)
(* send wrong blocks, but it labels what it sends.                                            *)

Response == [status : {200, 206, 404, 503}, first : 0 .. Size - 1, lengthOk : BOOLEAN,
             honest : BOOLEAN, long : BOOLEAN]

\* The range header was ignored: the prefix must not be continued with the whole file.
IgnoresRange(p, r) == op[p].offset > 0 /\ r.status = 200

\* Mutant: Content-Range is not compared with the offset that was asked for.
AcceptableAnyRange(p, r) ==
    /\ r.status = (IF op[p].offset = 0 THEN 200 ELSE 206)
    /\ r.lengthOk

\* The rest of validateResponseHeaders
Acceptable(p, r) ==
    /\ r.status = (IF op[p].offset = 0 THEN 200 ELSE 206)
    /\ r.lengthOk
    /\ op[p].offset > 0 => r.first = op[p].offset

\* metaDataChanged: validateResponseHeaders. An abort ends the reply at once.
Respond(p) ==
    /\ op[p].reply = "waiting"
    /\ \E r \in Response :
        /\ r.status = 200 => r.first = 0
        /\ r.long => r.lengthOk        \* longer than it says, or it does not say
        /\ \/ r.status = 503 /\ Fail(p, TRUE, FALSE)
           \/ r.status = 404 /\ Fail(p, FALSE, TRUE)
           \/ /\ IgnoresRange(p, r)
              /\ Become(p, [Quiet(p) EXCEPT !.timer = "restart"])
              /\ part' = <<>>
              /\ UNCHANGED <<lock, final>>
           \/ /\ r.status \in {200, 206} /\ ~IgnoresRange(p, r) /\ ~Acceptable(p, r)
              /\ Fail(p, FALSE, TRUE)
           \/ /\ ~IgnoresRange(p, r) /\ Acceptable(p, r)
              /\ Become(p, [op[p] EXCEPT !.reply = "streaming", !.at = r.first, !.honest = r.honest,
                                         !.long = r.long])
              /\ UNCHANGED <<part, lock, final>>

\* handleReadyRead: one block, which may not fit or not be written
Receive(p) ==
    /\ op[p].reply = "streaming"
    /\ \/ /\ Len(part) < Size /\ op[p].at < Size
          /\ part' = Append(part, IF op[p].honest THEN op[p].at + 1 ELSE 0)
          /\ Become(p, [op[p] EXCEPT !.at = op[p].at + 1])
          /\ UNCHANGED <<lock, final>>
       \/ /\ op[p].at < Size \/ op[p].long
          /\ Fail(p, FALSE, TRUE)

\* handleNetworkFinished
NetworkFinished(p) ==
    /\ op[p].reply # "none"
    /\ \/ Fail(p, TRUE, FALSE)
       \/ /\ op[p].reply = "streaming" /\ ~op[p].long /\ Len(part) = Size
          /\ BeginVerification(p, "DownloadedPart")
          /\ UNCHANGED <<part, final>>

-----------------------------------------------------------------------------
(* Verification, on another thread, and what follows it. *)

\* sha256File
HashFile(p) ==
    /\ op[p].verify # "none" /\ op[p].hash = "none"
    /\ Become(p, [op[p] EXCEPT !.hash =
           IF (IF op[p].verify = "DownloadedPart" THEN part = Whole ELSE final \in Valid)
           THEN "valid" ELSE "invalid"])
    /\ UNCHANGED <<part, final, lock>>

Complete(p) == Finish(p, "Completed") /\ part' = <<>>

\* rename
CommitPart(p) ==
    /\ final' = IF part = Whole THEN "published" ELSE "corrupt"
    /\ Complete(p)

\* handleVerificationFinished, commitVerifiedPart. Removing or renaming a file may fail.
VerificationFinished(p) ==
    /\ op[p].hash # "none"
    /\ \/ /\ op[p].state = "Cancelled"
          /\ Finish(p, "Cancelled") /\ part' = <<>> /\ UNCHANGED final
       \/ /\ op[p].state = "Verifying" /\ op[p].verify # "DownloadedPart" /\ op[p].hash = "valid"
          /\ Complete(p) /\ UNCHANGED final
       \/ /\ op[p].state = "Verifying" /\ op[p].verify = "ExistingFinal" /\ op[p].hash = "invalid"
          /\ final' = "none" /\ BeginRequest(p)
       \/ /\ op[p].state = "Verifying" /\ op[p].verify = "DownloadedPart" /\ op[p].hash = "invalid"
          /\ Finish(p, "Failed") /\ part' = <<>> /\ UNCHANGED final
       \/ /\ op[p].state = "Verifying" /\ op[p].verify = "DownloadedPart" /\ op[p].hash = "valid"
          /\ final # "none"
          /\ BeginVerification(p, "FinalBeforeCommit") /\ UNCHANGED <<part, final>>
       \/ /\ op[p].state = "Verifying" /\ op[p].verify = "DownloadedPart" /\ op[p].hash = "valid"
          /\ final = "none"
          /\ CommitPart(p)
       \/ /\ op[p].state = "Verifying" /\ op[p].verify = "FinalBeforeCommit" /\ op[p].hash = "invalid"
          /\ CommitPart(p)
       \/ /\ op[p].state = "Verifying"
          /\ op[p].hash = IF op[p].verify = "DownloadedPart" THEN "valid" ELSE "invalid"
          /\ Fail(p, FALSE, FALSE)

-----------------------------------------------------------------------------
(* What else happens to the model file, without the lock. *)

\* ModelManager::removeModel
RemoveFile == final' = "none" /\ UNCHANGED <<part, lock, op>>

\* The user copies a model into the directory.
CopyIn ==
    /\ final = "none"
    /\ final' \in {"copied", "bad"}
    /\ UNCHANGED <<part, lock, op>>

Step(p) ==
    \/ TimerFires(p) \/ RestartFires(p)
    \/ Respond(p) \/ Receive(p) \/ NetworkFinished(p)
    \/ HashFile(p) \/ VerificationFinished(p)

DlNext ==
    \/ \E p \in Process : Download(p) \/ Step(p) \/ Die(p)
    \/ \E p \in Desktop : Pause(p) \/ Resume(p) \/ Cancel(p)
    \/ RemoveFile \/ CopyIn

DlSpec == DlInit /\ [][DlNext]_dlVars

\* Timers fire, requests end with an answer or a timeout, hashes are computed.
DlFairness == \A p \in Process : /\ WF_dlVars(TimerFires(p)) /\ WF_dlVars(RestartFires(p))
                                  /\ WF_dlVars(Respond(p)) /\ WF_dlVars(Receive(p))
                                  /\ WF_dlVars(NetworkFinished(p))
                                  /\ WF_dlVars(HashFile(p)) /\ WF_dlVars(VerificationFinished(p))

FairDlSpec == DlSpec /\ DlFairness

-----------------------------------------------------------------------------
(* Properties. *)

\* Every block of a partial download stands where it belongs: no answer of the server, resumption,
\* restart or change of process continues a prefix with anything but what follows it.
PartIsPrefix == \A i \in 1 .. Len(part) : part[i] \in {0, i}

\* Only the holder of the lock has a request whose answer goes to the part, or a reader of the files.
LockGuardsFiles == \A p \in Process : op[p].reply # "none" \/ op[p].verify # "none" => lock = p

\* What a download put in place was verified as it is: no block was added or replaced between the
\* hash and the rename.
InstalledIsWhole == final # "corrupt"

\* What holds of the files at any time, whichever process works on them.
DownloadInv == DlTypeOK /\ PartIsPrefix /\ LockGuardsFiles /\ InstalledIsWhole

\* A model that a download published goes away only when the user removes it: no other download
\* mistakes it for the invalid file that was there before.
PublishedKept == [][final = "published" /\ ~RemoveFile => final' = "published"]_dlVars

\* The lock of a download is given up in the end, whatever the server does.
LockIsReleased == \A p \in Process : lock = p ~> lock # p

\* A download that is not paused ends, if others do not begin or resume for ever while it waits for
\* the lock.
DownloadEnds ==
    (<>[][\A p \in Process : ~Download(p) /\ ~Resume(p)]_dlVars)
        => \A p \in Process : ~Idle(p) ~> Idle(p) \/ op[p].state = "Paused"

=============================================================================
