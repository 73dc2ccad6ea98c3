------------------------- MODULE ModelLibraryProofs -------------------------
(***************************************************************************)
(* Proofs about the download of a model, for every set of processes, every *)
(* size of the model and every number of retries, and, on top of them,     *)
(* about the models of a desktop application. The inductive invariant says *)
(* what each operation relies on while it works without looking at the     *)
(* files again: the offset it asked for, the place where the server's next *)
(* block belongs, and what the reader of a hash found. In the application  *)
(* every step on the files is still a good one of some operation, and what *)
(* the list shows follows the operation.                                   *)
(***************************************************************************)
EXTENDS ModelLibrary, TLAPS

-----------------------------------------------------------------------------
(* The download of one model. *)

\* What the operation of p relies on. It has a request, a reader or a restart only while it holds the
\* lock; never a request and a reader; a reader only while it verifies or is cancelled; the server's next
\* block follows the part; and what its reader found is still true.
OpSound(p) ==
    /\ op[p].reply # "none" \/ op[p].verify # "none" \/ op[p].timer = "restart" => lock = p
    /\ op[p].reply # "none" => op[p].verify = "none"
    /\ op[p].hash # "none" => op[p].verify # "none"
    /\ op[p].verify # "none" => op[p].state \in {"Verifying", "Cancelled"}
    /\ op[p].reply = "waiting" => op[p].offset = Len(part)
    /\ op[p].reply = "streaming" => op[p].at = Len(part)
    /\ op[p].verify = "DownloadedPart" /\ op[p].hash = "valid" => part = Whole
    /\ op[p].verify = "FinalBeforeCommit" => part = Whole
    /\ op[p].verify = "ExistingFinal" /\ op[p].hash = "invalid" => final # "published"

DownloadIInv == DlTypeOK /\ PartIsPrefix /\ InstalledIsWhole /\ \A p \in Process : OpSound(p)

\* What each step of an operation does: it changes the files only with the lock, keeps them as they
\* ought to be, and leaves itself sound.
GoodStep(p) ==
    /\ op' = [op EXCEPT ![p] = op'[p]] /\ op'[p] \in Operation
    /\ part' \in Seq(0 .. Size) /\ Len(part') <= Size /\ PartIsPrefix'
    /\ final' \in Content /\ InstalledIsWhole'
    /\ lock' \in {p, NoProcess, lock}
    /\ lock \notin {p, NoProcess} => UNCHANGED <<part, final, lock>>
    /\ OpSound(p)'
    /\ final = "published" => final' = "published"

\* An operation that has nothing under way.
Quiescent(o) == o.reply = "none" /\ o.verify = "none" /\ o.hash = "none" /\ o.timer # "restart"

\* The initial states: nothing is downloaded, nobody has the lock.
LEMMA DownloadStarts == DlInit => DownloadIInv
  <1> SUFFICES ASSUME DlInit PROVE DownloadIInv
    OBVIOUS
  <1>1. NewOp("None", "none") \in Operation /\ Quiescent(NewOp("None", "none"))
    BY SizeAssumption DEF NewOp, Operation, OpState, Active, Ended, Purpose, Quiescent
  <1>2. DlTypeOK
    BY <1>1, SizeAssumption DEF DlInit, DlTypeOK, Content
  <1>3. PartIsPrefix /\ InstalledIsWhole
    BY DEF DlInit, PartIsPrefix, InstalledIsWhole
  <1>4. ASSUME NEW p \in Process PROVE OpSound(p)
    BY <1>1 DEF DlInit, OpSound, Quiescent
  <1> QED
    BY <1>2, <1>3, <1>4 DEF DownloadIInv

\* A good step of one operation disturbs no other: whatever that one relies on, it holds the lock.
LEMMA GoodStepKeeps ==
    ASSUME DownloadIInv, NEW p \in Process, GoodStep(p)
    PROVE  DownloadIInv'
  <1>1. DlTypeOK'
    BY ProcessAssumption DEF DownloadIInv, DlTypeOK, GoodStep
  <1>2. ASSUME NEW q \in Process, q # p PROVE OpSound(q)'
    <2>1. op'[q] = op[q]
      BY <1>2 DEF GoodStep, DownloadIInv, DlTypeOK
    <2>2. CASE lock = q
      <3>1. UNCHANGED <<part, final, lock>>
        BY <2>2, <1>2, ProcessAssumption DEF GoodStep
      <3> QED
        BY <2>1, <3>1 DEF DownloadIInv, OpSound
    <2>3. CASE lock # q
      <3>1. op[q].reply = "none" /\ op[q].verify = "none" /\ op[q].timer # "restart" /\ op[q].hash = "none"
        BY <2>3 DEF DownloadIInv, OpSound
      <3> QED
        BY <2>1, <3>1 DEF OpSound
    <2> QED
      BY <2>2, <2>3
  <1>3. OpSound(p)'
    BY DEF GoodStep
  <1> QED
    BY <1>1, <1>2, <1>3 DEF DownloadIInv, GoodStep

\* The values the handlers build.
LEMMA NewOpQuiescent ==
    ASSUME NEW s \in OpState, NEW t \in {"none", "start", "lock", "retry"}
    PROVE  NewOp(s, t) \in Operation /\ Quiescent(NewOp(s, t))
  BY SizeAssumption DEF NewOp, Operation, OpState, Active, Ended, Purpose, Quiescent

LEMMA QuietQuiescent ==
    ASSUME DownloadIInv, NEW p \in Process
    PROVE  Quiet(p) \in Operation /\ Quiescent(Quiet(p))
  <1>1. op[p] \in Operation
    BY DEF DownloadIInv, DlTypeOK
  <1>2. 0 \in 0 .. Size
    BY SizeAssumption
  <1>3. Quiet(p) \in Operation
    BY <1>1, <1>2 DEF Quiet, Operation
  <1>4. Quiescent(Quiet(p))
    BY <1>1 DEF Quiet, Operation, Quiescent
  <1> QED
    BY <1>3, <1>4

\* The ways of a handler to end: the files stay, or the partial download of the lock's holder is dropped.
LEMMA QuiescentStep ==
    ASSUME DownloadIInv, NEW p \in Process, NEW o \in Operation, Quiescent(o), Become(p, o),
           part' \in {part, <<>>}, lock' \in {p, NoProcess, lock}, UNCHANGED final,
           lock \notin {p, NoProcess} => UNCHANGED <<part, lock>>
    PROVE  GoodStep(p)
  <1>1. op' = [op EXCEPT ![p] = op'[p]] /\ op'[p] = o
    BY DEF Become, DownloadIInv, DlTypeOK
  <1>2. part' \in Seq(0 .. Size) /\ Len(part') <= Size /\ PartIsPrefix'
    <2>1. CASE part' = part
      BY <2>1 DEF DownloadIInv, DlTypeOK, PartIsPrefix
    <2>2. CASE part' = <<>>
      BY <2>2, SizeAssumption DEF PartIsPrefix
    <2> QED
      BY <2>1, <2>2
  <1>3. OpSound(p)'
    BY <1>1 DEF OpSound, Quiescent
  <1> QED
    BY <1>1, <1>2, <1>3 DEF GoodStep, DownloadIInv, DlTypeOK, InstalledIsWhole

\* fail: the operation is over or waits for its next try, and only the lock's holder drops the part.
LEMMA FailIsGood ==
    ASSUME DownloadIInv, NEW p \in Process, NEW retryable \in BOOLEAN, NEW discard \in BOOLEAN,
           Fail(p, retryable, discard)
    PROVE  GoodStep(p)
  <1>1. UNCHANGED final
    BY DEF Fail
  <1>2. CASE retryable /\ op[p].retries < MaxRetries
    <2> DEFINE o == [Quiet(p) EXCEPT !.state = "Pending", !.timer = "retry", !.retries = op[p].retries + 1]
    <2>1. Quiet(p) \in Operation /\ Quiescent(Quiet(p))
      BY QuietQuiescent
    <2>2. op[p].retries + 1 \in 0 .. MaxRetries
      BY <1>2, SizeAssumption DEF DownloadIInv, DlTypeOK, Operation
    <2>3. o \in Operation
      BY <2>1, <2>2 DEF Operation, OpState, Active
    <2>4. Quiescent(o)
      BY <2>1 DEF Operation, Quiescent
    <2>5. Become(p, o) /\ lock' = Released(p) /\ part' = part
      BY <1>2 DEF Fail
    <2> HIDE DEF o
    <2> QED
      BY <1>1, <2>3, <2>4, <2>5, QuiescentStep DEF Released
  <1>3. CASE ~(retryable /\ op[p].retries < MaxRetries)
    <2>1. Become(p, NewOp("Failed", "none")) /\ lock' = Released(p)
      BY <1>3 DEF Fail, Finish
    <2>2. part' \in {part, <<>>} /\ (lock' = lock => part' = part)
      BY <1>3 DEF Fail
    <2>3. NewOp("Failed", "none") \in Operation /\ Quiescent(NewOp("Failed", "none"))
      BY NewOpQuiescent DEF OpState, Ended
    <2> QED
      BY <1>1, <2>1, <2>2, <2>3, QuiescentStep DEF Released
  <1> QED
    BY <1>2, <1>3

\* beginVerification by the lock's holder, or with the lock it just took. Before the rename the part is
\* known to be whole.
LEMMA BeginVerificationIsGood ==
    ASSUME DownloadIInv, NEW p \in Process, NEW purpose \in Purpose, lock \in {p, NoProcess},
           BeginVerification(p, purpose), UNCHANGED <<part, final>>,
           purpose = "FinalBeforeCommit" => part = Whole
    PROVE  GoodStep(p)
  <1> DEFINE o == [Quiet(p) EXCEPT !.state = "Verifying", !.verify = purpose]
  <1>1. Quiet(p) \in Operation /\ Quiescent(Quiet(p))
    BY QuietQuiescent
  <1>2. o \in Operation
    BY <1>1 DEF Operation, OpState, Active, Purpose
  <1>3. o.reply = "none" /\ o.verify = purpose /\ o.hash = "none" /\ o.state = "Verifying"
    BY <1>1 DEF Operation, Quiescent
  <1>4. op' = [op EXCEPT ![p] = o] /\ lock' = p
    BY DEF BeginVerification, Become
  <1> HIDE DEF o
  <1>5. op' = [op EXCEPT ![p] = op'[p]] /\ op'[p] = o
    BY <1>4 DEF DownloadIInv, DlTypeOK
  <1>6. OpSound(p)'
    BY <1>3, <1>4, <1>5 DEF OpSound, Purpose, Whole
  <1> QED
    BY <1>2, <1>4, <1>5, <1>6 DEF GoodStep, DownloadIInv, DlTypeOK, InstalledIsWhole, PartIsPrefix

\* beginRequest by the lock's holder, or with the lock it just took: it asks for what follows the part.
LEMMA BeginRequestIsGood ==
    ASSUME DownloadIInv, NEW p \in Process, lock \in {p, NoProcess}, BeginRequest(p),
           final' \in {final, "none"}, final = "published" => final' = final
    PROVE  GoodStep(p)
  <1>0. final' \in Content /\ InstalledIsWhole' /\ (final = "published" => final' = "published")
    BY DEF DownloadIInv, DlTypeOK, InstalledIsWhole, Content
  <1>1. CASE BeginVerification(p, "DownloadedPart") /\ UNCHANGED part
    <2> DEFINE o == [Quiet(p) EXCEPT !.state = "Verifying", !.verify = "DownloadedPart"]
    <2>1. Quiet(p) \in Operation /\ Quiescent(Quiet(p))
      BY QuietQuiescent
    <2>2. o \in Operation
      BY <2>1 DEF Operation, OpState, Active, Purpose
    <2>3. o.reply = "none" /\ o.verify = "DownloadedPart" /\ o.hash = "none" /\ o.state = "Verifying"
      BY <2>1 DEF Operation, Quiescent
    <2>4. op' = [op EXCEPT ![p] = o] /\ lock' = p
      BY <1>1 DEF BeginVerification, Become
    <2> HIDE DEF o
    <2>5. op' = [op EXCEPT ![p] = op'[p]] /\ op'[p] = o
      BY <2>4 DEF DownloadIInv, DlTypeOK
    <2>6. OpSound(p)'
      BY <2>3, <2>4, <2>5 DEF OpSound
    <2> QED
      BY <1>0, <1>1, <2>2, <2>4, <2>5, <2>6 DEF GoodStep, DownloadIInv, DlTypeOK, PartIsPrefix
  <1>2. CASE /\ Len(part) < Size /\ lock' = p /\ UNCHANGED part
             /\ Become(p, [Quiet(p) EXCEPT !.state = "Downloading", !.reply = "waiting", !.offset = Len(part)])
    <2> DEFINE o == [Quiet(p) EXCEPT !.state = "Downloading", !.reply = "waiting", !.offset = Len(part)]
    <2>1. Quiet(p) \in Operation /\ Quiescent(Quiet(p))
      BY QuietQuiescent
    <2>2. Len(part) \in 0 .. Size
      BY SizeAssumption DEF DownloadIInv, DlTypeOK
    <2>3. o \in Operation
      BY <2>1, <2>2 DEF Operation, OpState, Active
    <2>4. o.reply = "waiting" /\ o.offset = Len(part) /\ o.verify = "none" /\ o.hash = "none"
      BY <2>1 DEF Operation, Quiescent
    <2>5. op' = [op EXCEPT ![p] = o]
      BY <1>2 DEF Become
    <2> HIDE DEF o
    <2>6. op' = [op EXCEPT ![p] = op'[p]] /\ op'[p] = o
      BY <2>5 DEF DownloadIInv, DlTypeOK
    <2>7. OpSound(p)'
      BY <1>2, <2>4, <2>6 DEF OpSound
    <2> QED
      BY <1>0, <1>2, <2>3, <2>6, <2>7 DEF GoodStep, DownloadIInv, DlTypeOK, PartIsPrefix
  <1>3. CASE /\ part' \in {part, <<>>} /\ lock' = NoProcess
             /\ Become(p, NewOp("Failed", "none"))
    <2> DEFINE o == NewOp("Failed", "none")
    <2>1. o \in Operation /\ Quiescent(o)
      BY NewOpQuiescent DEF OpState, Ended
    <2>2. op' = [op EXCEPT ![p] = o]
      BY <1>3 DEF Become
    <2> HIDE DEF o
    <2>3. op' = [op EXCEPT ![p] = op'[p]] /\ op'[p] = o
      BY <2>2 DEF DownloadIInv, DlTypeOK
    <2>4. OpSound(p)'
      BY <2>1, <2>3 DEF OpSound, Quiescent
    <2>5. part' \in Seq(0 .. Size) /\ Len(part') <= Size /\ PartIsPrefix'
      <3>1. CASE part' = part
        BY <3>1 DEF DownloadIInv, DlTypeOK, PartIsPrefix
      <3>2. CASE part' = <<>>
        BY <3>2, SizeAssumption DEF PartIsPrefix
      <3> QED
        BY <1>3, <3>1, <3>2
    <2> QED
      BY <1>0, <1>3, <2>1, <2>3, <2>4, <2>5 DEF GoodStep
  <1> QED
    BY <1>1, <1>2, <1>3 DEF BeginRequest

\* Finish by an operation that no longer needs the lock, with the partial download of its holder dropped.
LEMMA FinishIsGood ==
    ASSUME DownloadIInv, NEW p \in Process, NEW state \in OpState, Finish(p, state),
           part' \in {part, <<>>}, lock \notin {p, NoProcess} => part' = part, UNCHANGED final
    PROVE  GoodStep(p)
  <1>1. NewOp(state, "none") \in Operation /\ Quiescent(NewOp(state, "none"))
    BY NewOpQuiescent
  <1>2. Become(p, NewOp(state, "none")) /\ lock' = Released(p)
    BY DEF Finish
  <1> QED
    BY <1>1, <1>2, QuiescentStep DEF Released

-----------------------------------------------------------------------------
(* The steps of an operation. *)

LEMMA AcquireIsGood == ASSUME DownloadIInv, NEW p \in Process, Acquire(p) PROVE GoodStep(p)
  <1>1. CASE /\ Become(p, [Quiet(p) EXCEPT !.state = "Pending", !.timer = "lock"])
             /\ UNCHANGED <<lock, part, final>>
    <2> DEFINE o == [Quiet(p) EXCEPT !.state = "Pending", !.timer = "lock"]
    <2>1. Quiet(p) \in Operation /\ Quiescent(Quiet(p))
      BY QuietQuiescent
    <2>2. o \in Operation
      BY <2>1 DEF Operation, OpState, Active
    <2>3. Quiescent(o)
      BY <2>1 DEF Operation, Quiescent
    <2>4. Become(p, o)
      BY <1>1
    <2> HIDE DEF o
    <2> QED
      BY <1>1, <2>2, <2>3, <2>4, QuiescentStep
  <1>2. CASE lock = NoProcess /\ BeginVerification(p, "ExistingFinal") /\ UNCHANGED <<part, final>>
    BY <1>2, BeginVerificationIsGood DEF Purpose
  <1>3. CASE lock = NoProcess /\ BeginRequest(p) /\ UNCHANGED final
    BY <1>3, BeginRequestIsGood
  <1> QED
    BY <1>1, <1>2, <1>3 DEF Acquire

LEMMA DownloadIsGood == ASSUME DownloadIInv, NEW p \in Process, Download(p) PROVE GoodStep(p)
  <1>1. NewOp("Pending", "start") \in Operation /\ Quiescent(NewOp("Pending", "start"))
    BY NewOpQuiescent DEF OpState, Active
  <1> QED
    BY <1>1, QuiescentStep DEF Download

LEMMA PauseIsGood == ASSUME DownloadIInv, NEW p \in Process, Pause(p) PROVE GoodStep(p)
  <1> DEFINE o == [Quiet(p) EXCEPT !.state = "Paused"]
  <1>1. Quiet(p) \in Operation /\ Quiescent(Quiet(p))
    BY QuietQuiescent
  <1>2. o \in Operation
    BY <1>1 DEF Operation, OpState
  <1>3. Quiescent(o)
    BY <1>1 DEF Operation, Quiescent
  <1>4. Become(p, o) /\ lock' = Released(p) /\ UNCHANGED <<part, final>>
    BY DEF Pause
  <1> HIDE DEF o
  <1> QED
    BY <1>2, <1>3, <1>4, QuiescentStep DEF Released

\* A cancellation leaves a reader its lock; otherwise it drops the part, if nobody else is at work on it.
LEMMA CancelIsGood == ASSUME DownloadIInv, NEW p \in Process, Cancel(p) PROVE GoodStep(p)
  <1>1. CASE op[p].verify # "none"
    <2> DEFINE o == [op[p] EXCEPT !.state = "Cancelled"]
    <2>1. op[p] \in Operation
      BY DEF DownloadIInv, DlTypeOK
    <2>2. o \in Operation
      BY <2>1 DEF Operation, OpState
    <2>3. /\ o.reply = op[p].reply /\ o.verify = op[p].verify /\ o.hash = op[p].hash
          /\ o.timer = op[p].timer /\ o.offset = op[p].offset /\ o.at = op[p].at /\ o.state = "Cancelled"
      BY <2>1 DEF Operation
    <2>4. op' = [op EXCEPT ![p] = o] /\ UNCHANGED <<part, lock, final>>
      BY <1>1 DEF Cancel, Become
    <2> HIDE DEF o
    <2>5. op' = [op EXCEPT ![p] = op'[p]] /\ op'[p] = o
      BY <2>4 DEF DownloadIInv, DlTypeOK
    <2>6. OpSound(p)'
      BY <2>3, <2>4, <2>5 DEF OpSound, DownloadIInv
    <2> QED
      BY <2>2, <2>4, <2>5, <2>6 DEF GoodStep, DownloadIInv, DlTypeOK, PartIsPrefix, InstalledIsWhole
  <1>2. CASE op[p].verify = "none"
    BY <1>2, FinishIsGood DEF Cancel, OpState
  <1> QED
    BY <1>1, <1>2

LEMMA DieIsGood == ASSUME DownloadIInv, NEW p \in Process, Die(p) PROVE GoodStep(p)
  BY FinishIsGood DEF Die, OpState, Ended

\* The answer is taken up only if it continues the part; the request that ignored the range begins anew.
LEMMA RespondIsGood == ASSUME DownloadIInv, NEW p \in Process, Respond(p) PROVE GoodStep(p)
  <1>1. PICK r \in Response :
          /\ r.status = 200 => r.first = 0
          /\ \/ \E a, b \in BOOLEAN : Fail(p, a, b)
             \/ /\ Become(p, [Quiet(p) EXCEPT !.timer = "restart"])
                /\ part' = <<>> /\ UNCHANGED <<lock, final>>
             \/ /\ Acceptable(p, r)
                /\ Become(p, [op[p] EXCEPT !.reply = "streaming", !.at = r.first, !.honest = r.honest,
                                           !.long = r.long])
                /\ UNCHANGED <<part, lock, final>>
    BY DEF Respond
  <1>2. op[p] \in Operation /\ op[p].reply = "waiting" /\ lock = p /\ op[p].offset = Len(part)
        /\ op[p].verify = "none" /\ op[p].hash = "none"
    BY DEF Respond, DownloadIInv, DlTypeOK, OpSound
  <1>3. CASE \E a, b \in BOOLEAN : Fail(p, a, b)
    BY <1>3, FailIsGood
  <1>4. CASE /\ Become(p, [Quiet(p) EXCEPT !.timer = "restart"])
             /\ part' = <<>> /\ UNCHANGED <<lock, final>>
    <2> DEFINE o == [Quiet(p) EXCEPT !.timer = "restart"]
    <2>1. Quiet(p) \in Operation /\ Quiescent(Quiet(p))
      BY QuietQuiescent
    <2>2. o \in Operation
      BY <2>1 DEF Operation
    <2>3. o.reply = "none" /\ o.verify = "none" /\ o.hash = "none"
      BY <2>1 DEF Operation, Quiescent
    <2>4. op' = [op EXCEPT ![p] = o]
      BY <1>4 DEF Become
    <2> HIDE DEF o
    <2>5. op' = [op EXCEPT ![p] = op'[p]] /\ op'[p] = o
      BY <2>4 DEF DownloadIInv, DlTypeOK
    <2>6. OpSound(p)'
      BY <1>2, <1>4, <2>3, <2>5 DEF OpSound
    <2>7. part' \in Seq(0 .. Size) /\ Len(part') <= Size /\ PartIsPrefix'
      BY <1>4, SizeAssumption DEF PartIsPrefix
    <2> QED
      BY <1>2, <1>4, <2>2, <2>5, <2>6, <2>7 DEF GoodStep, DownloadIInv, DlTypeOK, InstalledIsWhole
  <1>5. CASE /\ Acceptable(p, r)
             /\ Become(p, [op[p] EXCEPT !.reply = "streaming", !.at = r.first, !.honest = r.honest,
                                        !.long = r.long])
             /\ UNCHANGED <<part, lock, final>>
    <2> DEFINE o == [op[p] EXCEPT !.reply = "streaming", !.at = r.first, !.honest = r.honest, !.long = r.long]
    <2>1. r.first \in 0 .. Size /\ r.honest \in BOOLEAN /\ r.long \in BOOLEAN
      BY SizeAssumption DEF Response
    <2>2. r.first = Len(part)
      BY <1>1, <1>2, <1>5, <2>1 DEF Acceptable, Operation
    <2>3. o \in Operation
      BY <1>2, <2>1 DEF Operation
    <2>4. o.reply = "streaming" /\ o.verify = "none" /\ o.hash = "none" /\ o.at = r.first
      BY <1>2 DEF Operation
    <2>5. op' = [op EXCEPT ![p] = o]
      BY <1>5 DEF Become
    <2> HIDE DEF o
    <2>6. op' = [op EXCEPT ![p] = op'[p]] /\ op'[p] = o
      BY <2>5 DEF DownloadIInv, DlTypeOK
    <2>7. OpSound(p)'
      BY <1>2, <1>5, <2>2, <2>4, <2>6 DEF OpSound
    <2> QED
      BY <1>5, <2>3, <2>6, <2>7 DEF GoodStep, DownloadIInv, DlTypeOK, PartIsPrefix, InstalledIsWhole
  <1> QED
    BY <1>1, <1>3, <1>4, <1>5

\* A block is appended where the server's counting has arrived, which is where the part ends.
LEMMA ReceiveIsGood == ASSUME DownloadIInv, NEW p \in Process, Receive(p) PROVE GoodStep(p)
  <1>1. /\ op[p] \in Operation /\ op[p].reply = "streaming" /\ lock = p
        /\ op[p].at = Len(part) /\ op[p].verify = "none" /\ op[p].hash = "none"
    BY DEF Receive, DownloadIInv, DlTypeOK, OpSound
  <1>2. CASE /\ Len(part) < Size /\ op[p].at < Size
             /\ part' = Append(part, IF op[p].honest THEN op[p].at + 1 ELSE 0)
             /\ Become(p, [op[p] EXCEPT !.at = op[p].at + 1])
             /\ UNCHANGED <<lock, final>>
    <2> DEFINE o == [op[p] EXCEPT !.at = op[p].at + 1]
               b == IF op[p].honest THEN op[p].at + 1 ELSE 0
    <2>1. b \in {0, Len(part) + 1} /\ b \in 0 .. Size /\ op[p].at + 1 \in 0 .. Size
      BY <1>1, <1>2, SizeAssumption DEF Operation, DownloadIInv, DlTypeOK
    <2>2. o \in Operation
      BY <1>1, <2>1 DEF Operation
    <2>3. o.reply = "streaming" /\ o.verify = "none" /\ o.hash = "none" /\ o.at = op[p].at + 1
      BY <1>1 DEF Operation
    <2>4. op' = [op EXCEPT ![p] = o] /\ part' = Append(part, b)
      BY <1>2 DEF Become
    <2> HIDE DEF o, b
    <2>5. part' \in Seq(0 .. Size) /\ Len(part') = Len(part) + 1
      BY <2>1, <2>4 DEF DownloadIInv, DlTypeOK
    <2>6. PartIsPrefix'
      BY <2>1, <2>4, <2>5 DEF PartIsPrefix, DownloadIInv, DlTypeOK
    <2>7. op' = [op EXCEPT ![p] = op'[p]] /\ op'[p] = o
      BY <2>4 DEF DownloadIInv, DlTypeOK
    <2>8. OpSound(p)'
      BY <1>1, <1>2, <2>3, <2>5, <2>7 DEF OpSound
    <2>9. Len(part') <= Size
      BY <1>2, <2>5, SizeAssumption DEF DownloadIInv, DlTypeOK
    <2> QED
      BY <1>1, <1>2, <2>2, <2>5, <2>6, <2>7, <2>8, <2>9
      DEF GoodStep, DownloadIInv, DlTypeOK, InstalledIsWhole
  <1>3. CASE Fail(p, FALSE, TRUE)
    BY <1>3, FailIsGood
  <1> QED
    BY <1>2, <1>3 DEF Receive

LEMMA NetworkFinishedIsGood == ASSUME DownloadIInv, NEW p \in Process, NetworkFinished(p) PROVE GoodStep(p)
  <1>1. lock = p
    BY DEF NetworkFinished, DownloadIInv, OpSound
  <1>2. CASE Fail(p, TRUE, FALSE)
    BY <1>2, FailIsGood
  <1>3. CASE BeginVerification(p, "DownloadedPart") /\ UNCHANGED <<part, final>>
    BY <1>1, <1>3, BeginVerificationIsGood DEF Purpose
  <1> QED
    BY <1>2, <1>3 DEF NetworkFinished

\* What the reader finds is so when it finds it.
LEMMA HashFileIsGood == ASSUME DownloadIInv, NEW p \in Process, HashFile(p) PROVE GoodStep(p)
  <1> DEFINE h == IF (IF op[p].verify = "DownloadedPart" THEN part = Whole ELSE final \in Valid)
                  THEN "valid" ELSE "invalid"
             o == [op[p] EXCEPT !.hash = h]
  <1>1. /\ op[p] \in Operation /\ op[p].verify # "none" /\ OpSound(p)
        /\ op' = [op EXCEPT ![p] = o] /\ UNCHANGED <<part, final, lock>>
    BY DEF HashFile, Become, DownloadIInv, DlTypeOK
  <1>2. h \in {"valid", "invalid"}
    OBVIOUS
  <1>3. op[p].verify = "DownloadedPart" /\ h = "valid" => part = Whole
    BY DEF Whole
  <1>4. op[p].verify = "ExistingFinal" /\ h = "invalid" => final # "published"
    BY DEF Valid
  <1> HIDE DEF h
  <1>5. o \in Operation
    BY <1>1, <1>2 DEF Operation
  <1>6. /\ o.reply = op[p].reply /\ o.verify = op[p].verify /\ o.hash = h
        /\ o.timer = op[p].timer /\ o.offset = op[p].offset /\ o.at = op[p].at /\ o.state = op[p].state
    BY <1>1 DEF Operation
  <1> HIDE DEF o
  <1>7. op' = [op EXCEPT ![p] = op'[p]] /\ op'[p] = o
    BY <1>1 DEF DownloadIInv, DlTypeOK
  <1>8. Whole' = Whole
    BY DEF Whole
  <1>9. OpSound(p)'
    BY <1>1, <1>3, <1>4, <1>6, <1>7, <1>8 DEF OpSound
  <1> QED
    BY <1>1, <1>5, <1>7, <1>9 DEF GoodStep, DownloadIInv, DlTypeOK, PartIsPrefix, InstalledIsWhole

\* The rename of a part that is whole.
LEMMA CommitPartIsGood ==
    ASSUME DownloadIInv, NEW p \in Process, lock = p, part = Whole, CommitPart(p)
    PROVE  GoodStep(p)
  <1>1. NewOp("Completed", "none") \in Operation /\ Quiescent(NewOp("Completed", "none"))
    BY NewOpQuiescent DEF OpState, Ended
  <1>2. final' = "published" /\ part' = <<>> /\ lock' = NoProcess /\ op' = [op EXCEPT ![p] = NewOp("Completed", "none")]
    BY DEF CommitPart, Complete, Finish, Become, Released
  <1>3. op' = [op EXCEPT ![p] = op'[p]] /\ op'[p] = NewOp("Completed", "none")
    BY <1>2 DEF DownloadIInv, DlTypeOK
  <1>4. OpSound(p)'
    BY <1>1, <1>3 DEF OpSound, Quiescent
  <1>5. part' \in Seq(0 .. Size) /\ Len(part') <= Size /\ PartIsPrefix'
    BY <1>2, SizeAssumption DEF PartIsPrefix
  <1> QED
    BY <1>1, <1>2, <1>3, <1>4, <1>5 DEF GoodStep, Content, InstalledIsWhole

\* What the reader found is acted on as it still is.
LEMMA VerificationFinishedIsGood ==
    ASSUME DownloadIInv, NEW p \in Process, VerificationFinished(p) PROVE GoodStep(p)
  <1>1. op[p].hash # "none" /\ OpSound(p) /\ lock = p
    BY DEF VerificationFinished, DownloadIInv, OpSound
  <1>2. CASE op[p].state = "Cancelled" /\ Finish(p, "Cancelled") /\ part' = <<>> /\ UNCHANGED final
    BY <1>1, <1>2, FinishIsGood DEF OpState
  <1>3. CASE Complete(p) /\ UNCHANGED final
    BY <1>1, <1>3, FinishIsGood DEF Complete, OpState, Ended
  <1>4. CASE op[p].verify = "ExistingFinal" /\ op[p].hash = "invalid" /\ final' = "none" /\ BeginRequest(p)
    <2>1. final # "published"
      BY <1>1, <1>4 DEF OpSound
    <2> QED
      BY <1>1, <1>4, <2>1, BeginRequestIsGood
  <1>5. CASE Finish(p, "Failed") /\ part' = <<>> /\ UNCHANGED final
    BY <1>1, <1>5, FinishIsGood DEF OpState, Ended
  <1>6. CASE /\ op[p].verify = "DownloadedPart" /\ op[p].hash = "valid"
             /\ BeginVerification(p, "FinalBeforeCommit") /\ UNCHANGED <<part, final>>
    <2>1. part = Whole
      BY <1>1, <1>6 DEF OpSound
    <2> QED
      BY <1>1, <1>6, <2>1, BeginVerificationIsGood DEF Purpose
  <1>7. CASE op[p].verify = "DownloadedPart" /\ op[p].hash = "valid" /\ CommitPart(p)
    <2>1. part = Whole
      BY <1>1, <1>7 DEF OpSound
    <2> QED
      BY <1>1, <1>7, <2>1, CommitPartIsGood
  <1>8. CASE op[p].verify = "FinalBeforeCommit" /\ CommitPart(p)
    <2>1. part = Whole
      BY <1>1, <1>8 DEF OpSound
    <2> QED
      BY <1>1, <1>8, <2>1, CommitPartIsGood
  <1>9. CASE Fail(p, FALSE, FALSE)
    BY <1>9, FailIsGood
  <1> QED
    BY <1>2, <1>3, <1>4, <1>5, <1>6, <1>7, <1>8, <1>9 DEF VerificationFinished

-----------------------------------------------------------------------------
(* The invariant, and what follows from it. *)

\* Every step of an operation is a good one.
LEMMA OperationSteps ==
    ASSUME DownloadIInv, NEW p \in Process,
           Download(p) \/ Step(p) \/ Die(p) \/ Pause(p) \/ Resume(p) \/ Cancel(p)
    PROVE  GoodStep(p)
  <1>1. CASE Download(p)  BY <1>1, DownloadIsGood
  <1>2. CASE Die(p)       BY <1>2, DieIsGood
  <1>3. CASE Pause(p)     BY <1>3, PauseIsGood
  <1>4. CASE Resume(p)    BY <1>4, AcquireIsGood DEF Resume
  <1>5. CASE Cancel(p)    BY <1>5, CancelIsGood
  <1>6. CASE TimerFires(p)
    BY <1>6, AcquireIsGood DEF TimerFires
  <1>7. CASE RestartFires(p)
    <2>1. lock = p
      BY <1>7 DEF RestartFires, DownloadIInv, OpSound
    <2> QED
      BY <1>7, <2>1, BeginRequestIsGood DEF RestartFires
  <1>8. CASE Respond(p)                BY <1>8, RespondIsGood
  <1>9. CASE Receive(p)                BY <1>9, ReceiveIsGood
  <1>10. CASE NetworkFinished(p)       BY <1>10, NetworkFinishedIsGood
  <1>11. CASE HashFile(p)              BY <1>11, HashFileIsGood
  <1>12. CASE VerificationFinished(p)  BY <1>12, VerificationFinishedIsGood
  <1> QED
    BY <1>1, <1>2, <1>3, <1>4, <1>5, <1>6, <1>7, <1>8, <1>9, <1>10, <1>11, <1>12 DEF Step

\* What is not a step of an operation is one of the user on the model file alone.
LEMMA DownloadSteps ==
    ASSUME DownloadIInv, DlNext
    PROVE  \/ \E p \in Process : GoodStep(p)
           \/ RemoveFile \/ CopyIn
  BY OperationSteps, ProcessAssumption DEF DlNext

\* The user's changes of the model file leave every operation what it relies on.
LEMMA FileChangesKeep == ASSUME DownloadIInv, RemoveFile \/ CopyIn PROVE DownloadIInv'
  <1>1. final' \in Content \ {"corrupt", "published"} /\ UNCHANGED <<part, lock, op>>
    BY DEF RemoveFile, CopyIn, Content
  <1>2. ASSUME NEW p \in Process PROVE OpSound(p)'
    BY <1>1 DEF DownloadIInv, OpSound, Whole
  <1> QED
    BY <1>1, <1>2 DEF DownloadIInv, DlTypeOK, PartIsPrefix, InstalledIsWhole

LEMMA DownloadKept == DownloadIInv /\ [DlNext]_dlVars => DownloadIInv'
  <1> SUFFICES ASSUME DownloadIInv, [DlNext]_dlVars PROVE DownloadIInv'
    OBVIOUS
  <1>1. CASE DlNext
    BY <1>1, DownloadSteps, GoodStepKeeps, FileChangesKeep
  <1>2. CASE UNCHANGED dlVars
    BY <1>2 DEF dlVars, DownloadIInv, DlTypeOK, PartIsPrefix, InstalledIsWhole, OpSound, Whole
  <1> QED
    BY <1>1, <1>2

\* What a process relies on after it has looked at the files of a download stays true until it acts on
\* it, for any processes that share the directory.
THEOREM DownloadInvariant == DlSpec => []DownloadIInv
  <1> QED
    BY DownloadStarts, DownloadKept, PTL DEF DlSpec

\* The files of a download are right at any time: the part is a prefix whichever server answers and
\* whoever resumes it (validateResponseHeaders, handleReadyRead), only the lock's holder has a request or
\* a reader (acquireDownloadLock), and what is renamed is what was verified (commitVerifiedPart).
THEOREM DownloadsAreRight == DlSpec => []DownloadInv
  <1>1. DownloadIInv => DownloadInv
    BY DEF DownloadIInv, DownloadInv, OpSound, LockGuardsFiles
  <1> QED
    BY <1>1, DownloadInvariant, PTL

\* No download removes or replaces the model that another one published while it waited, verified or
\* retried: only the user does (inspectLockedFiles and handleVerificationFinished against removeModel).
THEOREM PublishedModelStays == DlSpec => PublishedKept
  <1>1. DownloadIInv /\ [DlNext]_dlVars
          => [final = "published" /\ ~RemoveFile => final' = "published"]_dlVars
    <2> SUFFICES ASSUME DownloadIInv, DlNext, final = "published", ~RemoveFile
                 PROVE  final' = "published"
      BY DEF dlVars
    <2>1. CASE \E p \in Process : GoodStep(p)
      BY <2>1 DEF GoodStep
    <2>2. CASE CopyIn
      BY <2>2 DEF CopyIn
    <2> QED
      BY <2>1, <2>2, DownloadSteps
  <1> QED
    BY <1>1, DownloadInvariant, PTL DEF DlSpec, PublishedKept

-----------------------------------------------------------------------------
(* The models of a desktop application. *)

\* The three places that know the default model agree, and an import has an id of its own.
ViewSound ==
    /\ default = DefaultIs(default.view)
    /\ import # "none" => ~custom.listed
    /\ use.model = "custom" => custom.listed

LibraryIInv == DownloadIInv /\ LibraryInv /\ ViewSound

-----------------------------------------------------------------------------
(* Values the handlers build. *)

\* The row after a refresh shows an operation only if it did before.
LEMMA RefreshedRow ==
    ASSUME LibTypeOK, NEW installed \in BOOLEAN
    PROVE  LET r == Refreshed(row, installed)
           IN  /\ r \in [state : RowState, installed : BOOLEAN, checked : BOOLEAN]
               /\ r.state \in Transient => r.state = row.state
  BY DEF LibTypeOK, Refreshed, SetInstalled, RowState, Transient

LEMMA InstalledRow ==
    ASSUME NEW installed \in BOOLEAN, NEW checked \in BOOLEAN
    PROVE  /\ SetInstalled(installed, checked) \in [state : RowState, installed : BOOLEAN, checked : BOOLEAN]
           /\ SetInstalled(installed, checked).state \notin Transient
  BY DEF SetInstalled, RowState, Transient

\* A default that is listed stays, and one that is not gives way to the manifest's.
LEMMA DefaultStays ==
    ASSUME LibraryIInv, NEW listed \in BOOLEAN
    PROVE  LET d == DefaultAmong(listed)
           IN  /\ d \in [view : ModelId, manager : ModelId, settings : ModelId]
               /\ d = DefaultIs(d.view)
               /\ d.view = "custom" => listed
               /\ default.view = "manifest" => d = default
               /\ listed => d = default
  BY DEF LibraryIInv, LibraryInv, LibTypeOK, ViewSound, DefaultAmong, DefaultIs, ModelId

LEMMA LibraryStarts == LibInit => LibraryIInv
  <1> SUFFICES ASSUME LibInit PROVE LibraryIInv
    OBVIOUS
  <1>1. DownloadIInv
    BY DownloadStarts DEF LibInit
  <1>2. row \in [state : RowState, installed : BOOLEAN, checked : BOOLEAN] /\ row.state \notin Transient
    BY InstalledRow DEF LibInit
  <1>3. LibTypeOK /\ ViewSound
    BY <1>2 DEF LibInit, LibTypeOK, ViewSound, NoCustom, DefaultIs, ModelId, NotUsed
  <1>4. NoGhostOperation /\ SpinnerIsReal /\ ListedIsWhole
    BY <1>2 DEF LibInit, NoGhostOperation, SpinnerIsReal, ListedIsWhole, NoCustom, DefaultIs
  <1> QED
    BY <1>1, <1>3, <1>4 DEF LibraryIInv, LibraryInv

\* The spinner may always stop, or go on while the default model and its operation stay.
LEMMA SpinnerStays ==
    ASSUME LibraryIInv, spinner' \in {spinner, FALSE}, UNCHANGED <<default, op>>
    PROVE  SpinnerIsReal' /\ spinner' \in BOOLEAN
  <1>1. spinner \in BOOLEAN /\ (spinner => default.view = "manifest" /\ op[Gui].state \in Active)
    BY DEF LibraryIInv, LibraryInv, LibTypeOK, SpinnerIsReal
  <1>2. CASE spinner' = FALSE
    BY <1>2 DEF SpinnerIsReal
  <1>3. CASE spinner' = spinner
    <2>1. spinner' \in BOOLEAN
      BY <1>1, <1>3
    <2>2. default' = default /\ op' = op
      OBVIOUS
    <2> QED
      BY <1>1, <1>3, <2>1, <2>2 DEF SpinnerIsReal
  <1> QED
    BY <1>2, <1>3

-----------------------------------------------------------------------------
(* The steps. *)

\* The row follows the application's own download through its signals: a state that shows work under way
\* is the operation's, and the end of the operation takes it away.
LEMMA DownloadKeepsLibrary == ASSUME LibraryIInv, DownloadStep PROVE LibraryIInv'
  <1>0. Gui \in Process
    BY GuiIsDesktop
  <1>1. CASE CopyIn
    <2>1. DownloadIInv'
      BY <1>1, FileChangesKeep DEF LibraryIInv
    <2>2. op' = op /\ UNCHANGED <<row, spinner, check, custom, import, default, use>>
      BY <1>1 DEF CopyIn, DownloadStep, FollowDownload
    <2> QED
      BY <2>1, <2>2 DEF LibraryIInv, LibraryInv, LibTypeOK, NoGhostOperation, SpinnerIsReal, ListedIsWhole, ViewSound
  <1>2. CASE \E p \in Process : GoodStep(p)
    <2>1. PICK p \in Process : GoodStep(p)
      BY <1>2
    <2>2. DownloadIInv'
      BY <2>1, GoodStepKeeps DEF LibraryIInv
    <2>3. /\ op[Gui] \in Operation /\ op'[Gui] \in Operation /\ final' \in Content
          /\ op'[Gui].verify # "none" => op'[Gui].state \in {"Verifying", "Cancelled"}
      BY <1>0, <2>2 DEF LibraryIInv, DownloadIInv, DlTypeOK, OpSound
    <2> DEFINE signal == op'[Gui] # op[Gui] /\ (op'[Gui].state # op[Gui].state \/ part' # part)
               ended  == op'[Gui].state \in Ended \cup {"Cancelled"} /\ op'[Gui].verify = "none"
    <2>4. /\ UNCHANGED <<check, custom, import, default, use>>
          /\ row' = IF ~signal THEN row
                    ELSE IF ended THEN SetInstalled(final' # "none", op'[Gui].state = "Completed" /\ final' # "none")
                    ELSE [row EXCEPT !.state = Shown(op'[Gui].state)]
          /\ spinner' = IF signal /\ default.view = "manifest" THEN Spins(op'[Gui]) ELSE spinner
      BY DEF DownloadStep, FollowDownload
    <2>5. ~signal => op'[Gui].state = op[Gui].state
      OBVIOUS
    <2>6. ended \in BOOLEAN /\ signal \in BOOLEAN
      OBVIOUS
    <2>7. ~ended => op'[Gui].state \in Active \cup {"Paused", "Cancelled"}
      BY <2>3 DEF Operation, OpState, Active, Ended
    <2> HIDE DEF signal, ended
    <2>8. /\ row' \in [state : RowState, installed : BOOLEAN, checked : BOOLEAN]
          /\ \/ row'.state \notin Transient
             \/ row' = row /\ op'[Gui].state = op[Gui].state
             \/ op'[Gui].state \in Active \cup {"Paused"}
      <3>1. CASE ~signal
        BY <2>4, <2>5, <3>1 DEF LibraryIInv, LibraryInv, LibTypeOK
      <3>2. CASE signal /\ ended
        BY <2>4, <3>2, InstalledRow
      <3>3. CASE signal /\ ~ended
        <4>1. row \in [state : RowState, installed : BOOLEAN, checked : BOOLEAN]
          BY DEF LibraryIInv, LibraryInv, LibTypeOK
        <4>2. Shown(op'[Gui].state) \in RowState
              /\ (Shown(op'[Gui].state) \in Transient => op'[Gui].state \in Active \cup {"Paused"})
          BY <2>7, <3>3 DEF Shown, RowState, Transient, Active
        <4> QED
          BY <2>4, <3>3, <4>1, <4>2
      <3> QED
        BY <2>6, <3>1, <3>2, <3>3
    <2>9. NoGhostOperation'
      BY <2>4, <2>8 DEF LibraryIInv, LibraryInv, NoGhostOperation
    <2>10. SpinnerIsReal' /\ spinner' \in BOOLEAN
      <3>1. spinner \in BOOLEAN /\ (spinner => default.view = "manifest" /\ op[Gui].state \in Active)
        BY DEF LibraryIInv, LibraryInv, LibTypeOK, SpinnerIsReal
      <3>2. CASE signal /\ default.view = "manifest"
        <4>1. spinner' = (op'[Gui].state \in Active) /\ default' = default
          BY <2>4, <3>2 DEF Spins
        <4>2. spinner' \in BOOLEAN
          BY <4>1
        <4>3. spinner' => op'[Gui].state \in Active
          BY <4>1
        <4> QED
          BY <3>2, <4>1, <4>2, <4>3 DEF SpinnerIsReal
      <3>3. CASE ~(signal /\ default.view = "manifest")
        <4>1. spinner' = spinner /\ default' = default
          BY <2>4, <3>3
        <4> QED
          BY <2>5, <3>1, <3>3, <4>1 DEF SpinnerIsReal
      <3> QED
        BY <3>2, <3>3
    <2> QED
      BY <2>2, <2>4, <2>8, <2>9, <2>10 DEF LibraryIInv, LibraryInv, LibTypeOK, ListedIsWhole, ViewSound
  <1>3. CopyIn \/ \E p \in Process : GoodStep(p)
    BY <1>0, OperationSteps DEF DownloadStep, LibraryIInv
  <1> QED
    BY <1>1, <1>2, <1>3

\* The view model's own check of the file shows itself on the row until it ends.
LEMMA CheckKeepsLibrary ==
    ASSUME LibraryIInv, Verify \/ CheckReads \/ CheckFinished
    PROVE  LibraryIInv'
  <1>1. UNCHANGED <<dlVars, custom, import, default, spinner, use>>
    BY DEF Verify, CheckReads, CheckFinished
  <1>2. DownloadIInv' /\ UNCHANGED op
    BY <1>1 DEF LibraryIInv, DownloadIInv, DlTypeOK, PartIsPrefix, InstalledIsWhole, OpSound, Whole, dlVars
  <1>3. /\ row' \in [state : RowState, installed : BOOLEAN, checked : BOOLEAN]
        /\ check' \in {"none", "running", "valid", "invalid", "absent"}
        /\ \/ row'.state \notin Transient \/ check' # "none"
    <2>1. CASE Verify
      BY <2>1 DEF Verify, LibraryIInv, LibraryInv, LibTypeOK, RowState, Transient
    <2>2. CASE CheckReads
      BY <2>2 DEF CheckReads, LibraryIInv, LibraryInv, LibTypeOK
    <2>3. CASE CheckFinished
      BY <2>3, InstalledRow DEF CheckFinished
    <2> QED
      BY <2>1, <2>2, <2>3
  <1> QED
    BY <1>1, <1>2, <1>3
    DEF LibraryIInv, LibraryInv, LibTypeOK, NoGhostOperation, SpinnerIsReal, ListedIsWhole, ViewSound

\* A use begins and ends with a refresh of the row, which a test also writes to.
LEMMA UseKeepsLibrary ==
    ASSUME LibraryIInv, (\E m \in ModelId, test \in BOOLEAN : Use(m, test)) \/ Unuse
    PROVE  LibraryIInv'
  <1>1. /\ UNCHANGED <<dlVars, check, custom, import>> /\ default' = DefaultAmong(custom.listed)
        /\ spinner' \in {spinner, FALSE}
    BY DEF Use, Unuse
  <1>2. DownloadIInv' /\ UNCHANGED op
    BY <1>1 DEF LibraryIInv, DownloadIInv, DlTypeOK, PartIsPrefix, InstalledIsWhole, OpSound, Whole, dlVars
  <1>3. default' = default
    <2>1. custom.listed \in BOOLEAN /\ default.view \in ModelId /\ (default.view = "custom" => custom.listed)
      BY DEF LibraryIInv, LibraryInv, LibTypeOK, ListedIsWhole
    <2> QED
      BY <1>1, <2>1, DefaultStays DEF ModelId
  <1> DEFINE r == Refreshed(row, final # "none")
  <1>4. /\ r \in [state : RowState, installed : BOOLEAN, checked : BOOLEAN]
        /\ r.state \in Transient => r.state = row.state
    BY RefreshedRow DEF LibraryIInv, LibraryInv
  <1> HIDE DEF r
  <1>5. /\ row' \in [state : RowState, installed : BOOLEAN, checked : BOOLEAN]
        /\ use' \in [model : ModelId \cup {"none"}, test : BOOLEAN]
        /\ use'.model = "custom" => custom.listed
        /\ row'.state \in Transient => \/ row'.state = row.state /\ use # [model |-> "manifest", test |-> TRUE]
                                       \/ use' = [model |-> "manifest", test |-> TRUE]
    <2>1. ASSUME NEW m \in ModelId, NEW test \in BOOLEAN, Use(m, test) PROVE <1>5!1 /\ <1>5!2 /\ <1>5!3 /\ <1>5!4
      <3>1. /\ use = NotUsed /\ use' = [model |-> m, test |-> test] /\ (m = "custom" => custom.listed)
            /\ row' = IF m = "manifest" /\ test THEN [r EXCEPT !.state = "Testing"] ELSE r
        BY <2>1 DEF Use, r, ModelId
      <3> QED
        BY <1>4, <3>1 DEF NotUsed, RowState, Transient
    <2>2. CASE Unuse
      <3>1. /\ use' = NotUsed
            /\ row' = IF use = [model |-> "manifest", test |-> TRUE]
                      THEN [r EXCEPT !.state = SetInstalled(final # "none", FALSE).state] ELSE r
        BY <2>2 DEF Unuse, r
      <3>2. SetInstalled(final # "none", FALSE).state \in RowState \ Transient
        BY DEF SetInstalled, RowState, Transient
      <3> QED
        BY <1>4, <3>1, <3>2 DEF NotUsed
    <2> QED
      BY <2>1, <2>2
  <1>6. NoGhostOperation'
    BY <1>1, <1>2, <1>5 DEF LibraryIInv, LibraryInv, NoGhostOperation
  <1>7. SpinnerIsReal' /\ spinner' \in BOOLEAN
    BY <1>1, <1>2, <1>3, SpinnerStays
  <1>8. ViewSound' /\ ListedIsWhole'
    BY <1>1, <1>3, <1>5 DEF LibraryIInv, LibraryInv, ViewSound, ListedIsWhole, DefaultIs
  <1>9. LibTypeOK'
    BY <1>1, <1>3, <1>5, <1>7 DEF LibraryIInv, LibraryInv, LibTypeOK
  <1> QED
    BY <1>2, <1>6, <1>7, <1>8, <1>9 DEF LibraryIInv, LibraryInv

\* The manifest's model goes only when no check reads it.
LEMMA RemoveManifestKeepsLibrary == ASSUME LibraryIInv, RemoveManifest PROVE LibraryIInv'
  <1>1. /\ RemoveFile /\ check = "none" /\ row' = Refreshed(row, FALSE) /\ default' = DefaultAmong(custom.listed)
        /\ UNCHANGED <<check, custom, import, spinner, use>>
    BY DEF RemoveManifest
  <1>2. DownloadIInv' /\ UNCHANGED op
    BY <1>1, FileChangesKeep DEF LibraryIInv, RemoveFile
  <1>3. default' = default
    <2>1. custom.listed \in BOOLEAN /\ default.view \in ModelId /\ (default.view = "custom" => custom.listed)
      BY DEF LibraryIInv, LibraryInv, LibTypeOK, ListedIsWhole
    <2> QED
      BY <1>1, <2>1, DefaultStays DEF ModelId
  <1>4. /\ row' \in [state : RowState, installed : BOOLEAN, checked : BOOLEAN]
        /\ row'.state \in Transient => row'.state = row.state
    BY <1>1, RefreshedRow DEF LibraryIInv, LibraryInv
  <1>5. NoGhostOperation'
    BY <1>1, <1>2, <1>4 DEF LibraryIInv, LibraryInv, NoGhostOperation
  <1>6. SpinnerIsReal' /\ spinner' \in BOOLEAN
    BY <1>1, <1>2, <1>3, SpinnerStays
  <1>7. ViewSound' /\ ListedIsWhole'
    BY <1>1, <1>3 DEF LibraryIInv, LibraryInv, ViewSound, ListedIsWhole, DefaultIs
  <1>8. LibTypeOK'
    BY <1>1, <1>3, <1>4, <1>6 DEF LibraryIInv, LibraryInv, LibTypeOK
  <1> QED
    BY <1>2, <1>5, <1>6, <1>7, <1>8 DEF LibraryIInv, LibraryInv

\* A custom model that is removed gives the default back to the manifest's, whose download may go on.
LEMMA RemoveCustomKeepsLibrary == ASSUME LibraryIInv, RemoveCustom PROVE LibraryIInv'
  <1>1. /\ custom.listed /\ use.model # "custom"
        /\ custom' = [custom EXCEPT !.bin = FALSE, !.sidecar = FALSE, !.listed = FALSE]
        /\ default' = DefaultAmong(FALSE) /\ row' = Refreshed(row, final # "none")
        /\ spinner' = IF default.view = "custom" THEN Spins(op[Gui]) ELSE spinner
        /\ UNCHANGED <<dlVars, check, import, use>>
    BY DEF RemoveCustom
  <1>2. DownloadIInv' /\ UNCHANGED op
    BY <1>1 DEF LibraryIInv, DownloadIInv, DlTypeOK, PartIsPrefix, InstalledIsWhole, OpSound, Whole, dlVars
  <1>3. /\ default' \in [view : ModelId, manager : ModelId, settings : ModelId]
        /\ default' = DefaultIs(default'.view) /\ default'.view = "manifest"
        /\ default.view = "manifest" => default' = default
    BY <1>1, DefaultStays DEF ModelId
  <1>4. /\ row' \in [state : RowState, installed : BOOLEAN, checked : BOOLEAN]
        /\ row'.state \in Transient => row'.state = row.state
    BY <1>1, RefreshedRow DEF LibraryIInv, LibraryInv
  <1>5. /\ custom' \in [staging : BOOLEAN, bin : BOOLEAN, sidecar : BOOLEAN, listed : BOOLEAN]
        /\ ~custom'.listed
    BY <1>1 DEF LibraryIInv, LibraryInv, LibTypeOK
  <1>6. NoGhostOperation'
    BY <1>1, <1>2, <1>4 DEF LibraryIInv, LibraryInv, NoGhostOperation
  <1>7. SpinnerIsReal' /\ spinner' \in BOOLEAN
    <2>1. CASE default.view = "custom"
      <3>1. spinner' = (op[Gui].state \in Active) /\ op' = op
        BY <1>1, <1>2, <2>1 DEF Spins
      <3>2. spinner' \in BOOLEAN
        BY <3>1
      <3>3. spinner' => op'[Gui].state \in Active
        BY <3>1
      <3> QED
        BY <1>3, <3>2, <3>3 DEF SpinnerIsReal
    <2>2. CASE default.view # "custom"
      <3>1. default.view = "manifest"
        BY <2>2 DEF LibraryIInv, LibraryInv, LibTypeOK, ModelId
      <3> QED
        BY <1>1, <1>2, <1>3, <2>2, <3>1, SpinnerStays
    <2> QED
      BY <2>1, <2>2
  <1>8. ViewSound'
    BY <1>1, <1>3, <1>5 DEF LibraryIInv, LibraryInv, ViewSound
  <1>9. ListedIsWhole'
    BY <1>3, <1>5 DEF ListedIsWhole, DefaultIs
  <1>10. LibTypeOK'
    BY <1>1, <1>3, <1>4, <1>5, <1>7 DEF LibraryIInv, LibraryInv, LibTypeOK
  <1> QED
    BY <1>2, <1>6, <1>7, <1>8, <1>9, <1>10 DEF LibraryIInv, LibraryInv

\* An import works on files of its own until it is listed with all of them, or gone.
LEMMA ImportKeepsLibrary ==
    ASSUME LibraryIInv, Import \/ ImportPrepares \/ ImportFinished PROVE LibraryIInv'
  <1>1. UNCHANGED <<dlVars, check, spinner, use>>
    BY DEF Import, ImportPrepares, ImportFinished
  <1>2. DownloadIInv' /\ UNCHANGED op
    BY <1>1 DEF LibraryIInv, DownloadIInv, DlTypeOK, PartIsPrefix, InstalledIsWhole, OpSound, Whole, dlVars
  <1>3. /\ custom' \in [staging : BOOLEAN, bin : BOOLEAN, sidecar : BOOLEAN, listed : BOOLEAN]
        /\ import' \in {"none", "running", "prepared", "failed"}
        /\ ~custom.listed
        /\ import' # "none" => ~custom'.listed
        /\ custom'.listed => custom'.bin /\ custom'.sidecar
        /\ default' = default \/ (default' = DefaultAmong(TRUE) /\ custom'.listed)
        /\ row' = row \/ row' = Refreshed(row, final # "none")
    <2>1. /\ custom \in [staging : BOOLEAN, bin : BOOLEAN, sidecar : BOOLEAN, listed : BOOLEAN]
          /\ import # "none" => ~custom.listed
      BY DEF LibraryIInv, LibraryInv, LibTypeOK, ViewSound
    <2>2. CASE Import
      BY <2>1, <2>2 DEF Import, NoCustom
    <2>3. CASE ImportPrepares
      <3>1. CASE import' = "prepared" /\ custom' = [custom EXCEPT !.staging = TRUE]
        BY <2>1, <2>3, <3>1 DEF ImportPrepares
      <3>2. CASE import' = "failed" /\ UNCHANGED custom
        BY <2>1, <2>3, <3>2 DEF ImportPrepares
      <3> QED
        BY <2>3, <3>1, <3>2 DEF ImportPrepares
    <2>4. CASE ImportFinished
      <3>1. CASE CommitImport
        BY <2>1, <2>4, <3>1 DEF ImportFinished, CommitImport
      <3>2. CASE custom' = NoCustom /\ UNCHANGED <<row, default>>
        BY <2>1, <2>4, <3>2 DEF ImportFinished, NoCustom
      <3> QED
        BY <2>4, <3>1, <3>2 DEF ImportFinished
    <2> QED
      BY <2>2, <2>3, <2>4
  <1>4. default' = default
    BY <1>3, DefaultStays
  <1>5. /\ row' \in [state : RowState, installed : BOOLEAN, checked : BOOLEAN]
        /\ row'.state \in Transient => row'.state = row.state
    <2>1. CASE row' = row
      BY <2>1 DEF LibraryIInv, LibraryInv, LibTypeOK
    <2>2. CASE row' = Refreshed(row, final # "none")
      BY <2>2, RefreshedRow DEF LibraryIInv, LibraryInv
    <2> QED
      BY <1>3, <2>1, <2>2
  <1>6. NoGhostOperation'
    BY <1>1, <1>2, <1>5 DEF LibraryIInv, LibraryInv, NoGhostOperation
  <1>7. SpinnerIsReal' /\ spinner' \in BOOLEAN
    BY <1>1, <1>2, <1>4, SpinnerStays
  <1>8. ViewSound' /\ ListedIsWhole'
    BY <1>1, <1>3, <1>4 DEF LibraryIInv, LibraryInv, ViewSound, ListedIsWhole, DefaultIs
  <1>9. LibTypeOK'
    BY <1>1, <1>3, <1>4, <1>5, <1>7 DEF LibraryIInv, LibraryInv, LibTypeOK
  <1> QED
    BY <1>2, <1>6, <1>7, <1>8, <1>9 DEF LibraryIInv, LibraryInv

\* The spinner shows the download of the new default model, if there is one.
LEMMA SetDefaultKeepsLibrary == ASSUME LibraryIInv, NEW m \in ModelId, SetDefault(m) PROVE LibraryIInv'
  <1>1. /\ m = "custom" => custom.listed
        /\ default' = DefaultIs(m) /\ spinner' = (m = "manifest" /\ op[Gui].state \in Active)
        /\ UNCHANGED <<dlVars, row, check, custom, import, use>>
    BY DEF SetDefault, Spins
  <1>2. DownloadIInv' /\ UNCHANGED op
    BY <1>1 DEF LibraryIInv, DownloadIInv, DlTypeOK, PartIsPrefix, InstalledIsWhole, OpSound, Whole, dlVars
  <1>3. /\ default' \in [view : ModelId, manager : ModelId, settings : ModelId]
        /\ default' = DefaultIs(default'.view) /\ default'.view = m /\ default'.manager = m /\ default'.settings = m
    BY <1>1 DEF DefaultIs
  <1>4. spinner' \in BOOLEAN
    BY <1>1
  <1>5. spinner' => m = "manifest" /\ op'[Gui].state \in Active
    BY <1>1, <1>2
  <1>6. SpinnerIsReal'
    BY <1>3, <1>5 DEF SpinnerIsReal
  <1>7. ViewSound' /\ ListedIsWhole'
    BY <1>1, <1>3 DEF LibraryIInv, LibraryInv, ViewSound, ListedIsWhole, ModelId
  <1>8. LibTypeOK' /\ NoGhostOperation'
    BY <1>1, <1>2, <1>3, <1>4 DEF LibraryIInv, LibraryInv, LibTypeOK, NoGhostOperation
  <1> QED
    BY <1>2, <1>6, <1>7, <1>8 DEF LibraryIInv, LibraryInv

\* After a crash half-way through a rename or a removal, what is found is whole, and the default is found.
LEMMA RelaunchKeepsLibrary == ASSUME LibraryIInv, Relaunch PROVE LibraryIInv'
  <1>1. /\ Finish(Gui, "None") /\ UNCHANGED <<part, final>>
        /\ row' = SetInstalled(final # "none", FALSE)
        /\ check' = "none" /\ import' = "none" /\ spinner' = FALSE /\ use' = NotUsed
    BY DEF Relaunch
  <1>2. PICK left \in LeftBehind :
          /\ custom' = [left EXCEPT !.listed = (left.bin /\ left.sidecar)]
          /\ default' = DefaultAmong(left.bin /\ left.sidecar)
    BY DEF Relaunch
  <1>3. DownloadIInv'
    <2>1. Gui \in Process /\ "None" \in OpState
      BY GuiIsDesktop DEF OpState, Ended
    <2> QED
      BY <1>1, <2>1, FinishIsGood, GoodStepKeeps DEF LibraryIInv
  <1>4. left \in [staging : BOOLEAN, bin : BOOLEAN, sidecar : BOOLEAN, listed : BOOLEAN]
    BY DEF LeftBehind, LibraryIInv, LibraryInv, LibTypeOK
  <1>5. /\ custom' \in [staging : BOOLEAN, bin : BOOLEAN, sidecar : BOOLEAN, listed : BOOLEAN]
        /\ custom'.listed = (left.bin /\ left.sidecar) /\ custom'.bin = left.bin /\ custom'.sidecar = left.sidecar
    BY <1>2, <1>4
  <1>6. /\ default' \in [view : ModelId, manager : ModelId, settings : ModelId]
        /\ default' = DefaultIs(default'.view)
        /\ default'.view = "custom" => left.bin /\ left.sidecar
    <2>1. (left.bin /\ left.sidecar) \in BOOLEAN
      OBVIOUS
    <2> QED
      BY <1>2, <2>1, DefaultStays
  <1>7. /\ row' \in [state : RowState, installed : BOOLEAN, checked : BOOLEAN]
        /\ row'.state \notin Transient
    BY <1>1, InstalledRow
  <1>8. ViewSound' /\ ListedIsWhole'
    BY <1>1, <1>5, <1>6 DEF ViewSound, ListedIsWhole, NotUsed, DefaultIs
  <1>9. LibTypeOK' /\ NoGhostOperation' /\ SpinnerIsReal'
    BY <1>1, <1>5, <1>6, <1>7 DEF LibTypeOK, NoGhostOperation, SpinnerIsReal, NotUsed
  <1> QED
    BY <1>3, <1>8, <1>9 DEF LibraryIInv, LibraryInv

LEMMA LibraryKept == LibraryIInv /\ [LibNext]_allVars => LibraryIInv'
  <1> SUFFICES ASSUME LibraryIInv, [LibNext]_allVars PROVE LibraryIInv'
    OBVIOUS
  <1>1. CASE UNCHANGED allVars
    BY <1>1
    DEF allVars, libVars, dlVars, LibraryIInv, DownloadIInv, DlTypeOK, PartIsPrefix, InstalledIsWhole, OpSound, Whole,
        LibraryInv, LibTypeOK, NoGhostOperation, SpinnerIsReal, ListedIsWhole, ViewSound, DefaultIs
  <1> QED
    BY <1>1, DownloadKeepsLibrary, CheckKeepsLibrary, UseKeepsLibrary, RemoveManifestKeepsLibrary,
       RemoveCustomKeepsLibrary, ImportKeepsLibrary, SetDefaultKeepsLibrary, RelaunchKeepsLibrary
    DEF LibNext

-----------------------------------------------------------------------------
(* The invariant, and what follows from it. *)

\* The list of models, the default model and the downloads agree, whatever order signals, refreshes,
\* checks, tests, imports and crashes come in.
THEOREM LibraryInvariant == LibSpec => []LibraryIInv
  <1> QED
    BY LibraryStarts, LibraryKept, PTL DEF LibSpec

\* A row never shows an operation that has ended (attachDownload, refreshFromService, verify), the
\* spinner only a download of the default model (refreshDefaultModelDownload), and a custom model is
\* listed or the default only with its file and its checksum (commitCustomModelImport,
\* discoverCustomModels).
THEOREM ListIsTrue == LibSpec => []LibraryInv
  <1>1. LibraryIInv => LibraryInv
    BY DEF LibraryIInv
  <1> QED
    BY <1>1, LibraryInvariant, PTL

\* Removals, restarts and further uses of the application do not disturb what the downloads rely on.
THEOREM DownloadsStayRight == LibSpec => []DownloadInv
  <1>1. LibraryIInv => DownloadInv
    BY DEF LibraryIInv, DownloadIInv, DownloadInv, OpSound, LockGuardsFiles
  <1> QED
    BY <1>1, LibraryInvariant, PTL

\* A model that a job or a test uses keeps its file: removeModel refuses it, no download replaces one
\* that was published, and the custom one cannot be imported again.
THEOREM UsedModelStays == LibSpec => UsedModelKept
  <1>1. ASSUME LibraryIInv, LibNext, use.model = "manifest", use'.model = "manifest", final = "published"
        PROVE  final' = final
    <2>1. CASE DownloadStep
      <3>1. CopyIn \/ \E p \in Process : GoodStep(p)
        BY <1>1, <2>1, GuiIsDesktop, OperationSteps DEF DownloadStep, LibraryIInv
      <3>2. ASSUME NEW p \in Process, GoodStep(p) PROVE final' = final
        BY <1>1, <3>2 DEF GoodStep
      <3>3. ~CopyIn
        BY <1>1 DEF CopyIn
      <3> QED
        BY <3>1, <3>2, <3>3
    <2>2. CASE RemoveManifest
      BY <1>1, <2>2 DEF RemoveManifest
    <2>3. CASE Relaunch
      BY <2>3 DEF Relaunch
    <2>4. CASE Verify \/ CheckReads \/ CheckFinished
      BY <2>4 DEF Verify, CheckReads, CheckFinished, dlVars
    <2>5. CASE (\E m \in ModelId, test \in BOOLEAN : Use(m, test)) \/ Unuse
      BY <2>5 DEF Use, Unuse, dlVars
    <2>6. CASE RemoveCustom \/ Import \/ ImportPrepares \/ ImportFinished \/ \E m \in ModelId : SetDefault(m)
      BY <2>6 DEF RemoveCustom, Import, ImportPrepares, ImportFinished, SetDefault, dlVars
    <2> QED
      BY <1>1, <2>1, <2>2, <2>3, <2>4, <2>5, <2>6 DEF LibNext
  <1>2. ASSUME LibraryIInv, LibraryIInv', use'.model = "custom"
        PROVE  custom'.bin
    BY <1>2 DEF LibraryIInv, LibraryInv, ViewSound, ListedIsWhole
  <1>3. LibraryIInv /\ LibraryIInv' /\ [LibNext]_allVars
          => [/\ use.model = "manifest" /\ use'.model = "manifest" /\ final = "published" => final' = final
              /\ use.model = "custom" /\ use'.model = "custom" => custom'.bin]_allVars
    BY <1>1, <1>2
  <1> QED
    BY <1>3, LibraryInvariant, PTL DEF LibSpec, UsedModelKept

=============================================================================
