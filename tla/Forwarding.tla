----------------------------- MODULE Forwarding -----------------------------
(***************************************************************************)
(* Several launches of the desktop application and command lines beside    *)
(* it: the lock and the endpoint that make one launch the instance, what   *)
(* later launches and command lines hand over to it, and the forwarded     *)
(* transcriptions that wait in it for the import of their file.            *)
(***************************************************************************)
EXTENDS Naturals, FiniteSets

CONSTANTS App,          \* launches of the application
          Cmd,          \* command lines
          File, None,
          MaxImports    \* bound: copies of a file under way at a time

ASSUME ForwardingAssumption ==
    MaxImports \in Nat /\ None \notin App /\ App \cap Cmd = {} /\ IsFiniteSet(Cmd)

VARIABLES
    lock,       \* the launch that holds the lock file
    endpoint,   \* the launch whose socket has the endpoint's name; it may have crashed
    app,        \* how far the launches are
    inbox,      \* requests an instance has not read yet
    answered,   \* launches whose activation was answered
    cli,        \* the command lines
    ran,        \* how often each request was carried out, by an instance or a command line
    recorded,   \* files of which the library has a recording that is not in the trash
    pending,    \* pendingForwardedTranscriptions
    importing,  \* copies the instance is making
    timers,     \* ForwardedImportTimeoutMs timers that are running
    asked, jobs \* transcriptions an instance accepted of a file, and the jobs queued for them

instanceVars == <<lock, endpoint, app, inbox, answered>>
libraryVars  == <<recorded, pending, importing, timers, asked, jobs>>
forwardVars  == <<instanceVars, cli, ran, libraryVars>>

Phase == {"none", "launched", "locking", "cleared", "starting", "ready", "closing", "withdrawn",
          "connecting", "waiting", "forwarded", "failed", "ended"}
Kind  == {"transcribe", "import", "list"}

MaximumUnavailableAttempts == 3

CommandLine == [kind : Kind, file : File,
                at : {"idle", "connecting", "waiting", "done"},
                attempts : 0 .. MaximumUnavailableAttempts - 1,
                reply  : {"none", "retryable", "handled", "declined"},
                result : {"none", "completed", "local", "indeterminate"}]   \* local: canExecuteLocally

Alive(p)   == app[p] \notin {"none", "forwarded", "failed", "ended"}
Listens(p) == app[p] \in {"starting", "ready", "closing"}
Reads(p)   == app[p] \in {"starting", "ready"}

ForwardingTypeOK ==
    /\ lock \in App \cup {None} /\ endpoint \in App \cup {None}
    /\ app \in [App -> Phase]
    /\ inbox \in [App -> SUBSET (App \cup Cmd)] /\ \A p \in App : inbox[p] # {} => Listens(p)
    /\ answered \subseteq App
    /\ cli \in [Cmd -> CommandLine]
    /\ ran \in [App \cup Cmd -> 0 .. 2]
    /\ recorded \subseteq File /\ pending \subseteq File
    /\ importing \in [File -> 0 .. MaxImports]
    /\ timers \in [File -> 0 .. Cardinality(Cmd)]
    /\ asked \in [File -> 0 .. Cardinality(Cmd)] /\ \A f \in File : jobs[f] \in Nat

ForwardingInit ==
    /\ lock = None /\ endpoint = None
    /\ app = [p \in App |-> "none"] /\ inbox = [p \in App |-> {}] /\ answered = {}
    /\ cli \in [Cmd -> [kind : Kind, file : File, at : {"idle"}, attempts : {0},
                        reply : {"none"}, result : {"none"}]]
    /\ ran = [x \in App \cup Cmd |-> 0]
    /\ recorded = {} /\ pending = {}
    /\ importing = [f \in File |-> 0] /\ timers = [f \in File |-> 0]
    /\ asked = [f \in File |-> 0] /\ jobs = [f \in File |-> 0]

Goto(p, phase) == app' = [app EXCEPT ![p] = phase]

-----------------------------------------------------------------------------
(* Launches: SingleInstanceGuard in the order of main. *)

Launch(p) ==
    /\ app[p] = "none" /\ Goto(p, "launched")
    /\ UNCHANGED <<lock, endpoint, inbox, answered, cli, ran, libraryVars>>

\* acquire: tryLock; the lock file of a process that died does not count.
TryLock(p) ==
    /\ app[p] = "launched"
    /\ IF lock = None THEN lock' = p /\ Goto(p, "locking") ELSE Goto(p, "connecting") /\ UNCHANGED lock
    /\ UNCHANGED <<endpoint, inbox, answered, cli, ran, libraryVars>>

\* startPrimary: removeServer, then listen
StartPrimary(p) ==
    /\ \/ app[p] = "locking" /\ endpoint' = None /\ Goto(p, "cleared") /\ UNCHANGED lock
       \/ app[p] = "cleared" /\ endpoint = None /\ endpoint' = p /\ Goto(p, "starting") /\ UNCHANGED lock
    /\ UNCHANGED <<inbox, answered, cli, ran, libraryVars>>

\* setCommandHandler and exec
Compose(p) ==
    /\ app[p] = "starting" /\ Goto(p, "ready")
    /\ UNCHANGED <<lock, endpoint, inbox, answered, cli, ran, libraryVars>>

\* What the application had in memory is gone.
Forgotten ==
    /\ pending' = {} /\ importing' = [f \in File |-> 0] /\ timers' = [f \in File |-> 0]
    /\ UNCHANGED <<recorded, asked, jobs>>

\* The event loop ends, or the interface could not be loaded.
Quit(p) ==
    /\ Reads(p) /\ Goto(p, "closing") /\ Forgotten
    /\ UNCHANGED <<lock, endpoint, inbox, answered, cli, ran>>

\* Mutant: the lock is given up before the endpoint is withdrawn.
EndPrimaryUnlocking(p) ==
    /\ \/ app[p] = "closing" /\ lock' = None /\ inbox' = [inbox EXCEPT ![p] = {}]
          /\ Goto(p, "withdrawn") /\ UNCHANGED endpoint
       \/ app[p] = "withdrawn" /\ endpoint' = None /\ Goto(p, "ended") /\ UNCHANGED <<lock, inbox>>
    /\ UNCHANGED <<answered, cli, ran, libraryVars>>

\* ~SingleInstanceGuard: the connections and the server are closed, the name is removed whosever it is,
\* then the lock is released.
EndPrimary(p) ==
    /\ \/ app[p] = "closing" /\ endpoint' = None /\ inbox' = [inbox EXCEPT ![p] = {}]
          /\ Goto(p, "withdrawn") /\ UNCHANGED lock
       \/ app[p] = "withdrawn" /\ lock' = None /\ Goto(p, "ended") /\ UNCHANGED <<endpoint, inbox>>
    /\ UNCHANGED <<answered, cli, ran, libraryVars>>

\* The name of the endpoint stays behind.
Crash(p) ==
    /\ Alive(p) /\ Goto(p, "ended")
    /\ lock' = IF lock = p THEN None ELSE lock
    /\ inbox' = [inbox EXCEPT ![p] = {}]
    /\ IF Reads(p) THEN Forgotten ELSE UNCHANGED libraryVars
    /\ UNCHANGED <<endpoint, answered, cli, ran>>

Reachable == endpoint # None /\ Listens(endpoint)

\* forwardToPrimary sends one activation.
Activate(p) ==
    /\ app[p] = "connecting" /\ Reachable
    /\ inbox' = [inbox EXCEPT ![endpoint] = @ \cup {p}] /\ Goto(p, "waiting")
    /\ UNCHANGED <<lock, endpoint, answered, cli, ran, libraryVars>>

\* It is confirmed, or the time for it is over.
ActivationEnds(p) ==
    /\ \/ app[p] = "waiting" /\ p \in answered /\ Goto(p, "forwarded")
       \/ app[p] \in {"connecting", "waiting"} /\ Goto(p, "failed")
    /\ UNCHANGED <<lock, endpoint, inbox, answered, cli, ran, libraryVars>>

\* readSocket: activationRequested reaches the window once main has connected it.
ReadActivation(s, p) ==
    /\ Reads(s) /\ p \in inbox[s]
    /\ inbox' = [inbox EXCEPT ![s] = @ \ {p}]
    /\ answered' = answered \cup {p}
    /\ ran' = IF app[s] = "ready" THEN [ran EXCEPT ![p] = @ + 1] ELSE ran
    /\ UNCHANGED <<lock, endpoint, app, cli, libraryVars>>

-----------------------------------------------------------------------------
(* Command lines: ApplicationCommandClient::forward. *)

Become(c, rec) == cli' = [cli EXCEPT ![c] = rec]

Done(c, result) == Become(c, [cli[c] EXCEPT !.at = "done", !.attempts = 0, !.reply = "none",
                                            !.result = result])

Start(c) ==
    /\ cli[c].at = "idle"
    /\ \/ Become(c, [cli[c] EXCEPT !.at = "connecting"])
       \/ Done(c, "local")     \* --headless
    /\ UNCHANGED <<instanceVars, ran, libraryVars>>

\* Nobody listens, or the connection takes too long.
ConnectFails(c) ==
    /\ cli[c].at = "connecting"
    /\ IF cli[c].attempts + 1 >= MaximumUnavailableAttempts
       THEN Done(c, "local")
       ELSE Become(c, [cli[c] EXCEPT !.attempts = @ + 1])
    /\ UNCHANGED <<instanceVars, ran, libraryVars>>

Send(c) ==
    /\ cli[c].at = "connecting" /\ Reachable
    /\ inbox' = [inbox EXCEPT ![endpoint] = @ \cup {c}]
    /\ Become(c, [cli[c] EXCEPT !.at = "waiting", !.reply = "none"])
    /\ UNCHANGED <<lock, endpoint, app, answered, ran, libraryVars>>

\* After "retryable" the command is sent again if there is time for another answer.
ReadReply(c) ==
    /\ cli[c].at = "waiting"
    /\ \/ /\ cli[c].reply = "retryable"
          /\ \/ Become(c, [cli[c] EXCEPT !.at = "connecting", !.reply = "none"])
             \/ Done(c, "local")
       \/ cli[c].reply = "handled" /\ Done(c, "completed")
       \/ cli[c].reply = "declined" /\ Done(c, "local")
    /\ UNCHANGED <<instanceVars, ran, libraryVars>>

\* Mutant: a request without an answer counts as not delivered.
GiveUpAsUnavailable(c) ==
    /\ \/ cli[c].at = "connecting" /\ Done(c, "local")
       \/ cli[c].at = "waiting" /\ Done(c, "local")
    /\ UNCHANGED <<instanceVars, ran, libraryVars>>

\* The time is over, or the instance closed the connection; a request that was written may be carried out.
GiveUp(c) ==
    /\ \/ cli[c].at = "connecting" /\ Done(c, "local")
       \/ cli[c].at = "waiting" /\ Done(c, "indeterminate")
    /\ UNCHANGED <<instanceVars, ran, libraryVars>>

\* The command line carries its command out itself: importFiles, transcribeFile and the rest.
RunLocally(c) ==
    /\ cli[c].at = "done" /\ cli[c].result = "local"
    /\ Done(c, "none")
    /\ ran' = [ran EXCEPT ![c] = @ + 1]
    /\ \/ cli[c].kind # "list" /\ recorded' = recorded \cup {cli[c].file}
       \/ UNCHANGED recorded
    /\ UNCHANGED <<instanceVars, pending, importing, timers, asked, jobs>>

-----------------------------------------------------------------------------
(* The instance: the library, as l, and the commands forwarded to it. *)

Library == [recorded |-> recorded, pending |-> pending, importing |-> importing, timers |-> timers,
            asked |-> asked, jobs |-> jobs]

LibraryIs(l) ==
    /\ recorded' = l.recorded /\ pending' = l.pending /\ importing' = l.importing
    /\ timers' = l.timers /\ asked' = l.asked /\ jobs' = l.jobs

\* recordingImported: a file that waits is queued, if the queue takes it.
Entered(l, f, ok) ==
    [l EXCEPT !.recorded = @ \cup {f}, !.pending = @ \ {f},
              !.jobs = IF f \in l.pending /\ ok THEN [l.jobs EXCEPT ![f] = l.jobs[f] + 1] ELSE l.jobs]

\* importUrls of one file: entered by reference, copied by a thread, or refused
Imported(l, f, ok) ==
    {Entered(l, f, ok), l} \cup
    (IF l.importing[f] < MaxImports THEN {[l EXCEPT !.importing[f] = @ + 1]} ELSE {})

\* "transcribe": queue it, wait for the import under way, or import the file and wait
Transcribed(l, f, ok) ==
    LET a == [l EXCEPT !.asked[f] = @ + 1]
        w == [a EXCEPT !.pending = @ \cup {f}]
    IN  IF f \in l.recorded THEN {IF ok THEN [a EXCEPT !.jobs[f] = @ + 1] ELSE l}
        ELSE IF f \in l.pending THEN {a}
        ELSE {l} \cup {[i EXCEPT !.timers[f] = @ + 1] : i \in Imported(w, f, ok) \ {w}}

\* readSocket: without a handler the command is not looked at.
ReadCommand(s, c) ==
    /\ Reads(s) /\ c \in inbox[s]
    /\ inbox' = [inbox EXCEPT ![s] = @ \ {c}]
    /\ LET handled == app[s] = "ready" /\ cli[c].kind # "list"
           reply   == IF app[s] # "ready" THEN "retryable" ELSE IF handled THEN "handled" ELSE "declined"
       IN  /\ cli' = IF cli[c].at = "waiting" THEN [cli EXCEPT ![c].reply = reply] ELSE cli
           /\ ran' = IF handled THEN [ran EXCEPT ![c] = @ + 1] ELSE ran
           /\ IF ~handled THEN UNCHANGED libraryVars
              ELSE \E ok \in BOOLEAN :
                     \E l \in IF cli[c].kind = "import" THEN Imported(Library, cli[c].file, ok)
                              ELSE Transcribed(Library, cli[c].file, ok) : LibraryIs(l)
    /\ UNCHANGED <<lock, endpoint, app, answered>>

InstanceIsReady == \E p \in App : app[p] = "ready"

\* The user imports a file, or moves its recordings to the trash.
UserImports(f) ==
    /\ InstanceIsReady
    /\ \E ok \in BOOLEAN : \E l \in Imported(Library, f, ok) : LibraryIs(l)
    /\ UNCHANGED <<instanceVars, cli, ran>>

MoveToTrash(f) ==
    /\ InstanceIsReady /\ f \in recorded
    /\ recorded' = recorded \ {f}
    /\ UNCHANGED <<instanceVars, cli, ran, pending, importing, timers, asked, jobs>>

\* The handler of a finished copy enters the recording, or tells of the failure.
CopyFinishes(f) ==
    /\ importing[f] > 0
    /\ LET l == [Library EXCEPT !.importing[f] = @ - 1]
       IN  LibraryIs(l) \/ \E ok \in BOOLEAN : LibraryIs(Entered(l, f, ok))
    /\ UNCHANGED <<instanceVars, cli, ran>>

TimerFires(f) ==
    /\ timers[f] > 0
    /\ timers' = [timers EXCEPT ![f] = @ - 1]
    /\ pending' = pending \ {f}
    /\ UNCHANGED <<instanceVars, cli, ran, recorded, importing, asked, jobs>>

ForwardingNext ==
    \/ \E p \in App : \/ Launch(p) \/ TryLock(p) \/ StartPrimary(p) \/ Compose(p) \/ Quit(p)
                      \/ EndPrimary(p) \/ Crash(p) \/ Activate(p) \/ ActivationEnds(p)
                      \/ \E q \in App : ReadActivation(p, q)
                      \/ \E c \in Cmd : ReadCommand(p, c)
    \/ \E c \in Cmd : Start(c) \/ ConnectFails(c) \/ Send(c) \/ ReadReply(c) \/ GiveUp(c) \/ RunLocally(c)
    \/ \E f \in File : UserImports(f) \/ MoveToTrash(f) \/ CopyFinishes(f) \/ TimerFires(f)

ForwardingSpec == ForwardingInit /\ [][ForwardingNext]_forwardVars

-----------------------------------------------------------------------------
(* Properties. *)

\* The endpoint is the instance's: a launch that cleared the name of a crashed instance finds it free, and
\* an instance that quits late does not take the name from its successor, who could not be reached then.
EndpointIsPrimarys ==
    \A p \in App : /\ app[p] = "cleared" => endpoint = None
                   /\ app[p] \in {"starting", "ready", "closing"} => endpoint = p

\* A request is carried out at most once, by the instance or by the command line itself, however late the
\* instance reads it, whoever crashes and whichever answers are lost; a confirmed one has been carried out.
RunsOnce ==
    /\ \A x \in App \cup Cmd : ran[x] <= 1
    /\ \A c \in Cmd : cli[c].result = "completed" => ran[c] = 1

\* Forwarded transcriptions of a file queue no more jobs than were asked for, whichever imports of the
\* file, forwarded or not, end in whatever order.
JobsAreAskedFor == \A f \in File : jobs[f] <= asked[f]

\* A file does not wait for its import for ever, whether that ends, fails or never began: while it waits,
\* further requests for it are accepted and start nothing. A timer runs that ends the waiting.
WaitingIsTimed == \A f \in pending : timers[f] > 0

\* What instances, their endpoint and the files that wait rely on.
ForwardingInv == ForwardingTypeOK /\ EndpointIsPrimarys /\ JobsAreAskedFor /\ WaitingIsTimed
=============================================================================
