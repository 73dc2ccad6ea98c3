-------------------------- MODULE ForwardingProofs --------------------------
(***************************************************************************)
(* Proofs about launches, command lines and the instance: for every number *)
(* of launches, files and copies, and any finite set of command lines. The *)
(* inductive invariant has three parts, each proved from those before it:  *)
(* who the instance is, where each request is, and what waits for imports. *)
(***************************************************************************)
EXTENDS Forwarding, FiniteSetTheorems, TLAPS

\* Between tryLock and the release of the lock.
HasLock(p) == app[p] \in {"locking", "cleared", "starting", "ready", "closing", "withdrawn"}

InstanceIInv ==
    /\ lock \in App \cup {None} /\ endpoint \in App \cup {None} /\ app \in [App -> Phase]
    /\ \A p \in App : HasLock(p) => lock = p
    /\ EndpointIsPrimarys

\* A request that an instance has yet to read waits in one place and has not been carried out.
InboxSound ==
    /\ inbox \in [App -> SUBSET (App \cup Cmd)] /\ answered \subseteq App
    /\ \A p \in App : inbox[p] # {} => Listens(p)
    /\ \A p, q \in App : \A x \in inbox[p] : ran[x] = 0 /\ (x \in inbox[q] => p = q)

\* A launch that may still send its activation has not sent it.
LaunchSound(p) ==
    app[p] \in {"none", "launched", "connecting"} => ran[p] = 0 /\ \A s \in App : p \notin inbox[s]

\* Where a command line that has a request under way, or may still send or carry out its command, is with
\* respect to what was done of it.
CommandSound(c) ==
    /\ (\E s \in App : c \in inbox[s]) => \/ cli[c].at = "waiting" /\ cli[c].reply = "none"
                                          \/ cli[c].at = "done" /\ cli[c].result = "indeterminate"
    /\ cli[c].at # "done" => cli[c].result = "none"
    /\ cli[c].at \in {"idle", "connecting"} => ran[c] = 0
    /\ cli[c].at = "waiting" => (ran[c] = 1 <=> cli[c].reply = "handled")
    /\ cli[c].result = "local" => ran[c] = 0
    /\ cli[c].result = "completed" => ran[c] = 1

RequestIInv ==
    /\ InboxSound
    /\ cli \in [Cmd -> CommandLine] /\ ran \in [App \cup Cmd -> 0 .. 1]
    /\ \A p \in App : LaunchSound(p)
    /\ \A c \in Cmd : CommandSound(c)

\* The library as a value: of n requests that were carried out, no file was asked for more often; a file
\* that waits was asked for once more than it was queued; and a timer runs for it.
LibraryQueued(l, n) ==
    /\ l \in [recorded : SUBSET File, pending : SUBSET File, importing : [File -> 0 .. MaxImports],
              timers : [File -> Nat], asked : [File -> Nat], jobs : [File -> Nat]]
    /\ \A f \in File : /\ l.asked[f] <= n /\ l.jobs[f] <= l.asked[f]
                       /\ f \in l.pending => l.jobs[f] < l.asked[f]

LibraryTimed(l) == \A f \in File : /\ l.timers[f] <= l.asked[f]
                                   /\ f \in l.pending => l.timers[f] > 0

LibraryGood(l, n) == LibraryQueued(l, n) /\ LibraryTimed(l)

Ran == {c \in Cmd : ran[c] = 1}

LibraryIInv == LibraryGood(Library, Cardinality(Ran))

ForwardingIInv == InstanceIInv /\ RequestIInv /\ LibraryIInv

-----------------------------------------------------------------------------
(* Who the instance is. *)

LEMMA InstanceStarts == ForwardingInit => InstanceIInv
  BY ForwardingAssumption DEF ForwardingInit, InstanceIInv, Phase, HasLock, EndpointIsPrimarys

\* The lock is taken when it is free, and only its holder changes whose endpoint it is.
LEMMA LaunchKeepsInstance ==
    ASSUME InstanceIInv, NEW p \in App,
           Launch(p) \/ TryLock(p) \/ StartPrimary(p) \/ Compose(p) \/ Quit(p) \/ EndPrimary(p) \/ Crash(p)
    PROVE  InstanceIInv'
  <1>1. CASE Launch(p)
    BY <1>1 DEF Launch, Goto, InstanceIInv, HasLock, EndpointIsPrimarys, Phase
  <1>2. CASE TryLock(p)
    BY <1>2, ForwardingAssumption DEF TryLock, Goto, InstanceIInv, HasLock, EndpointIsPrimarys, Phase
  <1>3. CASE StartPrimary(p)
    BY <1>3, ForwardingAssumption DEF StartPrimary, Goto, InstanceIInv, HasLock, EndpointIsPrimarys, Phase
  <1>4. CASE Compose(p)
    BY <1>4 DEF Compose, Goto, InstanceIInv, HasLock, EndpointIsPrimarys, Phase
  <1>5. CASE Quit(p)
    BY <1>5 DEF Quit, Reads, Goto, InstanceIInv, HasLock, EndpointIsPrimarys, Phase
  <1>6. CASE EndPrimary(p)
    BY <1>6, ForwardingAssumption DEF EndPrimary, Goto, InstanceIInv, HasLock, EndpointIsPrimarys, Phase
  <1>7. CASE Crash(p)
    BY <1>7, ForwardingAssumption DEF Crash, Goto, InstanceIInv, HasLock, EndpointIsPrimarys, Phase
  <1> QED
    BY <1>1, <1>2, <1>3, <1>4, <1>5, <1>6, <1>7

LEMMA InstanceKept == InstanceIInv /\ [ForwardingNext]_forwardVars => InstanceIInv'
  <1> SUFFICES ASSUME InstanceIInv, [ForwardingNext]_forwardVars PROVE InstanceIInv'
    OBVIOUS
  <1>1. CASE UNCHANGED <<lock, endpoint, app>>
    BY <1>1 DEF InstanceIInv, HasLock, EndpointIsPrimarys
  <1>2. ASSUME NEW p \in App, Activate(p) \/ ActivationEnds(p) PROVE InstanceIInv'
    BY <1>2 DEF Activate, ActivationEnds, Goto, InstanceIInv, HasLock, EndpointIsPrimarys, Phase
  <1>3. ASSUME NEW p \in App, (\E q \in App : ReadActivation(p, q)) \/ (\E c \in Cmd : ReadCommand(p, c))
        PROVE  UNCHANGED <<lock, endpoint, app>>
    BY <1>3 DEF ReadActivation, ReadCommand
  <1>4. ASSUME NEW c \in Cmd,
               Start(c) \/ ConnectFails(c) \/ Send(c) \/ ReadReply(c) \/ GiveUp(c) \/ RunLocally(c)
        PROVE  UNCHANGED <<lock, endpoint, app>>
    BY <1>4 DEF Start, ConnectFails, Send, ReadReply, GiveUp, RunLocally, instanceVars
  <1>5. ASSUME NEW f \in File, UserImports(f) \/ MoveToTrash(f) \/ CopyFinishes(f) \/ TimerFires(f)
        PROVE  UNCHANGED <<lock, endpoint, app>>
    BY <1>5 DEF UserImports, MoveToTrash, CopyFinishes, TimerFires, instanceVars
  <1>6. CASE UNCHANGED forwardVars
    BY <1>1, <1>6 DEF forwardVars, instanceVars
  <1> QED
    BY <1>1, <1>2, <1>3, <1>4, <1>5, <1>6, LaunchKeepsInstance DEF ForwardingNext

-----------------------------------------------------------------------------
(* Where each request is. *)

LEMMA RequestsStart == ForwardingInit => RequestIInv
  <1> SUFFICES ASSUME ForwardingInit PROVE RequestIInv
    OBVIOUS
  <1>1. cli \in [Cmd -> CommandLine]
    BY DEF ForwardingInit, CommandLine, MaximumUnavailableAttempts
  <1>2. \A c \in Cmd : cli[c].at = "idle" /\ cli[c].result = "none"
    BY DEF ForwardingInit
  <1>3. InboxSound /\ ran \in [App \cup Cmd -> 0 .. 1]
    BY DEF ForwardingInit, InboxSound
  <1>4. \A p \in App : LaunchSound(p)
    BY DEF ForwardingInit, LaunchSound
  <1>5. \A c \in Cmd : CommandSound(c)
    BY <1>2 DEF ForwardingInit, CommandSound
  <1> QED
    BY <1>1, <1>3, <1>4, <1>5 DEF RequestIInv

\* A launch goes its way; when it ends it drops what it has not read.
LEMMA LaunchKeepsRequests ==
    ASSUME InstanceIInv, RequestIInv, NEW p \in App,
           \/ Launch(p) \/ TryLock(p) \/ StartPrimary(p) \/ Compose(p) \/ Quit(p) \/ EndPrimary(p) \/ Crash(p)
           \/ ActivationEnds(p)
    PROVE  RequestIInv'
  <1>1. /\ UNCHANGED <<cli, ran, answered>>
        /\ inbox' = inbox \/ inbox' = [inbox EXCEPT ![p] = {}]
        /\ \A q \in App : q # p => app'[q] = app[q]
        /\ app'[p] \in {"none", "launched", "connecting"} => app[p] \in {"none", "launched", "connecting"}
        /\ Listens(p)' \/ inbox'[p] = {} \/ ~Listens(p)
    BY DEF InstanceIInv, RequestIInv, InboxSound, Launch, TryLock, StartPrimary, Compose, Quit, EndPrimary, Crash,
           ActivationEnds, Goto, Listens, Reads
  <1>2. /\ inbox' \in [App -> SUBSET (App \cup Cmd)]
        /\ \A q \in App : inbox'[q] \subseteq inbox[q]
    BY <1>1 DEF RequestIInv, InboxSound
  <1>3. ASSUME NEW q \in App, inbox'[q] # {} PROVE Listens(q)'
    BY <1>1, <1>2, <1>3 DEF RequestIInv, InboxSound, Listens
  <1>4. InboxSound'
    BY <1>1, <1>2, <1>3 DEF RequestIInv, InboxSound
  <1>5. ASSUME NEW q \in App PROVE LaunchSound(q)'
    BY <1>1, <1>2 DEF RequestIInv, LaunchSound
  <1>6. ASSUME NEW c \in Cmd PROVE CommandSound(c)'
    BY <1>1, <1>2 DEF RequestIInv, CommandSound
  <1> QED
    BY <1>1, <1>4, <1>5, <1>6 DEF RequestIInv

\* An activation is sent once, to one instance.
LEMMA ActivateKeepsRequests ==
    ASSUME InstanceIInv, RequestIInv, NEW p \in App, Activate(p) PROVE RequestIInv'
  <1>1. /\ endpoint \in App /\ Listens(endpoint) /\ app[p] = "connecting" /\ endpoint # p
        /\ inbox' = [inbox EXCEPT ![endpoint] = @ \cup {p}] /\ app' = [app EXCEPT ![p] = "waiting"]
        /\ UNCHANGED <<answered, cli, ran>>
    BY DEF Activate, Reachable, Goto, InstanceIInv, Listens
  <1>2. ran[p] = 0 /\ \A s \in App : p \notin inbox[s]
    BY <1>1 DEF RequestIInv, LaunchSound
  <1>3. InboxSound'
    <2>1. inbox' \in [App -> SUBSET (App \cup Cmd)]
      BY <1>1 DEF RequestIInv, InboxSound
    <2>2. \A q \in App : Listens(q) => Listens(q)'
      BY <1>1 DEF Listens, InstanceIInv
    <2>3. \A q \in App : \A x \in inbox'[q] : x \in inbox[q] \/ (x = p /\ q = endpoint)
      BY <1>1 DEF RequestIInv, InboxSound
    <2>4. \A q \in App : inbox'[q] # {} => Listens(q)'
      BY <1>1, <2>2, <2>3 DEF RequestIInv, InboxSound
    <2>5. ASSUME NEW q \in App, NEW r \in App, NEW x \in inbox'[q]
          PROVE  ran'[x] = 0 /\ (x \in inbox'[r] => q = r)
      BY <1>1, <1>2, <2>3 DEF RequestIInv, InboxSound
    <2> QED
      BY <1>1, <2>1, <2>4, <2>5 DEF RequestIInv, InboxSound
  <1>4. ASSUME NEW q \in App PROVE LaunchSound(q)'
    BY <1>1 DEF RequestIInv, LaunchSound, InstanceIInv, InboxSound
  <1>5. ASSUME NEW c \in Cmd PROVE CommandSound(c)'
    <2>1. \A s \in App : c \in inbox'[s] => c \in inbox[s]
      BY <1>1, ForwardingAssumption DEF RequestIInv, InboxSound
    <2> QED
      BY <1>1, <2>1 DEF RequestIInv, CommandSound
  <1> QED
    BY <1>1, <1>3, <1>4, <1>5 DEF RequestIInv

\* An activation is taken out of the inbox as it reaches the window.
LEMMA ReadActivationKeepsRequests ==
    ASSUME InstanceIInv, RequestIInv, NEW s \in App, NEW p \in App, ReadActivation(s, p) PROVE RequestIInv'
  <1>1. /\ p \in inbox[s] /\ inbox' = [inbox EXCEPT ![s] = @ \ {p}] /\ answered' = answered \cup {p}
        /\ ran' = ran \/ ran' = [ran EXCEPT ![p] = @ + 1]
        /\ UNCHANGED <<app, cli>>
    BY DEF ReadActivation
  <1>2. ran[p] = 0 /\ \A q \in App : p \notin inbox'[q]
    BY <1>1 DEF RequestIInv, InboxSound
  <1>3. ran' \in [App \cup Cmd -> 0 .. 1] /\ \A x \in App \cup Cmd : x # p => ran'[x] = ran[x]
    BY <1>1, <1>2 DEF RequestIInv
  <1>4. inbox' \in [App -> SUBSET (App \cup Cmd)] /\ \A q \in App : inbox'[q] \subseteq inbox[q]
    BY <1>1 DEF RequestIInv, InboxSound
  <1>5. InboxSound'
    <2>1. ASSUME NEW q \in App, NEW r \in App, NEW x \in inbox'[q]
          PROVE  ran'[x] = 0 /\ (x \in inbox'[r] => q = r)
      <3>1. x \in inbox[q] /\ x # p /\ x \in App \cup Cmd
        BY <1>2, <1>4
      <3> QED
        BY <1>3, <1>4, <3>1 DEF RequestIInv, InboxSound
    <2>2. \A q \in App : inbox'[q] # {} => Listens(q)'
      BY <1>1, <1>4 DEF RequestIInv, InboxSound, Listens
    <2> QED
      BY <1>1, <1>4, <2>1, <2>2 DEF RequestIInv, InboxSound
  <1>6. ASSUME NEW q \in App PROVE LaunchSound(q)'
    <2>1. q = p => app[q] \notin {"none", "launched", "connecting"}
      BY <1>1 DEF RequestIInv, LaunchSound
    <2> QED
      BY <1>1, <1>3, <1>4, <2>1 DEF RequestIInv, LaunchSound
  <1>7. ASSUME NEW c \in Cmd PROVE CommandSound(c)'
    <2>1. c # p
      BY ForwardingAssumption
    <2> QED
      BY <1>1, <1>3, <1>4, <2>1 DEF RequestIInv, CommandSound
  <1> QED
    BY <1>1, <1>3, <1>5, <1>6, <1>7 DEF RequestIInv

\* The record of a command line that is done.
LEMMA DoneRecord ==
    ASSUME RequestIInv, NEW c \in Cmd, NEW result \in {"none", "completed", "local", "indeterminate"},
           Done(c, result)
    PROVE  /\ Become(c, cli'[c]) /\ cli'[c] \in CommandLine
           /\ cli'[c].at = "done" /\ cli'[c].result = result
  <1> DEFINE r == [cli[c] EXCEPT !.at = "done", !.attempts = 0, !.reply = "none", !.result = result]
  <1>1. cli[c] \in CommandLine /\ cli' = [cli EXCEPT ![c] = r]
    BY DEF RequestIInv, Done, Become
  <1>2. 0 \in 0 .. MaximumUnavailableAttempts - 1
    BY DEF MaximumUnavailableAttempts
  <1>3. r \in CommandLine
    BY <1>1, <1>2 DEF CommandLine
  <1>4. r.at = "done" /\ r.result = result
    BY <1>1 DEF CommandLine
  <1> HIDE DEF r
  <1> QED
    BY <1>1, <1>3, <1>4 DEF RequestIInv, Become

\* A command line's own step leaves the other requests where they are.
LEMMA CommandLineMoves ==
    ASSUME RequestIInv, NEW c \in Cmd, Become(c, cli'[c]), cli'[c] \in CommandLine, CommandSound(c)',
           UNCHANGED <<app, inbox, answered, ran>>
    PROVE  RequestIInv'
  <1>1. cli' \in [Cmd -> CommandLine] /\ \A d \in Cmd : d # c => cli'[d] = cli[d]
    BY DEF RequestIInv, Become
  <1>2. \A d \in Cmd : CommandSound(d)'
    BY <1>1 DEF RequestIInv, CommandSound
  <1>3. InboxSound' /\ \A p \in App : LaunchSound(p)'
    BY DEF RequestIInv, InboxSound, LaunchSound, Listens
  <1> QED
    BY <1>1, <1>2, <1>3 DEF RequestIInv

\* Before and after its request is sent, a command line gives up, tries again or takes the answer; it
\* becomes free to carry out the command itself only if no instance did or will.
LEMMA CommandLineKeepsRequests ==
    ASSUME RequestIInv, NEW c \in Cmd, Start(c) \/ ConnectFails(c) \/ ReadReply(c) \/ GiveUp(c)
    PROVE  RequestIInv'
  <1>1. UNCHANGED <<app, inbox, answered, ran>>
    BY DEF Start, ConnectFails, ReadReply, GiveUp, instanceVars
  <1>2. cli[c] \in CommandLine /\ CommandSound(c) /\ ran[c] \in 0 .. 1
    BY DEF RequestIInv
  <1>3. ASSUME Become(c, [cli[c] EXCEPT !.at = "connecting"]), cli[c].at = "idle"
        PROVE  RequestIInv'
    <2>1. Become(c, cli'[c]) /\ cli'[c] \in CommandLine /\ cli'[c].at = "connecting" /\ cli'[c].result = cli[c].result
      BY <1>2, <1>3 DEF RequestIInv, Become, CommandLine
    <2>2. CommandSound(c)'
      BY <1>1, <1>2, <1>3, <2>1 DEF CommandSound
    <2> QED
      BY <1>1, <2>1, <2>2, CommandLineMoves
  <1>4. ASSUME Become(c, [cli[c] EXCEPT !.attempts = @ + 1]), cli[c].at = "connecting",
               ~(cli[c].attempts + 1 >= MaximumUnavailableAttempts)
        PROVE  RequestIInv'
    <2>1. /\ Become(c, cli'[c]) /\ cli'[c] \in CommandLine
          /\ cli'[c].at = "connecting" /\ cli'[c].result = cli[c].result
      BY <1>2, <1>4 DEF RequestIInv, Become, CommandLine, MaximumUnavailableAttempts
    <2>2. CommandSound(c)'
      BY <1>1, <1>2, <1>4, <2>1 DEF CommandSound
    <2> QED
      BY <1>1, <2>1, <2>2, CommandLineMoves
  <1>5. ASSUME Become(c, [cli[c] EXCEPT !.at = "connecting", !.reply = "none"]), cli[c].at = "waiting",
               cli[c].reply = "retryable"
        PROVE  RequestIInv'
    <2>1. Become(c, cli'[c]) /\ cli'[c] \in CommandLine /\ cli'[c].at = "connecting" /\ cli'[c].result = cli[c].result
      BY <1>2, <1>5 DEF RequestIInv, Become, CommandLine
    <2>2. CommandSound(c)'
      BY <1>1, <1>2, <1>5, <2>1 DEF CommandSound
    <2> QED
      BY <1>1, <2>1, <2>2, CommandLineMoves
  <1>6. ASSUME Done(c, "local"),
               cli[c].at \in {"idle", "connecting"} \/ (cli[c].at = "waiting" /\ cli[c].reply \in {"retryable", "declined"})
        PROVE  RequestIInv'
    <2>1. /\ Become(c, cli'[c]) /\ cli'[c] \in CommandLine
          /\ cli'[c].at = "done" /\ cli'[c].result = "local"
      BY <1>6, DoneRecord
    <2>2. CommandSound(c)'
      BY <1>1, <1>2, <1>6, <2>1 DEF CommandSound
    <2> QED
      BY <1>1, <2>1, <2>2, CommandLineMoves
  <1>7. ASSUME Done(c, "completed"), cli[c].at = "waiting", cli[c].reply = "handled"
        PROVE  RequestIInv'
    <2>1. /\ Become(c, cli'[c]) /\ cli'[c] \in CommandLine
          /\ cli'[c].at = "done" /\ cli'[c].result = "completed"
      BY <1>7, DoneRecord
    <2>2. CommandSound(c)'
      BY <1>1, <1>2, <1>7, <2>1 DEF CommandSound
    <2> QED
      BY <1>1, <2>1, <2>2, CommandLineMoves
  <1>8. ASSUME Done(c, "indeterminate"), cli[c].at = "waiting"
        PROVE  RequestIInv'
    <2>1. /\ Become(c, cli'[c]) /\ cli'[c] \in CommandLine
          /\ cli'[c].at = "done" /\ cli'[c].result = "indeterminate"
      BY <1>8, DoneRecord
    <2>2. CommandSound(c)'
      BY <1>1, <1>2, <1>8, <2>1 DEF CommandSound
    <2> QED
      BY <1>1, <2>1, <2>2, CommandLineMoves
  <1> QED
    BY <1>3, <1>4, <1>5, <1>6, <1>7, <1>8 DEF Start, ConnectFails, ReadReply, GiveUp

\* A command is sent when it is in no inbox and nothing was done of it.
LEMMA SendKeepsRequests ==
    ASSUME InstanceIInv, RequestIInv, NEW c \in Cmd, Send(c) PROVE RequestIInv'
  <1>1. /\ endpoint \in App /\ Listens(endpoint) /\ cli[c].at = "connecting"
        /\ inbox' = [inbox EXCEPT ![endpoint] = @ \cup {c}]
        /\ Become(c, [cli[c] EXCEPT !.at = "waiting", !.reply = "none"])
        /\ UNCHANGED <<app, answered, ran>>
    BY DEF Send, Reachable, InstanceIInv
  <1>2. ran[c] = 0 /\ \A s \in App : c \notin inbox[s]
    BY <1>1 DEF RequestIInv, CommandSound
  <1>3. /\ cli' \in [Cmd -> CommandLine] /\ \A d \in Cmd : d # c => cli'[d] = cli[d]
        /\ cli'[c].at = "waiting" /\ cli'[c].reply = "none" /\ cli'[c].result = cli[c].result
    BY <1>1 DEF RequestIInv, Become, CommandLine
  <1>4. \A q \in App : \A x \in inbox'[q] : x \in inbox[q] \/ (x = c /\ q = endpoint)
    BY <1>1 DEF RequestIInv, InboxSound
  <1>5. InboxSound'
    <2>1. inbox' \in [App -> SUBSET (App \cup Cmd)]
      BY <1>1 DEF RequestIInv, InboxSound
    <2>2. \A q \in App : inbox'[q] # {} => Listens(q)'
      BY <1>1, <1>4 DEF RequestIInv, InboxSound, Listens
    <2>3. ASSUME NEW q \in App, NEW r \in App, NEW x \in inbox'[q]
          PROVE  ran'[x] = 0 /\ (x \in inbox'[r] => q = r)
      BY <1>1, <1>2, <1>4 DEF RequestIInv, InboxSound
    <2> QED
      BY <1>1, <2>1, <2>2, <2>3 DEF RequestIInv, InboxSound
  <1>6. ASSUME NEW q \in App PROVE LaunchSound(q)'
    <2>1. q # c
      BY ForwardingAssumption
    <2> QED
      BY <1>1, <1>4, <2>1 DEF RequestIInv, LaunchSound
  <1>7. ASSUME NEW d \in Cmd PROVE CommandSound(d)'
    <2>1. CASE d = c
      BY <1>1, <1>2, <1>3, <2>1 DEF RequestIInv, CommandSound
    <2>2. CASE d # c
      BY <1>1, <1>3, <1>4, <2>2 DEF RequestIInv, CommandSound
    <2> QED
      BY <2>1, <2>2
  <1> QED
    BY <1>1, <1>3, <1>5, <1>6, <1>7 DEF RequestIInv

\* A command line that may carry out its command does so once.
LEMMA RunLocallyKeepsRequests ==
    ASSUME InstanceIInv, RequestIInv, NEW c \in Cmd, RunLocally(c) PROVE RequestIInv'
  <1>1. /\ Done(c, "none") /\ cli[c].at = "done" /\ cli[c].result = "local"
        /\ ran' = [ran EXCEPT ![c] = @ + 1] /\ UNCHANGED <<app, inbox, answered>>
    BY DEF RunLocally, instanceVars
  <1>2. ran[c] = 0 /\ \A s \in App : c \notin inbox[s]
    BY <1>1 DEF RequestIInv, CommandSound
  <1>3. ran' \in [App \cup Cmd -> 0 .. 1] /\ \A x \in App \cup Cmd : x # c => ran'[x] = ran[x]
    BY <1>1, <1>2 DEF RequestIInv
  <1>4. /\ Become(c, cli'[c]) /\ cli'[c] \in CommandLine
        /\ cli'[c].at = "done" /\ cli'[c].result = "none"
    BY <1>1, DoneRecord
  <1>5. cli' \in [Cmd -> CommandLine] /\ \A d \in Cmd : d # c => cli'[d] = cli[d]
    BY <1>4 DEF RequestIInv, Become
  <1>6. InboxSound'
    <2>1. ASSUME NEW q \in App, NEW r \in App, NEW x \in inbox[q]
          PROVE  ran'[x] = 0 /\ (x \in inbox[r] => q = r)
      <3>1. x # c /\ x \in App \cup Cmd
        BY <1>2 DEF RequestIInv, InboxSound
      <3> QED
        BY <1>3, <3>1 DEF RequestIInv, InboxSound
    <2> QED
      BY <1>1, <2>1 DEF RequestIInv, InboxSound, Listens
  <1>7. ASSUME NEW q \in App PROVE LaunchSound(q)'
    <2>1. q # c
      BY ForwardingAssumption
    <2> QED
      BY <1>1, <1>3, <2>1 DEF RequestIInv, LaunchSound
  <1>8. ASSUME NEW d \in Cmd PROVE CommandSound(d)'
    <2>1. CASE d = c
      BY <1>1, <1>2, <1>4, <2>1 DEF CommandSound
    <2>2. CASE d # c
      BY <1>1, <1>3, <1>5, <2>2 DEF RequestIInv, CommandSound
    <2> QED
      BY <2>1, <2>2
  <1> QED
    BY <1>3, <1>5, <1>6, <1>7, <1>8 DEF RequestIInv

\* A command is taken out of the inbox as the instance carries it out, declines it or asks for another
\* try; whoever waits for the answer is told which.
LEMMA ReadCommandKeepsRequests ==
    ASSUME InstanceIInv, RequestIInv, NEW s \in App, NEW c \in Cmd, ReadCommand(s, c) PROVE RequestIInv'
  <1> DEFINE handled == app[s] = "ready" /\ cli[c].kind # "list"
             reply == IF app[s] # "ready" THEN "retryable" ELSE IF handled THEN "handled" ELSE "declined"
  <1>1. /\ c \in inbox[s] /\ inbox' = [inbox EXCEPT ![s] = @ \ {c}] /\ UNCHANGED <<app, answered>>
        /\ cli' = IF cli[c].at = "waiting" THEN [cli EXCEPT ![c].reply = reply] ELSE cli
        /\ ran' = IF handled THEN [ran EXCEPT ![c] = @ + 1] ELSE ran
    BY DEF ReadCommand
  <1>2. reply \in {"retryable", "handled", "declined"} /\ (reply = "handled" <=> handled) /\ handled \in BOOLEAN
    OBVIOUS
  <1> HIDE DEF handled, reply
  <1>3. ran[c] = 0 /\ \A q \in App : c \notin inbox'[q]
    BY <1>1 DEF RequestIInv, InboxSound
  <1>4. inbox' \in [App -> SUBSET (App \cup Cmd)] /\ \A q \in App : inbox'[q] \subseteq inbox[q]
    BY <1>1 DEF RequestIInv, InboxSound
  <1>5. /\ ran' \in [App \cup Cmd -> 0 .. 1] /\ \A x \in App \cup Cmd : x # c => ran'[x] = ran[x]
        /\ ran'[c] = 1 <=> handled
    BY <1>1, <1>2, <1>3 DEF RequestIInv
  <1>6. /\ cli' \in [Cmd -> CommandLine] /\ \A d \in Cmd : d # c => cli'[d] = cli[d]
        /\ cli'[c].at = cli[c].at /\ cli'[c].result = cli[c].result
        /\ cli[c].at = "waiting" => cli'[c].reply = reply
    <2>1. CASE cli[c].at = "waiting"
      <3>1. cli[c] \in CommandLine /\ [cli[c] EXCEPT !.reply = reply] \in CommandLine
        BY <1>2 DEF RequestIInv, CommandLine
      <3>2. cli' = [cli EXCEPT ![c] = [cli[c] EXCEPT !.reply = reply]]
        BY <1>1, <2>1
      <3>3. cli'[c] = [cli[c] EXCEPT !.reply = reply]
        BY <3>2 DEF RequestIInv
      <3>4. cli' \in [Cmd -> CommandLine] /\ \A d \in Cmd : d # c => cli'[d] = cli[d]
        BY <3>1, <3>2 DEF RequestIInv
      <3> QED
        BY <3>1, <3>3, <3>4 DEF CommandLine
    <2>2. CASE cli[c].at # "waiting"
      BY <1>1, <2>2 DEF RequestIInv
    <2> QED
      BY <2>1, <2>2
  <1>7. InboxSound'
    <2>1. ASSUME NEW q \in App, NEW r \in App, NEW x \in inbox'[q]
          PROVE  ran'[x] = 0 /\ (x \in inbox'[r] => q = r)
      <3>1. x \in inbox[q] /\ x # c /\ x \in App \cup Cmd
        BY <1>3, <1>4
      <3> QED
        BY <1>4, <1>5, <3>1 DEF RequestIInv, InboxSound
    <2>2. \A q \in App : inbox'[q] # {} => Listens(q)'
      BY <1>1, <1>4 DEF RequestIInv, InboxSound, Listens
    <2> QED
      BY <1>1, <1>4, <2>1, <2>2 DEF RequestIInv, InboxSound
  <1>8. ASSUME NEW q \in App PROVE LaunchSound(q)'
    <2>1. q # c
      BY ForwardingAssumption
    <2> QED
      BY <1>1, <1>4, <1>5, <2>1 DEF RequestIInv, LaunchSound
  <1>9. ASSUME NEW d \in Cmd PROVE CommandSound(d)'
    <2>1. CASE d = c
      <3>1. /\ cli[c].at = "waiting" \/ (cli[c].at = "done" /\ cli[c].result = "indeterminate")
            /\ cli[c].at = "waiting" => cli[c].result = "none"
        BY <1>1 DEF RequestIInv, CommandSound
      <3> QED
        BY <1>2, <1>3, <1>5, <1>6, <2>1, <3>1 DEF CommandSound
    <2>2. CASE d # c
      BY <1>4, <1>5, <1>6, <2>2 DEF RequestIInv, CommandSound
    <2> QED
      BY <2>1, <2>2
  <1> QED
    BY <1>5, <1>6, <1>7, <1>8, <1>9 DEF RequestIInv

LEMMA RequestsKept == InstanceIInv /\ RequestIInv /\ [ForwardingNext]_forwardVars => RequestIInv'
  <1> SUFFICES ASSUME InstanceIInv, RequestIInv, [ForwardingNext]_forwardVars PROVE RequestIInv'
    OBVIOUS
  <1>1. CASE UNCHANGED <<app, inbox, answered, cli, ran>>
    BY <1>1 DEF RequestIInv, InboxSound, LaunchSound, CommandSound, Listens
  <1>2. ASSUME NEW f \in File, UserImports(f) \/ MoveToTrash(f) \/ CopyFinishes(f) \/ TimerFires(f)
        PROVE  UNCHANGED <<app, inbox, answered, cli, ran>>
    BY <1>2 DEF UserImports, MoveToTrash, CopyFinishes, TimerFires, instanceVars
  <1>3. CASE UNCHANGED forwardVars
    BY <1>1, <1>3 DEF forwardVars, instanceVars
  <1> QED
    BY <1>1, <1>2, <1>3, LaunchKeepsRequests, ActivateKeepsRequests, ReadActivationKeepsRequests,
       ReadCommandKeepsRequests, CommandLineKeepsRequests, SendKeepsRequests, RunLocallyKeepsRequests
    DEF ForwardingNext

-----------------------------------------------------------------------------
(* What waits for imports. *)

\* The library as it is after one of the steps, field by field.
LEMMA LibraryFields ==
    ASSUME NEW l, NEW n, LibraryGood(l, n), LibraryIs(l)
    PROVE  LibraryGood(Library', n)
  <1>1. Library' = [recorded |-> l.recorded, pending |-> l.pending, importing |-> l.importing,
                    timers |-> l.timers, asked |-> l.asked, jobs |-> l.jobs]
    BY DEF LibraryIs, Library
  <1> QED
    BY <1>1 DEF LibraryGood, LibraryQueued, LibraryTimed

\* A file that enters the library no longer waits; if it did, its one job is one that was asked for.
LEMMA EnteredIsQueued ==
    ASSUME NEW n \in Nat, NEW l, LibraryQueued(l, n), NEW f \in File, NEW ok \in BOOLEAN
    PROVE  LET e == Entered(l, f, ok)
           IN  /\ LibraryQueued(e, n)
               /\ e.asked = l.asked /\ e.timers = l.timers /\ e.pending \subseteq l.pending
  <1> DEFINE j == IF f \in l.pending /\ ok THEN [l.jobs EXCEPT ![f] = l.jobs[f] + 1] ELSE l.jobs
             e == Entered(l, f, ok)
  <1>1. l = [recorded |-> l.recorded, pending |-> l.pending, importing |-> l.importing,
             timers |-> l.timers, asked |-> l.asked, jobs |-> l.jobs]
    BY DEF LibraryQueued
  <1>2. e = [l EXCEPT !.recorded = @ \cup {f}, !.pending = @ \ {f}, !.jobs = j]
    BY DEF Entered
  <1>3. /\ j \in [File -> Nat]
        /\ \A g \in File : j[g] = IF g = f /\ f \in l.pending /\ ok THEN l.jobs[g] + 1 ELSE l.jobs[g]
    BY DEF LibraryQueued
  <1> HIDE DEF e, j
  <1>4. e = [recorded |-> l.recorded \cup {f}, pending |-> l.pending \ {f}, importing |-> l.importing,
             timers |-> l.timers, asked |-> l.asked, jobs |-> j]
    BY <1>1, <1>2
  <1>5. LibraryQueued(e, n)
    BY <1>3, <1>4 DEF LibraryQueued
  <1> QED
    BY <1>4, <1>5 DEF e

\* So does the file itself, or a copy of it that is under way.
LEMMA ImportedIsQueued ==
    ASSUME NEW n \in Nat, NEW l, LibraryQueued(l, n), NEW f \in File, NEW ok \in BOOLEAN,
           NEW i \in Imported(l, f, ok)
    PROVE  /\ LibraryQueued(i, n)
           /\ i.asked = l.asked /\ i.timers = l.timers /\ i.pending \subseteq l.pending
  <1>1. CASE i = l
    BY <1>1
  <1>2. CASE i = Entered(l, f, ok)
    BY <1>2, EnteredIsQueued
  <1>3. CASE l.importing[f] < MaxImports /\ i = [l EXCEPT !.importing[f] = @ + 1]
    <2>1. i = [l EXCEPT !.importing = [l.importing EXCEPT ![f] = @ + 1]]
      BY <1>3 DEF LibraryQueued
    <2>2. [l.importing EXCEPT ![f] = @ + 1] \in [File -> 0 .. MaxImports]
      BY <1>3, ForwardingAssumption DEF LibraryQueued
    <2> QED
      BY <2>1, <2>2 DEF LibraryQueued
  <1> QED
    BY <1>1, <1>2, <1>3 DEF Imported

\* What keeps the timers and what was asked keeps every file that still waits timed.
LEMMA StillTimed ==
    ASSUME NEW l, LibraryTimed(l), NEW i, i.asked = l.asked, i.timers = l.timers, i.pending \subseteq l.pending
    PROVE  LibraryTimed(i)
  BY DEF LibraryTimed

\* One more request carried out: its file is queued, waits with the others for the import under way, or
\* waits for the one that begins, with a timer of its own.
LEMMA TranscribedIsGood ==
    ASSUME NEW n \in Nat, NEW l, LibraryGood(l, n), NEW f \in File, NEW ok \in BOOLEAN,
           NEW t \in Transcribed(l, f, ok)
    PROVE  LibraryGood(t, n + 1)
  <1> DEFINE q == [l.asked EXCEPT ![f] = l.asked[f] + 1]
             a == [l EXCEPT !.asked = q]
             w == [a EXCEPT !.pending = @ \cup {f}]
  <1>1. /\ l.asked \in [File -> Nat] /\ q \in [File -> Nat]
        /\ \A g \in File : q[g] = IF g = f THEN l.asked[g] + 1 ELSE l.asked[g]
    BY DEF LibraryGood, LibraryQueued
  <1>2. l = [recorded |-> l.recorded, pending |-> l.pending, importing |-> l.importing,
             timers |-> l.timers, asked |-> l.asked, jobs |-> l.jobs]
    BY DEF LibraryGood, LibraryQueued
  <1>3. [l EXCEPT !.asked[f] = @ + 1] = a
    BY DEF LibraryGood, LibraryQueued
  <1> HIDE DEF q
  <1>4. a = [recorded |-> l.recorded, pending |-> l.pending, importing |-> l.importing,
             timers |-> l.timers, asked |-> q, jobs |-> l.jobs]
    BY <1>2
  <1> HIDE DEF a
  <1>5. w = [recorded |-> l.recorded, pending |-> l.pending \cup {f}, importing |-> l.importing,
             timers |-> l.timers, asked |-> q, jobs |-> l.jobs]
    BY <1>4
  <1>6. t \in (IF f \in l.recorded THEN {IF ok THEN [a EXCEPT !.jobs[f] = @ + 1] ELSE l}
               ELSE IF f \in l.pending THEN {a}
               ELSE {l} \cup {[i EXCEPT !.timers[f] = @ + 1] : i \in Imported(w, f, ok) \ {w}})
    BY <1>3 DEF Transcribed
  <1> HIDE DEF w
  <1>7. LibraryGood(l, n + 1)
    BY DEF LibraryGood, LibraryQueued
  <1>8. LibraryGood(a, n + 1)
    BY <1>1, <1>4 DEF LibraryGood, LibraryQueued, LibraryTimed
  <1>9. LibraryQueued(w, n + 1)
    BY <1>1, <1>5 DEF LibraryGood, LibraryQueued
  <1>10. ASSUME t = [a EXCEPT !.jobs[f] = @ + 1] PROVE LibraryGood(t, n + 1)
    <2>1. t = [a EXCEPT !.jobs = [l.jobs EXCEPT ![f] = @ + 1]]
      BY <1>4, <1>10
    <2>2. t = [recorded |-> l.recorded, pending |-> l.pending, importing |-> l.importing,
               timers |-> l.timers, asked |-> q, jobs |-> [l.jobs EXCEPT ![f] = @ + 1]]
      BY <1>4, <2>1
    <2> QED
      BY <1>1, <2>2 DEF LibraryGood, LibraryQueued, LibraryTimed
  <1>11. ASSUME NEW i \in Imported(w, f, ok), t = [i EXCEPT !.timers[f] = @ + 1]
         PROVE  LibraryGood(t, n + 1)
    <2>1. /\ LibraryQueued(i, n + 1)
          /\ i.asked = q /\ i.timers = l.timers /\ i.pending \subseteq l.pending \cup {f}
      BY <1>5, <1>9, ImportedIsQueued
    <2>2. t = [i EXCEPT !.timers = [l.timers EXCEPT ![f] = @ + 1]]
      BY <1>11, <2>1
    <2>3. t = [recorded |-> i.recorded, pending |-> i.pending, importing |-> i.importing,
               timers |-> [l.timers EXCEPT ![f] = @ + 1], asked |-> i.asked, jobs |-> i.jobs]
      BY <2>1, <2>2 DEF LibraryQueued
    <2>4. l.timers \in [File -> Nat]
      BY DEF LibraryGood, LibraryQueued
    <2>5. LibraryQueued(t, n + 1)
      BY <2>1, <2>3, <2>4 DEF LibraryQueued
    <2>6. LibraryTimed(t)
      BY <1>1, <2>1, <2>3, <2>4 DEF LibraryGood, LibraryTimed
    <2> QED
      BY <2>5, <2>6 DEF LibraryGood
  <1> QED
    BY <1>6, <1>7, <1>8, <1>10, <1>11

\* Nothing that was carried out is undone, and there are no more requests than command lines.
LEMMA RanGrows ==
    ASSUME RequestIInv, NEW c \in Cmd, ran'[c] = 1, \A d \in Cmd : d # c => ran'[d] = ran[d]
    PROVE  /\ Cardinality(Ran) \in Nat /\ Cardinality(Ran') \in Nat
           /\ Cardinality(Ran') = IF ran[c] = 1 THEN Cardinality(Ran) ELSE Cardinality(Ran) + 1
  <1>1. IsFiniteSet(Ran)
    BY ForwardingAssumption, FS_Subset DEF Ran
  <1>2. Ran' = Ran \cup {c} /\ (c \in Ran <=> ran[c] = 1)
    BY DEF Ran
  <1>3. IsFiniteSet(Ran') /\ Cardinality(Ran') = IF c \in Ran THEN Cardinality(Ran) ELSE Cardinality(Ran) + 1
    BY <1>1, <1>2, FS_AddElement
  <1> QED
    BY <1>1, <1>2, <1>3, FS_CardinalityType

LEMMA RanIsFew == Cardinality(Ran) \in Nat /\ Cardinality(Ran) <= Cardinality(Cmd) /\ Cardinality(Cmd) \in Nat
  BY ForwardingAssumption, FS_Subset, FS_CardinalityType DEF Ran

LEMMA LibraryStarts == ForwardingInit => LibraryIInv
  <1> SUFFICES ASSUME ForwardingInit PROVE LibraryIInv
    OBVIOUS
  <1>1. Cardinality(Ran) \in Nat
    BY RanIsFew
  <1>2. Library = [recorded |-> {}, pending |-> {}, importing |-> [f \in File |-> 0],
                   timers |-> [f \in File |-> 0], asked |-> [f \in File |-> 0], jobs |-> [f \in File |-> 0]]
    BY DEF ForwardingInit, Library
  <1> QED
    BY <1>1, <1>2, ForwardingAssumption DEF LibraryIInv, LibraryGood, LibraryQueued, LibraryTimed

\* An instance that ends forgets what waits.
LEMMA ForgottenKeepsLibrary == ASSUME LibraryIInv, Forgotten, UNCHANGED ran PROVE LibraryIInv'
  <1>1. Library' = [recorded |-> recorded, pending |-> {}, importing |-> [f \in File |-> 0],
                    timers |-> [f \in File |-> 0], asked |-> asked, jobs |-> jobs]
    BY DEF Forgotten, Library
  <1>2. Ran' = Ran
    BY DEF Ran
  <1> QED
    BY <1>1, <1>2, ForwardingAssumption
    DEF LibraryIInv, LibraryGood, LibraryQueued, LibraryTimed, Library

\* A command that is carried out asks for at most one transcription.
LEMMA ReadCommandKeepsLibrary ==
    ASSUME RequestIInv, LibraryIInv, NEW s \in App, NEW c \in Cmd, ReadCommand(s, c) PROVE LibraryIInv'
  <1>1. CASE UNCHANGED libraryVars /\ UNCHANGED ran
    BY <1>1 DEF libraryVars, LibraryIInv, Library, Ran
  <1>2. CASE /\ ran' = [ran EXCEPT ![c] = @ + 1] /\ c \in inbox[s]
             /\ \E ok \in BOOLEAN :
                  \E l \in IF cli[c].kind = "import" THEN Imported(Library, cli[c].file, ok)
                           ELSE Transcribed(Library, cli[c].file, ok) : LibraryIs(l)
    <2>1. ran[c] = 0 /\ ran'[c] = 1 /\ \A d \in Cmd : d # c => ran'[d] = ran[d]
      BY <1>2 DEF RequestIInv, InboxSound
    <2>2. Cardinality(Ran) \in Nat /\ Cardinality(Ran') = Cardinality(Ran) + 1
      BY <2>1, RanGrows
    <2>3. cli[c].file \in File
      BY DEF RequestIInv, CommandLine
    <2>4. LibraryGood(Library, Cardinality(Ran))
      BY DEF LibraryIInv
    <2> DEFINE n == Cardinality(Ran)
    <2> HIDE DEF n
    <2>5. ASSUME NEW ok \in BOOLEAN, NEW l \in Imported(Library, cli[c].file, ok), LibraryIs(l)
          PROVE  LibraryGood(Library', n + 1)
      <3>1. LibraryQueued(l, n) /\ LibraryTimed(l)
        BY <2>2, <2>3, <2>4, ImportedIsQueued, StillTimed DEF LibraryGood, n
      <3>2. LibraryGood(l, n + 1)
        BY <2>2, <3>1 DEF LibraryGood, LibraryQueued, n
      <3> QED
        BY <2>5, <3>2, LibraryFields
    <2>6. ASSUME NEW ok \in BOOLEAN, NEW l \in Transcribed(Library, cli[c].file, ok), LibraryIs(l)
          PROVE  LibraryGood(Library', n + 1)
      <3>1. LibraryGood(l, n + 1)
        BY <2>2, <2>3, <2>4, TranscribedIsGood DEF n
      <3> QED
        BY <2>6, <3>1, LibraryFields
    <2>7. LibraryGood(Library', n + 1)
      BY <1>2, <2>5, <2>6
    <2> QED
      BY <2>2, <2>7 DEF LibraryIInv, n
  <1> QED
    BY <1>1, <1>2 DEF ReadCommand

\* The command line enters its file in the library itself; nothing waits for that.
LEMMA RunLocallyKeepsLibrary ==
    ASSUME RequestIInv, LibraryIInv, NEW c \in Cmd, RunLocally(c) PROVE LibraryIInv'
  <1>1. /\ ran' = [ran EXCEPT ![c] = @ + 1] /\ CommandSound(c) /\ cli[c].result = "local" /\ cli[c].file \in File
        /\ recorded' \in {recorded, recorded \cup {cli[c].file}}
        /\ UNCHANGED <<pending, importing, timers, asked, jobs>>
    BY DEF RunLocally, RequestIInv, CommandLine
  <1>2. ran[c] = 0 /\ ran'[c] = 1 /\ \A d \in Cmd : d # c => ran'[d] = ran[d]
    BY <1>1 DEF RequestIInv, CommandSound
  <1>3. Cardinality(Ran) \in Nat /\ Cardinality(Ran') = Cardinality(Ran) + 1
    BY <1>2, RanGrows
  <1> DEFINE n == Cardinality(Ran)
  <1>4. LibraryGood(Library, n) /\ n \in Nat
    BY <1>3 DEF LibraryIInv
  <1> HIDE DEF n
  <1>5. LibraryGood(Library', n + 1)
    BY <1>1, <1>4 DEF LibraryGood, LibraryQueued, LibraryTimed, Library
  <1> QED
    BY <1>3, <1>5 DEF LibraryIInv, n

\* Imports of the user and copies that end in any order take files out of those that wait.
LEMMA FilesKeepLibrary ==
    ASSUME LibraryIInv, NEW f \in File, UserImports(f) \/ MoveToTrash(f) \/ CopyFinishes(f) \/ TimerFires(f)
    PROVE  LibraryIInv'
  <1> DEFINE n == Cardinality(Ran)
  <1>1. n \in Nat /\ LibraryGood(Library, n)
    BY RanIsFew DEF LibraryIInv
  <1>2. Ran' = Ran
    BY DEF UserImports, MoveToTrash, CopyFinishes, TimerFires, Ran
  <1> HIDE DEF n
  <1>3. CASE UserImports(f)
    <2>1. PICK ok \in BOOLEAN : \E l \in Imported(Library, f, ok) : LibraryIs(l)
      BY <1>3 DEF UserImports
    <2>2. PICK l \in Imported(Library, f, ok) : LibraryIs(l)
      BY <2>1
    <2>3. LibraryQueued(l, n) /\ LibraryTimed(l)
      BY <1>1, <2>2, ImportedIsQueued, StillTimed DEF LibraryGood
    <2>4. LibraryGood(Library', n)
      BY <2>2, <2>3, LibraryFields DEF LibraryGood
    <2> QED
      BY <1>2, <2>4 DEF LibraryIInv, n
  <1>4. CASE MoveToTrash(f)
    <2>1. recorded' \subseteq recorded /\ UNCHANGED <<pending, importing, timers, asked, jobs>>
      BY <1>4 DEF MoveToTrash
    <2>2. LibraryGood(Library', n)
      BY <1>1, <2>1 DEF LibraryGood, LibraryQueued, LibraryTimed, Library
    <2> QED
      BY <1>2, <2>2 DEF LibraryIInv, n
  <1>5. CASE CopyFinishes(f)
    <2> DEFINE l == [Library EXCEPT !.importing[f] = @ - 1]
    <2>1. LibraryIs(l) \/ \E ok \in BOOLEAN : LibraryIs(Entered(l, f, ok))
      BY <1>5 DEF CopyFinishes
    <2>2. importing[f] \in 1 .. MaxImports /\ importing \in [File -> 0 .. MaxImports]
      BY <1>1, <1>5, ForwardingAssumption DEF CopyFinishes, LibraryGood, LibraryQueued, Library
    <2>3. l = [recorded |-> recorded, pending |-> pending, importing |-> [importing EXCEPT ![f] = @ - 1],
               timers |-> timers, asked |-> asked, jobs |-> jobs]
      BY DEF Library
    <2> HIDE DEF l
    <2>4. [importing EXCEPT ![f] = @ - 1] \in [File -> 0 .. MaxImports]
      BY <2>2, ForwardingAssumption
    <2>5. LibraryGood(l, n)
      BY <1>1, <2>3, <2>4 DEF LibraryGood, LibraryQueued, LibraryTimed, Library
    <2>6. ASSUME NEW ok \in BOOLEAN PROVE LibraryGood(Entered(l, f, ok), n)
      BY <1>1, <2>5, EnteredIsQueued, StillTimed DEF LibraryGood
    <2>7. LibraryGood(Library', n)
      BY <2>1, <2>5, <2>6, LibraryFields
    <2> QED
      BY <1>2, <2>7 DEF LibraryIInv, n
  <1>6. CASE TimerFires(f)
    <2>1. /\ timers' = [timers EXCEPT ![f] = @ - 1] /\ pending' = pending \ {f} /\ timers[f] > 0
          /\ UNCHANGED <<recorded, importing, asked, jobs>>
      BY <1>6 DEF TimerFires
    <2>2. timers \in [File -> Nat]
      BY <1>1 DEF LibraryGood, LibraryQueued, Library
    <2>3. LibraryGood(Library', n)
      BY <1>1, <2>1, <2>2 DEF LibraryGood, LibraryQueued, LibraryTimed, Library
    <2> QED
      BY <1>2, <2>3 DEF LibraryIInv, n
  <1> QED
    BY <1>3, <1>4, <1>5, <1>6

LEMMA LibraryKept == RequestIInv /\ LibraryIInv /\ [ForwardingNext]_forwardVars => LibraryIInv'
  <1> SUFFICES ASSUME RequestIInv, LibraryIInv, [ForwardingNext]_forwardVars PROVE LibraryIInv'
    OBVIOUS
  <1>1. CASE UNCHANGED <<ran, libraryVars>>
    BY <1>1 DEF libraryVars, LibraryIInv, Library, Ran
  <1>2. ASSUME NEW p \in App, Launch(p) \/ TryLock(p) \/ StartPrimary(p) \/ Compose(p) \/ EndPrimary(p)
                              \/ Activate(p) \/ ActivationEnds(p)
        PROVE  UNCHANGED <<ran, libraryVars>>
    BY <1>2 DEF Launch, TryLock, StartPrimary, Compose, EndPrimary, Activate, ActivationEnds, libraryVars
  <1>3. ASSUME NEW p \in App, Quit(p) \/ Crash(p)
        PROVE  UNCHANGED ran /\ (Forgotten \/ UNCHANGED libraryVars)
    BY <1>3 DEF Quit, Crash
  <1>4. ASSUME NEW s \in App, NEW p \in App, ReadActivation(s, p)
        PROVE  LibraryIInv'
    <2>1. ran' = ran \/ ran' = [ran EXCEPT ![p] = @ + 1]
      BY <1>4 DEF ReadActivation
    <2>2. \A c \in Cmd : ran'[c] = ran[c]
      BY <2>1, ForwardingAssumption DEF RequestIInv
    <2>3. Ran' = Ran
      BY <2>2 DEF Ran
    <2>4. UNCHANGED libraryVars
      BY <1>4 DEF ReadActivation
    <2> QED
      BY <2>3, <2>4 DEF libraryVars, LibraryIInv, Library
  <1>5. ASSUME NEW c \in Cmd, Start(c) \/ ConnectFails(c) \/ Send(c) \/ ReadReply(c) \/ GiveUp(c)
        PROVE  UNCHANGED <<ran, libraryVars>>
    BY <1>5 DEF Start, ConnectFails, Send, ReadReply, GiveUp, libraryVars
  <1>6. CASE UNCHANGED forwardVars
    BY <1>1, <1>6 DEF forwardVars
  <1>7. ASSUME NEW p \in App, Quit(p) \/ Crash(p) PROVE LibraryIInv'
    BY <1>1, <1>3, <1>7, ForgottenKeepsLibrary
  <1> QED
    BY <1>1, <1>2, <1>4, <1>5, <1>6, <1>7, ReadCommandKeepsLibrary, RunLocallyKeepsLibrary, FilesKeepLibrary
    DEF ForwardingNext

-----------------------------------------------------------------------------
(* The invariant, and what follows from it. *)

\* Who the instance is, where every request is and what waits for imports, whoever starts, quits or
\* crashes and however late requests are read.
THEOREM ForwardingInvariant == ForwardingSpec => []ForwardingIInv
  <1>1. ForwardingInit => ForwardingIInv
    BY InstanceStarts, RequestsStart, LibraryStarts DEF ForwardingIInv
  <1>2. ForwardingIInv /\ [ForwardingNext]_forwardVars => ForwardingIInv'
    BY InstanceKept, RequestsKept, LibraryKept DEF ForwardingIInv
  <1> QED
    BY <1>1, <1>2, PTL DEF ForwardingSpec

\* The endpoint is that of the lock's holder (SingleInstanceGuard::startPrimary and its destructor), and
\* forwarded transcriptions queue no more jobs than were asked for and wait only while a timer runs
\* (pendingForwardedTranscriptions, recordingImported and the ForwardedImportTimeoutMs timer).
THEOREM InstanceIsSound == ForwardingSpec => []ForwardingInv
  <1>1. ForwardingIInv => ForwardingInv
    <2> SUFFICES ASSUME ForwardingIInv PROVE ForwardingInv
      OBVIOUS
    <2> USE DEF ForwardingIInv
    <2>1. EndpointIsPrimarys
      BY DEF InstanceIInv
    <2>2. LibraryGood(Library, Cardinality(Ran))
      BY DEF LibraryIInv
    <2>3. /\ recorded \subseteq File /\ pending \subseteq File /\ importing \in [File -> 0 .. MaxImports]
          /\ timers \in [File -> Nat] /\ asked \in [File -> Nat] /\ jobs \in [File -> Nat]
          /\ \A f \in File : /\ timers[f] <= asked[f] /\ asked[f] <= Cardinality(Ran) /\ jobs[f] <= asked[f]
                             /\ f \in pending => timers[f] > 0
      BY <2>2 DEF LibraryGood, LibraryQueued, LibraryTimed, Library
    <2>4. timers \in [File -> 0 .. Cardinality(Cmd)] /\ asked \in [File -> 0 .. Cardinality(Cmd)]
      BY <2>3, RanIsFew
    <2>5. ForwardingTypeOK
      BY <2>3, <2>4 DEF ForwardingTypeOK, InstanceIInv, RequestIInv, InboxSound
    <2>6. JobsAreAskedFor /\ WaitingIsTimed
      BY <2>3 DEF JobsAreAskedFor, WaitingIsTimed
    <2> QED
      BY <2>1, <2>5, <2>6 DEF ForwardingInv
  <1> QED
    BY <1>1, ForwardingInvariant, PTL

\* A forwarded command or activation is carried out at most once, by the instance or by the command line
\* itself (ApplicationCommandClient::forward, canExecuteLocally and readSocket), for any number of each.
THEOREM RequestsRunOnce == ForwardingSpec => []RunsOnce
  <1>1. ForwardingIInv => RunsOnce
    BY DEF ForwardingIInv, RequestIInv, CommandSound, RunsOnce
  <1> QED
    BY <1>1, ForwardingInvariant, PTL
=============================================================================
