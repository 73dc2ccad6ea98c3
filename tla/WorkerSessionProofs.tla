------------------------ MODULE WorkerSessionProofs ------------------------
(***************************************************************************)
(* Proofs about WorkerSession: an active job and the fence of a forced     *)
(* cancellation always have something that moves them on; a job that is    *)
(* let go of has no work left in the worker; what the coordinator          *)
(* remembers as resident is.                                               *)
(*                                                                         *)
(* Handlers call one another, so the proof is first about operators from   *)
(* worlds (records of the desktop's state, as in Here) to worlds: each     *)
(* leads from a sound world to a sound one, and a call that ends a         *)
(* handler leaves the job waiting for something or released.  An action    *)
(* is then an application of such an operator.                             *)
(***************************************************************************)
EXTENDS WorkerSession, TLAPS

-----------------------------------------------------------------------------
(* The inductive invariant.                                                 *)

World == [job : [Job -> JobState], leased : BOOLEAN, m : Manager, c : Coordinator,
          inbox : Seq(Request), wire : Seq(Answer)]

\* What a worker with operation o and the messages q computes or will compute.
Works(q, o) == ToSet(q) \cup (IF o.type # "none" /\ ~o.answered THEN {o} ELSE {})
ForJob(r)    == r.type \in RunsJob /\ r.for \in Job
ForTester(r) == r.for = Tester /\ r.type # "cancel"

\* No job has anything in the worker or on its way there.
JobFree(q, o) == \A r \in Works(q, o) : ~ForJob(r)

Fenced(m) ==
    m.forced # 0 =>
        \/ m.proc = "dying"
        \/ ~m.awaiting /\ "grace" \in m.timers
        \/ /\ m.awaiting
           /\ \/ m.proc = "alive" \/ m.restarts > 0
              \/ m.timers \cap {"forcedStart", "recovery"} # {}
\* Between the exit of the process and what the manager plans after it.
Exited(m) == m.proc = "none" /\ (m.forced # 0 => m.awaiting)

ManagerSound(m) ==
    /\ m.ready => m.proc # "none"
    /\ "grace" \in m.timers => m.ready
    /\ m.restarts <= MaximumRestarts + m.spent

Asking == {"preparing", "analyzing", "waiting", "cancelling"}

\* What is left of a job that is let go of.
LetGo(c) == /\ c.active = None /\ c.at = "idle" /\ c.req = NoRequest /\ c.pending = "none"
            /\ ~c.quiet /\ ~c.media /\ ~c.next /\ ~c.polling /\ c.retry = {}

\* What the coordinator does for its job: one thing at a time.
Occupied(c) ==
    /\ (c.polling \/ c.next \/ c.media \/ c.at = "media") => c.req.type = "none"
    /\ (c.polling \/ c.req.type = "capabilities") => c.at \in Asking
    /\ c.next => ~c.polling /\ ~c.media /\ c.at # "media"
    /\ c.polling => ~c.media
CoordinatorSound(c) ==
    /\ c.active = None => LetGo(c)
    /\ (c.req.type = "none") <=> (c.req.id = 0)
    /\ Occupied(c)
    /\ c.pending # "none" => c.req.type \in RunsJob
    /\ c.quiet => c.pending # "none"

\* A request is in one place, and answered once.
Distinct(q) == \A k, l \in DOMAIN q : (k # l /\ q[k].id = q[l].id) => q[k].id = 0
RequestSound(r, o) ==
    /\ (r.id = 0) <=> (r.type = "cancel")
    /\ r.type # "cancel" => r.for \in Job \cup {Tester}
    /\ r.type = "unload" => r.for = Tester
    /\ r.id # 0 => r.id # o.id
OperationSound(o) ==
    /\ o.type = "none" => o = NoOp
    /\ o.type # "none" => o.id # 0 /\ o.for \in Job \cup {Tester}
    /\ o.type = "unload" => o.for = Tester
AnswerSound(a, q, o) ==
    /\ \A r \in ToSet(q) : r.id # a.id
    /\ a.id = o.id => o.answered
MessagesSound(q, w, o) ==
    /\ \A r \in ToSet(q) : RequestSound(r, o)
    /\ Distinct(q)
    /\ \A a \in ToSet(w) : AnswerSound(a, q, o)
    /\ OperationSound(o)

\* What carries the id of the coordinator's request is that request.
Belongs(c, q, w, o) ==
    /\ \A r \in ToSet(q) : r.id = c.req.id /\ r.id # 0 => r.type = c.req.type /\ r.for = c.active
    /\ o.id = c.req.id /\ o.id # 0 => o.type = c.req.type /\ o.for = c.active
    /\ \A a \in ToSet(w) : a.id = c.req.id =>
           /\ a.type # "unloaded"
           /\ a.type = "loaded" => c.req.type = "load"
           /\ a.type = "done" => c.req.type = "transcribe"
           /\ (a.type \in {"capabilities", "unavailable"}) <=> (c.req.type = "capabilities")

\* A process that has not greeted the desktop, or that is none, does nothing.
FreshProcess(m, o) == (m.proc = "none" \/ (m.proc = "alive" /\ ~m.ready)) => o = NoOp

\* Unless a checkpoint may fail, the work of a job is the coordinator's request.
Calm(c, q, o) ==
    ~CheckpointsMayFail =>
        /\ c.retry = {}
        /\ c.quiet => JobFree(q, o)
        /\ \A r \in Works(q, o) : ForJob(r) => r.for = c.active /\ r.id = c.req.id

\* A model test has the worker to itself, and has at most one request there.
TestSound(m, c, q, o, ts) ==
    /\ ts.phase # "idle" => c.active = None /\ c.cache = None
    /\ m.ready => \A r \in Works(q, o) : ForTester(r) =>
           r.id = ts.id /\ ts.phase \in {"loading", "transcribing", "unloading"}
TestShape(ts) ==
    /\ ts.phase = "idle" => ts = NoTest
    /\ (ts.id = 0) <=> (ts.phase \in {"idle", "waiting"})
    /\ ts.phase \in {"waiting", "loading", "loaded", "transcribing"} => ts.attempts = 0
    /\ ts.phase = "unloadDue" => ts.attempts < MaximumUnloads
    /\ ts.phase \in {"unloadDue", "unloading", "loaded", "transcribing"} => ts.loaded

\* What the coordinator remembers as resident is, while every job has the same model.
OneModelKept == ~CheckpointsMayFail /\ \A i, j \in Job : ModelOf[i] = ModelOf[j]
Kept(res) == OneModelKept /\ res \in Model \cup {None}
Remembered(c, q, w, o, res) ==
    Kept(res) =>
        /\ \A j \in Job : c.cache \in {None, ModelOf[j]}
        /\ c.cache # None => res = c.cache /\ \A r \in Works(q, o) : r.type \notin {"load", "unload"}
        /\ c.active # None /\ (c.next \/ c.req.type = "transcribe") => c.cache = ModelOf[c.active]
        /\ \A a \in ToSet(w) : a.id = c.req.id /\ a.type = "loaded" => res = ModelOf[c.active]
        /\ \A r \in Works(q, o) : ForJob(r) => r.model = ModelOf[r.for]

\* A forced cancellation is that of a job that is being let go of.
Unforced(m, c) == c.req.id # 0 /\ c.req.id = m.forced => c.pending # "none"

\* A world that some code may find, next to an operation o, a resident model res and a test ts.
Sound(s, o, res, ts) ==
    /\ s \in World
    /\ ManagerSound(s.m)
    /\ ~s.m.ready => s.inbox = <<>> /\ s.wire = <<>>
    /\ CoordinatorSound(s.c)
    /\ Unforced(s.m, s.c)
    /\ MessagesSound(s.inbox, s.wire, o)
    /\ Belongs(s.c, s.inbox, s.wire, o)
    /\ FreshProcess(s.m, o)
    /\ Calm(s.c, s.inbox, o)
    /\ TestSound(s.m, s.c, s.inbox, o, ts)
    /\ Remembered(s.c, s.inbox, s.wire, o, res)

\* The active job waits for something that comes.
Underway(i, q, w, o) ==
    \/ \E r \in ToSet(q) : r.id = i
    \/ \E a \in ToSet(w) : a.id = i
    \/ o.id = i /\ ~o.answered
Waits(s, o) ==
    s.c.active # None =>
        \/ s.c.polling \/ s.c.media \/ s.c.next \/ s.c.at = "media" \/ s.c.retry # {}
        \/ s.c.req.type = "capabilities"
        \/ s.c.pending # "none" /\ s.c.req.id = s.m.forced
        \/ /\ s.c.pending = "none" /\ s.c.req.type \in RunsJob
           /\ s.m.proc = "dying" \/ (s.m.ready /\ Underway(s.c.req.id, s.inbox, s.wire, o))

-----------------------------------------------------------------------------
(* Sequences and messages.                                                  *)

LEMMA Counts ==
    /\ Variants \in Nat /\ MaximumRestarts \in Nat /\ MaximumUnloads \in Nat
    /\ RequestIds \in Nat /\ Backlog \in Nat /\ MaximumUnloads > 0
  BY CountAssumption

LEMMA NoMessage == ToSet(<<>>) = {}
  BY DEF ToSet

LEMMA AppendMessage ==
    ASSUME NEW S, NEW q \in Seq(S), NEW e \in S
    PROVE  Append(q, e) \in Seq(S) /\ ToSet(Append(q, e)) = ToSet(q) \cup {e}
  <1>1. /\ Append(q, e) \in Seq(S)
        /\ DOMAIN Append(q, e) = 1 .. Len(q) + 1
        /\ Append(q, e)[Len(q) + 1] = e
        /\ \A k \in 1 .. Len(q) : Append(q, e)[k] = q[k]
        /\ DOMAIN q = 1 .. Len(q)
        /\ Len(q) \in Nat
    OBVIOUS
  <1>2. ToSet(Append(q, e)) \subseteq ToSet(q) \cup {e}
    BY <1>1 DEF ToSet
  <1>3. ToSet(q) \cup {e} \subseteq ToSet(Append(q, e))
    BY <1>1 DEF ToSet
  <1> QED BY <1>1, <1>2, <1>3

LEMMA FirstMessage ==
    ASSUME NEW S, NEW q \in Seq(S), q # <<>>
    PROVE  /\ Head(q) \in S /\ Tail(q) \in Seq(S)
           /\ ToSet(q) = {Head(q)} \cup ToSet(Tail(q))
  <1>1. /\ Head(q) \in S /\ Tail(q) \in Seq(S) /\ Head(q) = q[1]
        /\ DOMAIN Tail(q) = 1 .. Len(q) - 1
        /\ \A k \in 1 .. Len(q) - 1 : Tail(q)[k] = q[k + 1]
        /\ DOMAIN q = 1 .. Len(q)
        /\ Len(q) \in Nat /\ Len(q) > 0
    OBVIOUS
  <1>2. ToSet(Tail(q)) \subseteq ToSet(q)
    BY <1>1 DEF ToSet
  <1>3. ToSet(q) \subseteq {Head(q)} \cup ToSet(Tail(q))
    <2> SUFFICES ASSUME NEW k \in 1 .. Len(q) PROVE q[k] \in {Head(q)} \cup ToSet(Tail(q))
      BY <1>1 DEF ToSet
    <2>1. CASE k = 1
      BY <2>1, <1>1
    <2>2. CASE k # 1
      <3>1. k - 1 \in 1 .. Len(q) - 1 /\ Tail(q)[k - 1] = q[k]
        BY <2>2, <1>1
      <3> QED BY <3>1, <1>1 DEF ToSet
    <2> QED BY <2>1, <2>2
  <1>4. Head(q) \in ToSet(q)
    BY <1>1 DEF ToSet
  <1> QED BY <1>1, <1>2, <1>3, <1>4

LEMMA TypedMessage ==
    ASSUME NEW S, NEW q \in Seq(S)
    PROVE  ToSet(q) \subseteq S
  BY DEF ToSet

LEMMA DistinctAppend ==
    ASSUME NEW S, NEW q \in Seq(S), NEW e \in S, Distinct(q),
           e.id # 0 => \A r \in ToSet(q) : r.id # e.id
    PROVE  Distinct(Append(q, e))
  <1>1. /\ DOMAIN Append(q, e) = 1 .. Len(q) + 1
        /\ Append(q, e)[Len(q) + 1] = e
        /\ \A k \in 1 .. Len(q) : Append(q, e)[k] = q[k]
        /\ DOMAIN q = 1 .. Len(q)
        /\ Len(q) \in Nat
    OBVIOUS
  <1>2. \A k \in 1 .. Len(q) : e.id # 0 => q[k].id # e.id
    BY <1>1 DEF ToSet
  <1> SUFFICES ASSUME NEW k \in 1 .. Len(q) + 1, NEW l \in 1 .. Len(q) + 1, k # l,
                      Append(q, e)[k].id = Append(q, e)[l].id
               PROVE  Append(q, e)[k].id = 0
    BY <1>1 DEF Distinct
  <1>3. CASE k = Len(q) + 1
    <2>1. l \in 1 .. Len(q)
      BY <1>3, <1>1
    <2> QED BY <2>1, <1>1, <1>2, <1>3
  <1>4. CASE l = Len(q) + 1
    <2>1. k \in 1 .. Len(q)
      BY <1>4, <1>1
    <2> QED BY <2>1, <1>1, <1>2, <1>4
  <1>5. CASE k # Len(q) + 1 /\ l # Len(q) + 1
    <2>1. k \in 1 .. Len(q) /\ l \in 1 .. Len(q)
      BY <1>5, <1>1
    <2> QED BY <2>1, <1>1 DEF Distinct
  <1> QED BY <1>3, <1>4, <1>5

LEMMA DistinctTail ==
    ASSUME NEW S, NEW q \in Seq(S), q # <<>>, Distinct(q)
    PROVE  /\ Distinct(Tail(q))
           /\ Head(q).id # 0 => \A r \in ToSet(Tail(q)) : r.id # Head(q).id
  <1>1. /\ Head(q) = q[1]
        /\ DOMAIN Tail(q) = 1 .. Len(q) - 1
        /\ \A k \in 1 .. Len(q) - 1 : Tail(q)[k] = q[k + 1]
        /\ DOMAIN q = 1 .. Len(q)
        /\ Len(q) \in Nat /\ Len(q) > 0
    OBVIOUS
  <1>2. \A k \in 1 .. Len(q) - 1 : k + 1 \in 1 .. Len(q) /\ k + 1 # 1
    BY <1>1
  <1>3. Distinct(Tail(q))
    <2> SUFFICES ASSUME NEW k \in 1 .. Len(q) - 1, NEW l \in 1 .. Len(q) - 1, k # l,
                        Tail(q)[k].id = Tail(q)[l].id
                 PROVE  Tail(q)[k].id = 0
      BY <1>1 DEF Distinct
    <2>1. k + 1 # l + 1
      OBVIOUS
    <2> QED BY <2>1, <1>1, <1>2 DEF Distinct
  <1>4. ASSUME Head(q).id # 0, NEW k \in 1 .. Len(q) - 1
        PROVE  Tail(q)[k].id # Head(q).id
    BY <1>1, <1>2, <1>4 DEF Distinct
  <1> QED BY <1>1, <1>3, <1>4 DEF ToSet
LEMMA AnswerHasId ==
    ASSUME NEW w \in Seq(Answer), NEW a \in ToSet(w)
    PROVE  a \in Answer /\ a.id \in Id /\ a.id # 0
  <1>1. a \in Answer
    BY TypedMessage
  <1>2. a.id \in Id
    BY <1>1 DEF Answer
  <1> QED BY <1>1, <1>2, Counts DEF Id

-----------------------------------------------------------------------------
(* The ends of handlers.                                                    *)

LEMMA VacantIsLetGo ==
    ASSUME NEW k, NEW r
    PROVE  LET v == [Vacant EXCEPT !.cache = k, !.runtime = r]
           IN  LetGo(v) /\ v.cache = k /\ v.runtime = r
  BY DEF Vacant, LetGo

LEMMA VacantTyped ==
    ASSUME NEW k \in Model \cup {None}, NEW r \in {"unknown", "yes", "no"}
    PROVE  [Vacant EXCEPT !.cache = k, !.runtime = r] \in Coordinator
  <1>1. NoRequest \in [id : 0 .. RequestIds, type : RunsJob \cup {"none", "capabilities"}]
    BY Counts DEF NoRequest
  <1>2. {} \in SUBSET (Cause \ {"abandon"}) /\ "none" \in Cause \cup {"none"}
    OBVIOUS
  <1> QED BY <1>1, <1>2 DEF Vacant, Coordinator

\* The job is let go of: nothing waits, and nothing of it may be in the worker.
LEMMA EndIsSound ==
    ASSUME NEW s, NEW t \in World, NEW o, NEW res, NEW ts, Sound(s, o, res, ts),
           t.m = s.m, t.inbox = s.inbox, t.wire = s.wire,
           LetGo(t.c),
           t.c.cache \in {s.c.cache, None},
           ~CheckpointsMayFail => JobFree(s.inbox, o)
    PROVE  Sound(t, o, res, ts) /\ Waits(t, o)
  <1> DEFINE c == t.c
  <1>1. /\ c.active = None /\ c.at = "idle" /\ c.req.id = 0
        /\ c.req.type = "none" /\ c.pending = "none" /\ ~c.quiet /\ ~c.media /\ ~c.next
        /\ ~c.polling /\ c.retry = {}
    BY DEF LetGo, NoRequest
  <1>2. CoordinatorSound(c)
    BY <1>1 DEF CoordinatorSound, Occupied, LetGo
  <1>3. s.wire \in Seq(Answer)
    BY DEF Sound, World
  <1>4. Belongs(c, t.inbox, t.wire, o)
    <2>1. \A a \in ToSet(t.wire) : a.id # 0
      BY <1>3, AnswerHasId
    <2> QED BY <1>1, <2>1 DEF Belongs
  <1>5. Calm(c, t.inbox, o)
    BY <1>1 DEF Sound, Calm, JobFree
  <1>6. TestSound(t.m, c, t.inbox, o, ts)
    BY <1>1 DEF Sound, TestSound
  <1>7. Remembered(c, t.inbox, t.wire, o, res)
    <2>1. \A a \in ToSet(t.wire) : a.id # 0
      BY <1>3, AnswerHasId
    <2> QED BY <1>1, <2>1 DEF Sound, Remembered
  <1>8. Sound(t, o, res, ts)
    BY <1>1, <1>2, <1>4, <1>5, <1>6, <1>7 DEF Sound, Unforced
  <1>9. Waits(t, o)
    BY <1>1 DEF Waits
  <1> QED BY <1>8, <1>9

\* Fields of the coordinator that wait for nothing of the worker: what a sound world stays
\* sound under.
LEMMA TurnIsSound ==
    ASSUME NEW s, NEW t, NEW o, NEW res, NEW ts, Sound(s, o, res, ts), t \in World,
           t.m = s.m, t.inbox = s.inbox, t.wire = s.wire,
           t.c.active = s.c.active, s.c.active # None, t.c.req = s.c.req, Occupied(t.c),
           t.c.pending = s.c.pending \/ (t.c.pending # "none" /\ s.c.req.type \in RunsJob),
           t.c.quiet => /\ t.c.pending # "none"
                        /\ s.c.quiet \/ (~CheckpointsMayFail => JobFree(s.inbox, o)),
           t.c.retry \subseteq s.c.retry \/ CheckpointsMayFail,
           Kept(res) => /\ t.c.cache \in {s.c.cache, None}
                        /\ t.c.next \/ s.c.req.type = "transcribe" => t.c.cache = ModelOf[s.c.active]
    PROVE  Sound(t, o, res, ts)
  <1>1. CoordinatorSound(t.c)
    BY DEF Sound, CoordinatorSound
  <1>2. Belongs(t.c, t.inbox, t.wire, o)
    BY DEF Sound, Belongs
  <1>3. Calm(t.c, t.inbox, o)
    BY DEF Sound, Calm, JobFree
  <1>4. TestSound(t.m, t.c, t.inbox, o, ts)
    BY DEF Sound, TestSound
  <1>5. Remembered(t.c, t.inbox, t.wire, o, res)
    BY DEF Sound, Remembered
  <1>6. Unforced(t.m, t.c)
    BY DEF Sound, Unforced
  <1> QED BY <1>1, <1>2, <1>3, <1>4, <1>5, <1>6 DEF Sound

ManagerKept(m, n) == (Fenced(m) => Fenced(n)) /\ (Exited(m) => Exited(n))

\* What every end of a handler leaves.
Handled(s, t, o, res, ts) ==
    /\ Sound(t, o, res, ts) /\ Waits(t, o)
    /\ ManagerKept(s.m, t.m) /\ t.c.cache \in {s.c.cache, None}

LEMMA ReleaseIsHandled ==
    ASSUME NEW s, NEW o, NEW res, NEW ts, Sound(s, o, res, ts),
           ~CheckpointsMayFail => JobFree(s.inbox, o)
    PROVE  Handled(s, Release(s), o, res, ts)
  <1> DEFINE t == Release(s)
  <1>1. s \in World /\ s.c \in Coordinator
    BY DEF Sound, World
  <1>2. s.c.cache \in Model \cup {None} /\ s.c.runtime \in {"unknown", "yes", "no"}
    BY <1>1 DEF Coordinator
  <1> DEFINE v == [Vacant EXCEPT !.cache = s.c.cache, !.runtime = s.c.runtime]
  <1>3. v \in Coordinator /\ LetGo(v) /\ v.cache = s.c.cache
    BY <1>2, VacantTyped, VacantIsLetGo
  <1> HIDE DEF v
  <1>4. t = [s EXCEPT !.c = v, !.leased = FALSE]
    BY DEF Release, v
  <1>5. /\ t \in World /\ t.m = s.m /\ t.inbox = s.inbox /\ t.wire = s.wire /\ t.c = v
    BY <1>1, <1>3, <1>4 DEF World
  <1> HIDE DEF t
  <1>6. Sound(t, o, res, ts) /\ Waits(t, o)
    BY <1>3, <1>5, EndIsSound
  <1> QED BY <1>3, <1>5, <1>6 DEF Handled, ManagerKept, t

LEMMA CheckpointIsHandled ==
    ASSUME NEW s, NEW o, NEW res, NEW ts, Sound(s, o, res, ts), s.c.active \in Job,
           ~CheckpointsMayFail => JobFree(s.inbox, o),
           NEW p \in Cause, NEW x \in Choice
    PROVE  Handled(s, Checkpoint(s, p, x), o, res, ts)
  <1>1. s \in World /\ s.c \in Coordinator /\ s.c.active # None
    BY NamesAssumption DEF Sound, World
  <1>2. CASE p = "abandon"
    <2> DEFINE k == [s.c EXCEPT !.cache = None]
    <2> DEFINE u == [s EXCEPT !.c = k]
    <2>1. k \in Coordinator /\ k.cache = None
      BY <1>1 DEF Coordinator
    <2>2. /\ k.active = s.c.active /\ k.req = s.c.req /\ k.pending = s.c.pending
          /\ k.quiet = s.c.quiet /\ k.retry = s.c.retry /\ k.polling = s.c.polling
          /\ k.next = s.c.next /\ k.media = s.c.media /\ k.at = s.c.at
      BY <1>1 DEF Coordinator
    <2> HIDE DEF k
    <2>3. /\ u \in World /\ u.m = s.m /\ u.inbox = s.inbox /\ u.wire = s.wire /\ u.c = k
      BY <1>1, <2>1 DEF World
    <2>4. Checkpoint(s, p, x) = Release(u)
      BY <1>2 DEF Checkpoint, k
    <2> HIDE DEF u
    <2> DEFINE t == Release(u)
    <2>5. t.m = u.m /\ t.inbox = u.inbox /\ t.wire = u.wire
      BY <2>3 DEF Release, World
    <2>6. t \in World /\ LetGo(t.c) /\ t.c.cache = None
      <3> DEFINE v == [Vacant EXCEPT !.cache = u.c.cache, !.runtime = u.c.runtime]
      <3>1. u.c.cache = None /\ u.c.runtime \in {"unknown", "yes", "no"}
        BY <2>1, <2>3 DEF Coordinator
      <3>2. v \in Coordinator /\ LetGo(v) /\ v.cache = u.c.cache
        BY <3>1, VacantTyped, VacantIsLetGo
      <3> HIDE DEF v
      <3>3. t = [u EXCEPT !.c = v, !.leased = FALSE]
        BY DEF Release, v
      <3> QED BY <2>3, <3>1, <3>2, <3>3 DEF World
    <2> HIDE DEF t
    <2>7. Sound(t, o, res, ts) /\ Waits(t, o)
      BY <2>3, <2>5, <2>6, EndIsSound
    <2> QED BY <2>3, <2>4, <2>5, <2>6, <2>7 DEF Handled, ManagerKept, t
  <1>3. CASE p # "abandon" /\ x.ok
    <2> DEFINE u == [s EXCEPT !.job[s.c.active] = Outcome[p]]
    <2>1. Outcome[p] \in JobState
      BY <1>3 DEF Cause, Outcome, JobState
    <2>2. /\ u \in World /\ u.m = s.m /\ u.inbox = s.inbox /\ u.wire = s.wire /\ u.c = s.c
      BY <1>1, <2>1 DEF World
    <2>3. Checkpoint(s, p, x) = Release(u)
      BY <1>3 DEF Checkpoint
    <2> HIDE DEF u
    <2>4. Sound(u, o, res, ts)
      BY <2>2 DEF Sound
    <2>5. Handled(u, Release(u), o, res, ts)
      BY <2>2, <2>4, ReleaseIsHandled
    <2> QED BY <2>2, <2>3, <2>5 DEF Handled
  <1>4. CASE p # "abandon" /\ ~x.ok
    <2> DEFINE k == [s.c EXCEPT !.retry = @ \cup {p}, !.at = IF p = "cancel" THEN "cancelling" ELSE @]
    <2> DEFINE t == [s EXCEPT !.c = k]
    <2>1. CheckpointsMayFail
      BY <1>4, FlagAssumption DEF Choice
    <2>2. s.c.retry \cup {p} \in SUBSET (Cause \ {"abandon"})
      BY <1>1, <1>4 DEF Coordinator
    <2>3. (IF p = "cancel" THEN "cancelling" ELSE s.c.at) \in
             {"idle", "preparing", "media", "analyzing", "waiting", "loading", "transcribing", "cancelling"}
      BY <1>1 DEF Coordinator
    <2>4. k \in Coordinator
      BY <1>1, <2>2, <2>3 DEF Coordinator
    <2>5. /\ k.active = s.c.active /\ k.req = s.c.req /\ k.pending = s.c.pending
          /\ k.quiet = s.c.quiet /\ k.retry # {} /\ k.polling = s.c.polling
          /\ k.next = s.c.next /\ k.media = s.c.media /\ k.at \in {s.c.at, "cancelling"}
          /\ k.cache = s.c.cache
      BY <1>1 DEF Coordinator
    <2>6. Checkpoint(s, p, x) = t
      BY <1>1, <1>4 DEF Checkpoint, World, Coordinator
    <2> HIDE DEF k
    <2>7. /\ t \in World /\ t.m = s.m /\ t.inbox = s.inbox /\ t.wire = s.wire /\ t.c = k
      BY <1>1, <2>4 DEF World
    <2> HIDE DEF t
    <2>8. Sound(t, o, res, ts)
      <3>1. CoordinatorSound(s.c) /\ Calm(s.c, s.inbox, o) /\ Remembered(s.c, s.inbox, s.wire, o, res)
        BY DEF Sound
      <3>2. Occupied(t.c)
        BY <2>5, <2>7, <3>1 DEF CoordinatorSound, Occupied, Asking
      <3>4. t.c.quiet => /\ t.c.pending # "none"
                         /\ s.c.quiet \/ (~CheckpointsMayFail => JobFree(s.inbox, o))
        BY <2>5, <2>7, <3>1 DEF CoordinatorSound
      <3>5. ~Kept(res)
        BY <2>1 DEF Kept, OneModelKept
      <3> QED BY <1>1, <2>1, <2>5, <2>7, <3>2, <3>4, <3>5, TurnIsSound
    <2> QED BY <2>5, <2>6, <2>7, <2>8 DEF Handled, Waits, ManagerKept
  <1> QED BY <1>2, <1>3, <1>4
LEMMA CauseIsKnown ==
    ASSUME NEW s, NEW p \in Cause
    PROVE  CauseOf(s, p) \in Cause
  BY DEF CauseOf, Cause

LEMMA FinishIsHandled ==
    ASSUME NEW s, NEW o, NEW res, NEW ts, Sound(s, o, res, ts), s.c.pending # "none",
           ~CheckpointsMayFail => JobFree(s.inbox, o), NEW x \in Choice
    PROVE  Handled(s, FinishPendingTerminalCheckpoint(s, x), o, res, ts)
  <1>1. s \in World /\ s.c \in Coordinator /\ CoordinatorSound(s.c)
    BY DEF Sound, World
  <1>2. s.c.active \in Job /\ s.c.req.type \in RunsJob /\ s.c.active # None
    BY <1>1 DEF CoordinatorSound, LetGo, Coordinator
  <1>3. s.c.pending \in Cause
    BY <1>1 DEF Coordinator
  <1> DEFINE p == CauseOf(s, s.c.pending)
  <1>4. p \in Cause
    BY <1>3, CauseIsKnown
  <1> HIDE DEF p
  <1> DEFINE k == [s.c EXCEPT !.pending = p, !.quiet = TRUE]
  <1> DEFINE u == [s EXCEPT !.c = k]
  <1>5. k \in Coordinator
    BY <1>1, <1>4 DEF Coordinator
  <1>6. /\ k.active = s.c.active /\ k.req = s.c.req /\ k.pending = p
        /\ k.retry = s.c.retry /\ k.polling = s.c.polling /\ k.cache = s.c.cache
        /\ k.next = s.c.next /\ k.media = s.c.media /\ k.at = s.c.at
    BY <1>1 DEF Coordinator
  <1>7. FinishPendingTerminalCheckpoint(s, x) = Checkpoint(u, p, x)
    BY <1>1 DEF FinishPendingTerminalCheckpoint, p, World
  <1> HIDE DEF k
  <1>8. u \in World /\ u.m = s.m /\ u.inbox = s.inbox /\ u.wire = s.wire /\ u.c = k
    BY <1>1, <1>5 DEF World
  <1> HIDE DEF u
  <1>9. Sound(u, o, res, ts)
    <2>1. u.c.pending # "none"
      BY <1>4, <1>6, <1>8 DEF Cause
    <2>2. Occupied(u.c)
      BY <1>1, <1>6, <1>8 DEF CoordinatorSound, Occupied
    <2>4. Kept(res) =>
             /\ u.c.cache \in {s.c.cache, None}
             /\ u.c.next \/ s.c.req.type = "transcribe" => u.c.cache = ModelOf[s.c.active]
      <3>1. Remembered(s.c, s.inbox, s.wire, o, res)
        BY DEF Sound
      <3> QED BY <3>1, <1>2, <1>6, <1>8 DEF Remembered
    <2> QED BY <1>2, <1>6, <1>8, <2>1, <2>2, <2>4, TurnIsSound
  <1>10. Handled(u, Checkpoint(u, p, x), o, res, ts)
    BY <1>2, <1>4, <1>6, <1>8, <1>9, CheckpointIsHandled
  <1> QED BY <1>6, <1>7, <1>8, <1>10 DEF Handled

LEMMA CalmManager ==
    ASSUME NEW s, NEW t, NEW o, NEW res, NEW ts, Sound(s, o, res, ts), t \in World,
           t.c = s.c, t.inbox = s.inbox, t.wire = s.wire, ManagerSound(t.m), Unforced(t.m, t.c),
           t.m.proc = s.m.proc, t.m.ready <=> s.m.ready
    PROVE  Sound(t, o, res, ts)
  BY DEF Sound, FreshProcess, TestSound

LEMMA SettledManager ==
    ASSUME NEW m \in Manager, ManagerSound(m)
    PROVE  LET n == [m EXCEPT !.forced = 0, !.awaiting = FALSE, !.timers = @ \ {"grace", "recovery"}]
           IN  /\ n \in Manager /\ ManagerSound(n) /\ Fenced(n) /\ (Exited(m) => Exited(n))
               /\ n.proc = m.proc /\ n.ready = m.ready /\ n.forced = 0
  <1> DEFINE n == [m EXCEPT !.forced = 0, !.awaiting = FALSE, !.timers = @ \ {"grace", "recovery"}]
  <1>1. 0 \in 0 .. RequestIds
    BY Counts
  <1>2. m.timers \ {"grace", "recovery"} \in SUBSET Timer
    BY DEF Manager
  <1>3. n \in Manager
    BY <1>1, <1>2 DEF Manager
  <1>4. /\ n.proc = m.proc /\ n.ready = m.ready /\ n.forced = 0 /\ n.spent = m.spent
        /\ n.restarts = m.restarts /\ n.timers \subseteq m.timers
    BY DEF Manager
  <1> HIDE DEF n
  <1>5. ManagerSound(n) /\ Fenced(n) /\ (Exited(m) => Exited(n))
    BY <1>4 DEF ManagerSound, Fenced, Exited
  <1> QED BY <1>3, <1>4, <1>5 DEF n

\* A fence that is lifted, with or without a job behind it.
LEMMA SettleIsHandled ==
    ASSUME NEW s, NEW o, NEW res, NEW ts, Sound(s, o, res, ts),
           s.m.forced # 0 /\ s.c.pending # "none" => (~CheckpointsMayFail => JobFree(s.inbox, o)),
           NEW x \in Choice
    PROVE  LET t == SettleForcedCancellation(s, x)
           IN  /\ Sound(t, o, res, ts) /\ ManagerKept(s.m, t.m)
               /\ s.m.forced # 0 => Fenced(t.m)
               /\ t.c.cache \in {s.c.cache, None}
               /\ t.m.forced = 0 /\ t.m.ready = s.m.ready /\ t.m.proc = s.m.proc
               /\ Waits(s, o) \/ (s.m.forced # 0 /\ s.c.pending # "none") => Waits(t, o)
               /\ s.c.pending = "none" => t.c = s.c /\ t.inbox = s.inbox /\ t.wire = s.wire
  <1>1. s \in World /\ s.m \in Manager /\ ManagerSound(s.m)
    BY DEF Sound, World
  <1>2. CASE s.m.forced = 0
    BY <1>2 DEF SettleForcedCancellation, ManagerKept
  <1>3. CASE s.m.forced # 0
    <2> DEFINE n == [s.m EXCEPT !.forced = 0, !.awaiting = FALSE, !.timers = @ \ {"grace", "recovery"}]
    <2> DEFINE u == [s EXCEPT !.m = n]
    <2> DEFINE t == SettleForcedCancellation(s, x)
    <2>1. /\ n \in Manager /\ ManagerSound(n) /\ Fenced(n) /\ (Exited(s.m) => Exited(n))
          /\ n.proc = s.m.proc /\ n.ready = s.m.ready /\ n.forced = 0
      BY <1>1, SettledManager
    <2>2. t = FinishPendingTerminalCheckpoint(u, x)
      BY <1>1, <1>3 DEF SettleForcedCancellation, World, Manager
    <2> HIDE DEF n, t
    <2>3. u \in World /\ u.m = n /\ u.inbox = s.inbox /\ u.wire = s.wire /\ u.c = s.c
      BY <1>1, <2>1 DEF World
    <2> HIDE DEF u
    <2>4. Sound(u, o, res, ts)
      <3>1. Unforced(u.m, u.c)
        BY <2>1, <2>3 DEF Unforced
      <3> QED BY <2>1, <2>3, <3>1, CalmManager
    <2>5. CASE s.c.pending = "none"
      <3>1. t = u
        BY <2>2, <2>3, <2>5 DEF FinishPendingTerminalCheckpoint
      <3>2. Waits(s, o) => Waits(u, o)
        BY <2>1, <2>3, <2>5 DEF Waits
      <3> QED BY <1>3, <2>1, <2>3, <2>4, <2>5, <3>1, <3>2 DEF ManagerKept, t
    <2>6. CASE s.c.pending # "none"
      <3>1. Handled(u, t, o, res, ts)
        BY <1>3, <2>2, <2>3, <2>4, <2>6, FinishIsHandled
      <3>2. t.m = u.m
        BY <2>2, <2>3 DEF FinishPendingTerminalCheckpoint, Checkpoint, Release, World
      <3> QED BY <1>3, <2>1, <2>3, <2>6, <3>1, <3>2 DEF Handled, ManagerKept, t
    <2> QED BY <2>5, <2>6
  <1> QED BY <1>2, <1>3
LEMMA WorksOfNothing ==
    ASSUME NEW q, NEW o
    PROVE  /\ Works(<<>>, o) \subseteq Works(q, o)
           /\ Works(<<>>, NoOp) = {} /\ JobFree(<<>>, NoOp)
  BY NoMessage DEF Works, NoOp, JobFree

\* The channel is gone, and the process perhaps with it (o2 is NoOp).
LEMMA CutIsSound ==
    ASSUME NEW s, NEW t, NEW o, NEW o2, NEW res, NEW ts,
           Sound(s, o, res, ts), t \in World, o2 \in {o, NoOp},
           t.c = s.c, t.inbox = <<>>, t.wire = <<>>, ~t.m.ready, t.m.forced = s.m.forced,
           ManagerSound(t.m), FreshProcess(t.m, o2)
    PROVE  Sound(t, o2, res, ts)
  <1>1. Works(<<>>, o2) \subseteq Works(s.inbox, o)
    BY NoMessage DEF Works, NoOp
  <1>2. MessagesSound(t.inbox, t.wire, o2)
    <2>1. OperationSound(o2)
      BY DEF Sound, MessagesSound, OperationSound, NoOp
    <2> QED BY <2>1, NoMessage DEF MessagesSound, Distinct
  <1>3. Belongs(t.c, t.inbox, t.wire, o2)
    BY NoMessage DEF Sound, Belongs, NoOp
  <1>4. Calm(t.c, t.inbox, o2)
    BY <1>1 DEF Sound, Calm, JobFree
  <1>5. TestSound(t.m, t.c, t.inbox, o2, ts)
    BY DEF Sound, TestSound
  <1>6. Remembered(t.c, t.inbox, t.wire, o2, res)
    BY <1>1, NoMessage DEF Sound, Remembered
  <1> QED BY <1>2, <1>3, <1>4, <1>5, <1>6 DEF Sound, Unforced

LEMMA DisconnectedManager ==
    ASSUME NEW m \in Manager, ManagerSound(m), NEW q \in {"none", "alive", "dying"}
    PROVE  LET n == [m EXCEPT !.proc = q, !.ready = FALSE, !.timers = @ \ {"grace"}]
           IN  /\ n \in Manager /\ ManagerSound(n)
               /\ n.proc = q /\ ~n.ready /\ n.forced = m.forced /\ n.awaiting = m.awaiting
               /\ n.restarts = m.restarts /\ n.spent = m.spent /\ n.timers = m.timers \ {"grace"}
  <1> DEFINE n == [m EXCEPT !.proc = q, !.ready = FALSE, !.timers = @ \ {"grace"}]
  <1>1. m.timers \ {"grace"} \in SUBSET Timer
    BY DEF Manager
  <1>2. n \in Manager
    BY <1>1 DEF Manager
  <1>3. /\ n.proc = q /\ ~n.ready /\ n.forced = m.forced /\ n.awaiting = m.awaiting
        /\ n.restarts = m.restarts /\ n.spent = m.spent /\ n.timers = m.timers \ {"grace"}
    BY DEF Manager
  <1> HIDE DEF n
  <1>4. ManagerSound(n)
    BY <1>3 DEF ManagerSound
  <1> QED BY <1>2, <1>3, <1>4 DEF n

\* Disconnect and Kill together.
LEMMA CutFields ==
    ASSUME NEW s \in World, ManagerSound(s.m)
    PROVE  LET t == Kill(Disconnect(s))
           IN  /\ t \in World /\ ManagerSound(t.m)
               /\ t.c = s.c /\ t.inbox = <<>> /\ t.wire = <<>> /\ t.job = s.job /\ t.leased = s.leased
               /\ ~t.m.ready /\ t.m.proc = (IF s.m.proc = "none" THEN "none" ELSE "dying")
               /\ t.m.forced = s.m.forced /\ t.m.awaiting = s.m.awaiting
  <1> DEFINE q == IF s.m.proc = "none" THEN "none" ELSE "dying"
  <1> DEFINE n == [s.m EXCEPT !.proc = q, !.ready = FALSE, !.timers = @ \ {"grace"}]
  <1>1. s.m \in Manager /\ q \in {"none", "alive", "dying"}
    BY DEF World
  <1>2. /\ n \in Manager /\ ManagerSound(n) /\ n.proc = q /\ ~n.ready
        /\ n.forced = s.m.forced /\ n.awaiting = s.m.awaiting
    BY <1>1, DisconnectedManager
  <1>3. Kill(Disconnect(s)) = [s EXCEPT !.m = n, !.inbox = <<>>, !.wire = <<>>]
    BY ZenonT(60), <1>1 DEF Kill, Disconnect, World, Manager
  <1> HIDE DEF n
  <1>4. <<>> \in Seq(Request) /\ <<>> \in Seq(Answer)
    OBVIOUS
  <1> QED BY <1>2, <1>3, <1>4 DEF World

LEMMA DisconnectFields ==
    ASSUME NEW s \in World, ManagerSound(s.m)
    PROVE  LET t == Disconnect(s)
           IN  /\ t \in World /\ ManagerSound(t.m)
               /\ t.c = s.c /\ t.inbox = <<>> /\ t.wire = <<>> /\ t.job = s.job /\ t.leased = s.leased
               /\ ~t.m.ready /\ t.m.proc = s.m.proc
               /\ t.m.forced = s.m.forced /\ t.m.awaiting = s.m.awaiting
  <1> DEFINE n == [s.m EXCEPT !.proc = s.m.proc, !.ready = FALSE, !.timers = @ \ {"grace"}]
  <1>1. s.m \in Manager /\ s.m.proc \in {"none", "alive", "dying"}
    BY DEF World, Manager
  <1>2. /\ n \in Manager /\ ManagerSound(n) /\ n.proc = s.m.proc /\ ~n.ready
        /\ n.forced = s.m.forced /\ n.awaiting = s.m.awaiting
    BY <1>1, DisconnectedManager
  <1>3. Disconnect(s) = [s EXCEPT !.m = n, !.inbox = <<>>, !.wire = <<>>]
    BY <1>1 DEF Disconnect, World, Manager
  <1> HIDE DEF n
  <1>4. <<>> \in Seq(Request) /\ <<>> \in Seq(Answer)
    OBVIOUS
  <1> QED BY <1>2, <1>3, <1>4 DEF World

\* The process, if there is one, is killed; without one a fence is lifted at once.
LEMMA AbortIsHandled ==
    ASSUME NEW s, NEW o, NEW res, NEW ts, NEW x, Sound(s, o, res, ts), Waits(s, o), x \in Choice
    PROVE  Handled(s, AbortImmediately(s, x), o, res, ts)
  <1>1. s \in World /\ s.m \in Manager /\ ManagerSound(s.m)
    BY DEF Sound, World
  <1>2. CASE s.m.proc = "none"
    <2> DEFINE d == Disconnect(s)
    <2> DEFINE t == SettleForcedCancellation(d, x)
    <2>1. /\ d \in World /\ ManagerSound(d.m) /\ d.c = s.c /\ d.inbox = <<>> /\ d.wire = <<>>
          /\ ~d.m.ready /\ d.m.proc = "none" /\ d.m.forced = s.m.forced /\ d.m.awaiting = s.m.awaiting
      BY <1>1, <1>2, DisconnectFields
    <2> HIDE DEF d
    <2>2. o = NoOp
      BY <1>2 DEF Sound, FreshProcess
    <2>3. Sound(d, o, res, ts)
      BY <2>1, <2>2, CutIsSound DEF FreshProcess
    <2>4. JobFree(d.inbox, o)
      BY <2>1, <2>2, WorksOfNothing
    <2>5. /\ Sound(t, o, res, ts) /\ ManagerKept(d.m, t.m)
          /\ d.m.forced # 0 => Fenced(t.m)
          /\ t.c.cache \in {d.c.cache, None}
          /\ t.m.forced = 0 /\ t.m.ready = d.m.ready /\ t.m.proc = d.m.proc
          /\ Waits(d, o) \/ (d.m.forced # 0 /\ d.c.pending # "none") => Waits(t, o)
      BY <2>3, <2>4, SettleIsHandled
    <2>6. Waits(s, o) => Waits(d, o)
      BY <1>1, <1>2, <2>1 DEF Waits, ManagerSound
    <2>7. ManagerKept(s.m, t.m)
      BY <2>1, <2>5 DEF ManagerKept, Fenced, Exited
    <2>8. AbortImmediately(s, x) = t
      BY <1>2 DEF AbortImmediately, d
    <2> HIDE DEF t
    <2> QED BY <2>1, <2>5, <2>6, <2>7, <2>8 DEF Handled
  <1>3. CASE s.m.proc # "none"
    <2> DEFINE t == Kill(Disconnect(s))
    <2>1. /\ t \in World /\ ManagerSound(t.m)
          /\ t.c = s.c /\ t.inbox = <<>> /\ t.wire = <<>>
          /\ ~t.m.ready /\ t.m.proc = "dying" /\ t.m.forced = s.m.forced
      BY <1>1, <1>3, CutFields
    <2>2. AbortImmediately(s, x) = t
      BY <1>3 DEF AbortImmediately
    <2> HIDE DEF t
    <2>3. Sound(t, o, res, ts)
      BY <2>1, CutIsSound DEF FreshProcess
    <2>4. Waits(t, o)
      BY <2>1 DEF Waits
    <2>5. ManagerKept(s.m, t.m) /\ Fenced(t.m)
      BY <1>3, <2>1 DEF ManagerKept, Fenced, Exited
    <2> QED BY <2>1, <2>2, <2>3, <2>4, <2>5 DEF Handled
  <1> QED BY <1>2, <1>3
LEMMA WorksAppend ==
    ASSUME NEW q \in Seq(Request), NEW e \in Request, NEW o
    PROVE  Works(Append(q, e), o) = Works(q, o) \cup {e}
  BY AppendMessage DEF Works

\* A CancelJob message is nobody's request.
LEMMA CancelIsSound ==
    ASSUME NEW s, NEW t, NEW o, NEW res, NEW ts, NEW e, Sound(s, o, res, ts), t \in World,
           e \in Request, e.type = "cancel", e.id = 0,
           t.c = s.c, t.wire = s.wire, t.inbox = Append(s.inbox, e), Unforced(t.m, t.c),
           ManagerSound(t.m), t.m.proc = s.m.proc, t.m.ready <=> s.m.ready, s.m.ready
    PROVE  Sound(t, o, res, ts)
  <1>1. s \in World /\ s.inbox \in Seq(Request) /\ s.wire \in Seq(Answer)
    BY DEF Sound, World
  <1>2. ToSet(t.inbox) = ToSet(s.inbox) \cup {e} /\ Works(t.inbox, o) = Works(s.inbox, o) \cup {e}
    BY <1>1, AppendMessage, WorksAppend
  <1>3. ~ForJob(e) /\ ~ForTester(e)
    BY DEF ForJob, ForTester, RunsJob
  <1>4. MessagesSound(t.inbox, t.wire, o)
    <2>1. Distinct(t.inbox)
      BY <1>1, DistinctAppend DEF Sound, MessagesSound
    <2>2. RequestSound(e, o)
      BY DEF RequestSound
    <2>3. \A a \in ToSet(t.wire) : AnswerSound(a, t.inbox, o)
      BY <1>1, <1>2, AnswerHasId DEF Sound, MessagesSound, AnswerSound
    <2> QED BY <1>2, <2>1, <2>2, <2>3 DEF Sound, MessagesSound
  <1>5. Belongs(t.c, t.inbox, t.wire, o)
    BY <1>2 DEF Sound, Belongs
  <1>6. Calm(t.c, t.inbox, o)
    BY <1>2, <1>3 DEF Sound, Calm, JobFree
  <1>7. TestSound(t.m, t.c, t.inbox, o, ts)
    BY <1>2, <1>3 DEF Sound, TestSound
  <1>8. Remembered(t.c, t.inbox, t.wire, o, res)
    BY <1>2, <1>3 DEF Sound, Remembered
  <1> QED BY <1>4, <1>5, <1>6, <1>7, <1>8 DEF Sound, FreshProcess

Fencing(m, i, q, w) ==
    [m EXCEPT !.forced = i, !.awaiting = ~m.ready, !.proc = q, !.timers = @ \cup w]

LEMMA FencedManager ==
    ASSUME NEW m, NEW i, NEW q, NEW w,
           m \in Manager, ManagerSound(m), i \in 1 .. RequestIds,
           q \in {"none", "alive", "dying"}, w \in SUBSET Timer,
           m.ready => q # "none", "grace" \in w => m.ready
    PROVE  /\ Fencing(m, i, q, w) \in Manager /\ ManagerSound(Fencing(m, i, q, w))
           /\ Fencing(m, i, q, w).forced = i /\ Fencing(m, i, q, w).ready = m.ready
           /\ Fencing(m, i, q, w).proc = q
           /\ Fencing(m, i, q, w).awaiting = ~m.ready
           /\ Fencing(m, i, q, w).timers = m.timers \cup w
           /\ Fencing(m, i, q, w).restarts = m.restarts
  <1> DEFINE n == Fencing(m, i, q, w)
  <1>1. i \in 0 .. RequestIds /\ m.timers \cup w \in SUBSET Timer /\ (~m.ready) \in BOOLEAN
    BY Counts DEF Manager
  <1>2. n \in Manager
    BY <1>1 DEF Manager, Fencing
  <1>3. /\ n.forced = i /\ n.ready = m.ready /\ n.proc = q /\ n.spent = m.spent
        /\ n.awaiting = ~m.ready /\ n.timers = m.timers \cup w /\ n.restarts = m.restarts
    BY <1>1 DEF Manager, Fencing
  <1> HIDE DEF n
  <1>4. ManagerSound(n)
    BY <1>3 DEF ManagerSound
  <1> QED BY <1>2, <1>3, <1>4 DEF n

\* The fence of a forced cancellation: something will lift it.
LEMMA ForceIsHandled ==
    ASSUME NEW s, NEW o, NEW res, NEW ts, Sound(s, o, res, ts), s.c.pending # "none"
    PROVE  LET t == ForceCancelAfterGrace(s)
           IN  /\ Handled(s, t, o, res, ts)
               /\ t.c = s.c /\ t.m.proc \in {s.m.proc, "dying"} /\ t.m.forced = s.c.req.id
               /\ t.leased = s.leased /\ t.job = s.job
               /\ s.m.proc = "none" => t.m.proc = "none"
  <1>1. /\ s \in World /\ s.m \in Manager /\ ManagerSound(s.m) /\ s.c \in Coordinator
        /\ s.inbox \in Seq(Request) /\ CoordinatorSound(s.c)
    BY DEF Sound, World
  <1>2. s.c.active \in Job /\ s.c.req.type \in RunsJob
    BY <1>1 DEF CoordinatorSound, LetGo, Coordinator
  <1>3. s.c.req.id \in 1 .. RequestIds
    <2>1. s.c.req.id \in 0 .. RequestIds /\ s.c.req.id # 0
      BY <1>1, <1>2 DEF CoordinatorSound, Coordinator, RunsJob
    <2> QED BY <2>1, Counts
  <1> DEFINE t == ForceCancelAfterGrace(s)
  <1> DEFINE i == s.c.req.id
  <1>4. CASE s.m.forced = i
    <2>1. t = s
      BY <1>4 DEF ForceCancelAfterGrace
    <2> HIDE DEF t
    <2> QED BY <1>4, <2>1 DEF Handled, Waits, ManagerKept, t
  <1>5. CASE s.m.forced # i /\ s.m.ready
    <2> DEFINE k == Fencing(s.m, i, s.m.proc, {"grace"})
    <2> DEFINE e == [type |-> "cancel", id |-> 0, model |-> None,
                     for |-> IF s.c.req.type = "load" THEN None ELSE s.c.active]
    <2>1. /\ s.m.proc \in {"none", "alive", "dying"} /\ (s.m.ready => s.m.proc # "none")
          /\ {"grace"} \in SUBSET Timer /\ ("grace" \in {"grace"} => s.m.ready)
      BY <1>1, <1>5 DEF ManagerSound, Manager, Timer
    <2>2. /\ k \in Manager /\ ManagerSound(k) /\ k.forced = i /\ k.ready = s.m.ready
          /\ k.proc = s.m.proc /\ k.awaiting = ~s.m.ready /\ k.timers = s.m.timers \cup {"grace"}
      BY <1>1, <1>3, <2>1, FencedManager
    <2>3. e \in Request /\ e.type = "cancel" /\ e.id = 0
      <3>1. 0 \in 0 .. RequestIds
        BY Counts
      <3> QED BY <1>2, <3>1 DEF Request
    <2>4. t = [s EXCEPT !.m = k, !.inbox = Append(s.inbox, e)]
      <3>1. t = [[s EXCEPT !.m.forced = i, !.m.awaiting = ~s.m.ready]
                    EXCEPT !.m.timers = @ \cup {"grace"}, !.inbox = Append(@, e)]
        BY <1>5 DEF ForceCancelAfterGrace
      <3> HIDE DEF e, t, i
      <3>2. k = [s.m EXCEPT !.forced = i, !.awaiting = ~s.m.ready, !.timers = @ \cup {"grace"}]
        BY <1>1 DEF Fencing, Manager
      <3>3. s.m.timers = [s EXCEPT !.m.forced = i, !.m.awaiting = ~s.m.ready].m.timers
        BY <1>1 DEF World, Manager
      <3> HIDE DEF k
      <3> QED BY <1>1, <3>1, <3>2, <3>3 DEF World, Manager
    <2> HIDE DEF k, e, t
    <2>5. Append(s.inbox, e) \in Seq(Request)
      BY <1>1, <2>3
    <2>6. /\ t \in World /\ t.m = k /\ t.c = s.c /\ t.inbox = Append(s.inbox, e)
          /\ t.wire = s.wire /\ t.leased = s.leased /\ t.job = s.job
      BY <1>1, <2>2, <2>4, <2>5 DEF World
    <2>7. Sound(t, o, res, ts)
      <3>1. Unforced(t.m, t.c)
        BY <2>6 DEF Unforced
      <3> QED BY <1>5, <2>2, <2>3, <2>6, <3>1, CancelIsSound
    <2>8. Waits(t, o)
      BY <2>2, <2>6 DEF Waits
    <2>9. ManagerKept(s.m, t.m)
      BY <1>1, <1>5, <2>2, <2>6 DEF ManagerKept, Fenced, Exited, ManagerSound
    <2> QED BY <2>2, <2>6, <2>7, <2>8, <2>9 DEF Handled, t
  <1>6. CASE s.m.forced # i /\ ~s.m.ready /\ s.m.proc # "none"
    <2> DEFINE k == Fencing(s.m, i, "dying", {})
    <2>1. /\ "dying" \in {"none", "alive", "dying"} /\ (s.m.ready => "dying" # "none")
          /\ {} \in SUBSET Timer /\ ("grace" \in {} => s.m.ready)
      OBVIOUS
    <2>2. /\ k \in Manager /\ ManagerSound(k) /\ k.forced = i /\ k.ready = s.m.ready
          /\ k.proc = "dying"
      BY <1>1, <1>3, <2>1, FencedManager
    <2>4. t = [s EXCEPT !.m = k]
      <3>1. k = [s.m EXCEPT !.forced = i, !.awaiting = ~s.m.ready, !.proc = "dying"]
        <4>1. s.m.timers \cup {} = s.m.timers
          OBVIOUS
        <4> QED BY <1>1, <4>1 DEF Fencing, Manager
      <3>2. t = Kill([s EXCEPT !.m.forced = i, !.m.awaiting = ~s.m.ready])
        BY <1>6 DEF ForceCancelAfterGrace
      <3>3. [s EXCEPT !.m.forced = i, !.m.awaiting = ~s.m.ready].m.proc # "none"
        BY <1>1, <1>6 DEF World, Manager
      <3> HIDE DEF k, t, i
      <3> QED BY <1>1, <3>1, <3>2, <3>3 DEF Kill, World, Manager
    <2> HIDE DEF k, t
    <2>6. /\ t \in World /\ t.m = k /\ t.c = s.c /\ t.inbox = s.inbox
          /\ t.wire = s.wire /\ t.leased = s.leased /\ t.job = s.job
      BY <1>1, <2>2, <2>4 DEF World
    <2>7. Sound(t, o, res, ts)
      BY <1>6, <2>2, <2>6 DEF Sound, FreshProcess, TestSound, Unforced
    <2>8. Waits(t, o)
      BY <2>2, <2>6 DEF Waits
    <2>9. ManagerKept(s.m, t.m)
      BY <1>6, <2>2, <2>6 DEF ManagerKept, Fenced, Exited
    <2> QED BY <1>6, <2>2, <2>6, <2>7, <2>8, <2>9 DEF Handled, t
  <1>7. CASE s.m.forced # i /\ ~s.m.ready /\ s.m.proc = "none"
    <2> DEFINE k == Fencing(s.m, i, "none", {"forcedStart"})
    <2>1. /\ "none" \in {"none", "alive", "dying"} /\ (s.m.ready => "none" # "none")
          /\ {"forcedStart"} \in SUBSET Timer /\ ("grace" \in {"forcedStart"} => s.m.ready)
      BY <1>7 DEF Timer
    <2>2. /\ k \in Manager /\ ManagerSound(k) /\ k.forced = i /\ k.ready = s.m.ready
          /\ k.proc = "none" /\ k.awaiting = ~s.m.ready
          /\ k.timers = s.m.timers \cup {"forcedStart"}
      BY <1>1, <1>3, <2>1, FencedManager
    <2>4. t = [s EXCEPT !.m = k]
      <3>1. k = [s.m EXCEPT !.forced = i, !.awaiting = ~s.m.ready, !.timers = @ \cup {"forcedStart"}]
        BY <1>1, <1>7 DEF Fencing, Manager
      <3>2. t = [[s EXCEPT !.m.forced = i, !.m.awaiting = ~s.m.ready]
                    EXCEPT !.m.timers = @ \cup {"forcedStart"}]
        BY <1>7 DEF ForceCancelAfterGrace
      <3>3. s.m.timers = [s EXCEPT !.m.forced = i, !.m.awaiting = ~s.m.ready].m.timers
        BY <1>1 DEF World, Manager
      <3> HIDE DEF k, t, i
      <3> QED BY <1>1, <3>1, <3>2, <3>3 DEF World, Manager
    <2> HIDE DEF k, t
    <2>6. /\ t \in World /\ t.m = k /\ t.c = s.c /\ t.inbox = s.inbox
          /\ t.wire = s.wire /\ t.leased = s.leased /\ t.job = s.job
      BY <1>1, <2>2, <2>4 DEF World
    <2>7. Sound(t, o, res, ts)
      <3>1. Unforced(t.m, t.c)
        BY <2>6 DEF Unforced
      <3> QED BY <1>7, <2>2, <2>6, <3>1, CalmManager
    <2>8. Waits(t, o)
      BY <2>2, <2>6 DEF Waits
    <2>9. ManagerKept(s.m, t.m)
      BY <1>7, <2>2, <2>6 DEF ManagerKept, Fenced, Exited
    <2> QED BY <1>7, <2>2, <2>6, <2>7, <2>8, <2>9 DEF Handled, t
  <1> QED BY <1>4, <1>5, <1>6, <1>7

\* Without a request that may run, a job has nothing in the worker.
LEMMA IdleIsJobFree ==
    ASSUME NEW s, NEW o, NEW res, NEW ts,
           Sound(s, o, res, ts), s.c.req.type \notin RunsJob, ~CheckpointsMayFail
    PROVE  JobFree(s.inbox, o)
  <1> SUFFICES ASSUME NEW r \in Works(s.inbox, o), ForJob(r) PROVE FALSE
    BY DEF JobFree
  <1>1. /\ r.id = s.c.req.id /\ r.type \in RunsJob
        /\ MessagesSound(s.inbox, s.wire, o) /\ Belongs(s.c, s.inbox, s.wire, o)
    BY DEF Sound, Calm, ForJob
  <1>2. CASE r \in ToSet(s.inbox)
    <2>1. r.id # 0
      BY <1>1, <1>2 DEF MessagesSound, RequestSound, RunsJob
    <2> QED BY <1>1, <1>2, <2>1 DEF Belongs
  <1>3. CASE r = o /\ o.type # "none"
    <2>1. o.id # 0
      BY <1>1, <1>3 DEF MessagesSound, OperationSound
    <2> QED BY <1>1, <1>3, <2>1 DEF Belongs
  <1> QED BY <1>2, <1>3 DEF Works

LEMMA HigherIsCause ==
    ASSUME NEW old, NEW new, old \in Cause \cup {"none"}, new \in Cause
    PROVE  Higher(old, new) \in Cause /\ Higher(old, new) # "none"
  BY DEF Higher, Cause

Turned(s, q) == [s EXCEPT !.c.at = IF q = "cancel" THEN "cancelling" ELSE @]
Pended(s, q) == [s EXCEPT !.c.pending = Higher(@, q)]

Settled(s, answered) == s.c.quiet \/ answered
Abandons(q) == q = "abandon"

LEMMA StopJobCases ==
    ASSUME NEW s, NEW p, NEW answered, NEW x, NEW q, q = CauseOf(s, p)
    PROVE  LET a == ActiveWorkerRequestMayStillRun(s)
               w == Pended(Turned(s, q), q)
               t == StopJob(s, p, answered, x)
           IN  /\ ~a => t = Checkpoint(Turned(s, q), q, x)
               /\ a /\ Settled(s, answered) => t = FinishPendingTerminalCheckpoint(w, x)
               /\ a /\ ~Settled(s, answered) /\ Abandons(q) =>
                    t = AbortImmediately(ForceCancelAfterGrace(w), x)
               /\ a /\ ~Settled(s, answered) /\ ~Abandons(q) => t = ForceCancelAfterGrace(w)
  <1> DEFINE a == ActiveWorkerRequestMayStillRun(s)
  <1> DEFINE b == Settled(s, answered)
  <1>1. StopJob(s, p, answered, x) =
          CASE ~a -> Checkpoint(Turned(s, q), q, x)
            [] a /\ b -> FinishPendingTerminalCheckpoint(Pended(Turned(s, q), q), x)
            [] OTHER -> IF q = "abandon"
                        THEN AbortImmediately(ForceCancelAfterGrace(Pended(Turned(s, q), q)), x)
                        ELSE ForceCancelAfterGrace(Pended(Turned(s, q), q))
    BY DEF StopJob, Turned, Pended, Settled
  <1> HIDE DEF a, b
  <1> QED BY <1>1 DEF a, b, Abandons

\* failActiveJob, finishCancellation, abandonActiveJobAfterLeaseLoss and shutdown.
LEMMA StopJobIsHandled ==
    ASSUME NEW s, NEW o, NEW res, NEW ts, NEW p, NEW answered, NEW x,
           Sound(s, o, res, ts), s.c.active \in Job, p \in Cause,
           answered => (~CheckpointsMayFail => JobFree(s.inbox, o)), x \in Choice
    PROVE  Handled(s, StopJob(s, p, answered, x), o, res, ts)
  <1>1. /\ s \in World /\ s.c \in Coordinator /\ s.c.active # None
        /\ CoordinatorSound(s.c) /\ Calm(s.c, s.inbox, o)
        /\ Remembered(s.c, s.inbox, s.wire, o, res)
    BY NamesAssumption DEF Sound, World
  <1> DEFINE q == CauseOf(s, p)
  <1>2. q \in Cause
    BY CauseIsKnown
  <1> HIDE DEF q
  <1> DEFINE at == IF q = "cancel" THEN "cancelling" ELSE s.c.at
  <1> DEFINE k == [s.c EXCEPT !.at = at]
  <1> DEFINE t == [s EXCEPT !.c = k]
  <1>3. at \in {"idle", "preparing", "media", "analyzing", "waiting", "loading", "transcribing", "cancelling"}
        /\ at \in {s.c.at, "cancelling"}
    BY <1>1 DEF Coordinator
  <1> HIDE DEF at
  <1>4. /\ k \in Coordinator
        /\ k.active = s.c.active /\ k.req = s.c.req /\ k.pending = s.c.pending
        /\ k.quiet = s.c.quiet /\ k.retry = s.c.retry /\ k.polling = s.c.polling
        /\ k.next = s.c.next /\ k.media = s.c.media /\ k.at = at /\ k.cache = s.c.cache
    BY <1>1, <1>3 DEF Coordinator
  <1> HIDE DEF k
  <1>5. t \in World /\ t.m = s.m /\ t.inbox = s.inbox /\ t.wire = s.wire /\ t.c = k
    BY <1>1, <1>4 DEF World
  <1>6. t = [s EXCEPT !.c.at = IF q = "cancel" THEN "cancelling" ELSE @]
    BY <1>1 DEF World, Coordinator, k, at
  <1> HIDE DEF t
  <1>7. Sound(t, o, res, ts)
    <2>1. Occupied(t.c)
      BY <1>1, <1>3, <1>4, <1>5 DEF CoordinatorSound, Occupied, Asking
    <2>3. t.c.quiet => t.c.pending # "none" /\ s.c.quiet
      BY <1>1, <1>4, <1>5 DEF CoordinatorSound
    <2>4. Kept(res) =>
             /\ t.c.cache \in {s.c.cache, None}
             /\ t.c.next \/ s.c.req.type = "transcribe" => t.c.cache = ModelOf[s.c.active]
      BY <1>1, <1>4, <1>5 DEF Remembered
    <2> QED BY <1>1, <1>4, <1>5, <2>1, <2>3, <2>4, TurnIsSound
  <1>8. CASE s.c.req.type \notin RunsJob
    <2>1. ~CheckpointsMayFail => JobFree(t.inbox, o)
      BY <1>5, <1>8, IdleIsJobFree
    <2>2. Handled(t, Checkpoint(t, q, x), o, res, ts)
      BY <1>2, <1>4, <1>5, <1>7, <2>1, CheckpointIsHandled
    <2>3. StopJob(s, p, answered, x) = Checkpoint(t, q, x)
      BY <1>6, <1>8 DEF StopJob, ActiveWorkerRequestMayStillRun, q
    <2> QED BY <1>4, <1>5, <2>2, <2>3 DEF Handled
  <1>9. CASE s.c.req.type \in RunsJob
    <2> DEFINE h == Higher(t.c.pending, q)
    <2> DEFINE g == [t.c EXCEPT !.pending = h]
    <2> DEFINE w == [t EXCEPT !.c = g]
    <2>1. h \in Cause /\ h # "none"
      <3>1. t.c.pending \in Cause \cup {"none"}
        BY <1>1, <1>4, <1>5 DEF Coordinator
      <3> QED BY <1>2, <3>1, HigherIsCause
    <2>2. w = [t EXCEPT !.c.pending = Higher(@, q)]
      BY <1>5 DEF World
    <2> HIDE DEF h
    <2>3. /\ g \in Coordinator
          /\ g.active = s.c.active /\ g.req = s.c.req /\ g.pending = h
          /\ g.quiet = s.c.quiet /\ g.retry = s.c.retry /\ g.polling = s.c.polling
          /\ g.next = s.c.next /\ g.media = s.c.media /\ g.at = t.c.at /\ g.cache = s.c.cache
      BY <1>4, <1>5, <2>1 DEF Coordinator
    <2> HIDE DEF g
    <2>4. w \in World /\ w.m = s.m /\ w.inbox = s.inbox /\ w.wire = s.wire /\ w.c = g
      BY <1>5, <2>3 DEF World
    <2> HIDE DEF w
    <2>6. w.c.pending # "none"
      BY <2>1, <2>3, <2>4
    <2>5. Sound(w, o, res, ts)
      <3>1. CoordinatorSound(t.c) /\ Remembered(t.c, t.inbox, t.wire, o, res) /\ t.c.active # None
        BY <1>1, <1>4, <1>5, <1>7 DEF Sound
      <3>2. Occupied(w.c)
        BY <1>4, <1>5, <2>3, <2>4, <3>1 DEF CoordinatorSound, Occupied
      <3>4. w.c.quiet => w.c.pending # "none" /\ t.c.quiet
        BY <1>4, <1>5, <2>1, <2>3, <2>4
      <3>5. Kept(res) =>
               /\ w.c.cache \in {t.c.cache, None}
               /\ w.c.next \/ t.c.req.type = "transcribe" => w.c.cache = ModelOf[t.c.active]
        BY <1>4, <1>5, <2>3, <2>4, <3>1 DEF Remembered
      <3>6. /\ w.m = t.m /\ w.inbox = t.inbox /\ w.wire = t.wire
            /\ w.c.active = t.c.active /\ w.c.req = t.c.req /\ w.c.retry \subseteq t.c.retry
            /\ t.c.req.type \in RunsJob
        BY <1>4, <1>5, <1>9, <2>3, <2>4
      <3> QED BY <1>7, <2>4, <2>6, <3>1, <3>2, <3>4, <3>5, <3>6, TurnIsSound
    <2>7. CASE s.c.quiet \/ answered
      <3>1. ~CheckpointsMayFail => JobFree(w.inbox, o)
        BY <1>1, <2>4, <2>7 DEF Calm
      <3>2. Handled(w, FinishPendingTerminalCheckpoint(w, x), o, res, ts)
        BY <2>5, <2>6, <3>1, FinishIsHandled
      <3>3. StopJob(s, p, answered, x) = FinishPendingTerminalCheckpoint(w, x)
        BY <1>6, <1>9, <2>2, <2>7 DEF StopJob, ActiveWorkerRequestMayStillRun, q
      <3> QED BY <2>3, <2>4, <3>2, <3>3 DEF Handled
    <2>8. CASE ~(s.c.quiet \/ answered)
      <3> DEFINE f == ForceCancelAfterGrace(w)
      <3>1. Handled(w, f, o, res, ts)
        BY <2>5, <2>6, ForceIsHandled
      <3>2. /\ q = "abandon" => StopJob(s, p, answered, x) = AbortImmediately(f, x)
            /\ q # "abandon" => StopJob(s, p, answered, x) = f
        <4>1. w = Pended(Turned(s, q), q)
          BY <1>6, <2>2 DEF Pended, Turned
        <4> HIDE DEF f
        <4>2. ActiveWorkerRequestMayStillRun(s) /\ ~Settled(s, answered)
          BY <1>9, <2>8 DEF ActiveWorkerRequestMayStillRun, Settled
        <4>3. q = CauseOf(s, p)
          BY DEF q
        <4>4. Abandons(q) => StopJob(s, p, answered, x) = AbortImmediately(ForceCancelAfterGrace(w), x)
          BY <4>1, <4>2, <4>3, StopJobCases
        <4>5. ~Abandons(q) => StopJob(s, p, answered, x) = ForceCancelAfterGrace(w)
          BY <4>1, <4>2, <4>3, StopJobCases
        <4> QED BY <4>4, <4>5 DEF f, Abandons
      <3> HIDE DEF f
      <3>3. CASE q = "abandon"
        <4>1. Sound(f, o, res, ts) /\ Waits(f, o)
          BY <3>1 DEF Handled
        <4>2. Handled(f, AbortImmediately(f, x), o, res, ts)
          BY <4>1, AbortIsHandled
        <4> QED BY <2>3, <2>4, <3>1, <3>2, <3>3, <4>2 DEF Handled, ManagerKept
      <3>4. CASE q # "abandon"
        BY <2>3, <2>4, <3>1, <3>2, <3>4 DEF Handled
      <3> QED BY <3>3, <3>4
    <2> QED BY <2>7, <2>8
  <1> QED BY <1>8, <1>9

-----------------------------------------------------------------------------
(* Requests.                                                                *)

\* The active job has no request and waits for nothing else.
Paused(s)  == /\ s.c.active \in Job /\ s.c.req.type = "none"
              /\ ~s.c.polling /\ ~s.c.next /\ ~s.c.media
Resting(s) == Paused(s) /\ s.c.at # "media"
Roomy(s)   == \E i \in Id : i \notin UsedIds(s)
HasModel(s) == OneModelKept => s.c.cache = ModelOf[s.c.active]
MaySend(s, type) ==
    /\ s.m.ready /\ type \in RunsJob \cup {"capabilities"}
    /\ type = "capabilities" => s.c.at \in Asking
    /\ type = "load" => (OneModelKept => s.c.cache = None)
    /\ type = "transcribe" => HasModel(s)

LEMMA FreshIdIsFresh ==
    ASSUME NEW s, Roomy(s)
    PROVE  /\ FreshId(s) \in Id /\ FreshId(s) # 0
           /\ FreshId(s) # op.id /\ FreshId(s) # test.id /\ FreshId(s) # s.m.forced
           /\ \A k \in DOMAIN s.inbox : s.inbox[k].id # FreshId(s)
           /\ \A k \in DOMAIN s.wire : s.wire[k].id # FreshId(s)
  <1>1. FreshId(s) \in Id /\ FreshId(s) \notin UsedIds(s)
    BY DEF Roomy, FreshId
  <1>2. FreshId(s) # 0
    BY <1>1, Counts DEF Id
  <1> HIDE DEF FreshId
  <1> QED BY <1>1, <1>2 DEF UsedIds

\* The world after a request r with a fresh id is sent.
Sent(s, r) == [s EXCEPT !.c.req = [id |-> r.id, type |-> r.type], !.inbox = Append(@, r)]

LEMMA SentIsHandled ==
    ASSUME NEW s, NEW o, NEW res, NEW ts, NEW r,
           Sound(s, o, res, ts), Resting(s), MaySend(s, r.type),
           r \in Request, r.id \in Id, r.for = s.c.active, r.model = ModelOf[s.c.active],
           r.id # o.id, r.id # s.m.forced,
           \A k \in DOMAIN s.inbox : s.inbox[k].id # r.id,
           \A k \in DOMAIN s.wire : s.wire[k].id # r.id
    PROVE  Handled(s, Sent(s, r), o, res, ts)
  <1>1. /\ s \in World /\ s.c \in Coordinator /\ s.inbox \in Seq(Request) /\ s.wire \in Seq(Answer)
        /\ CoordinatorSound(s.c) /\ Calm(s.c, s.inbox, o) /\ MessagesSound(s.inbox, s.wire, o)
        /\ Remembered(s.c, s.inbox, s.wire, o, res) /\ TestSound(s.m, s.c, s.inbox, o, ts)
    BY DEF Sound, World
  <1>2. /\ s.c.active \in Job /\ s.c.active # None /\ s.c.req.type = "none" /\ s.c.at # "media"
        /\ ~s.c.polling /\ ~s.c.next /\ ~s.c.media
    BY NamesAssumption DEF Resting, Paused
  <1>3. s.c.pending = "none" /\ ~s.c.quiet
    BY <1>1, <1>2 DEF CoordinatorSound, RunsJob
  <1>4. /\ s.m.ready /\ r.type \in RunsJob \cup {"capabilities"} /\ r.type # "none" /\ r.type # "cancel"
        /\ r.type = "capabilities" => s.c.at \in Asking
        /\ r.type = "load" => (OneModelKept => s.c.cache = None)
        /\ r.type = "transcribe" => (OneModelKept => s.c.cache = ModelOf[s.c.active])
    BY DEF MaySend, HasModel, RunsJob
  <1>5. r.id # 0 /\ r.id \in 0 .. RequestIds
    BY Counts DEF Id
  <1> DEFINE req == [id |-> r.id, type |-> r.type]
  <1> DEFINE k == [s.c EXCEPT !.req = req]
  <1> DEFINE t == Sent(s, r)
  <1>6. /\ req \in [id : 0 .. RequestIds, type : RunsJob \cup {"none", "capabilities"}]
        /\ req.id = r.id /\ req.type = r.type
    BY <1>4, <1>5
  <1> HIDE DEF req
  <1>7. /\ k \in Coordinator
        /\ k.active = s.c.active /\ k.req = req /\ k.pending = s.c.pending
        /\ k.quiet = s.c.quiet /\ k.retry = s.c.retry /\ k.polling = s.c.polling
        /\ k.next = s.c.next /\ k.media = s.c.media /\ k.at = s.c.at /\ k.cache = s.c.cache
    BY <1>1, <1>6 DEF Coordinator
  <1>8. t = [s EXCEPT !.c = k, !.inbox = Append(s.inbox, r)]
    BY <1>1 DEF Sent, World, req
  <1> HIDE DEF k, t
  <1>9. Append(s.inbox, r) \in Seq(Request)
    BY <1>1
  <1>10. /\ t \in World /\ t.m = s.m /\ t.inbox = Append(s.inbox, r) /\ t.wire = s.wire /\ t.c = k
    BY <1>1, <1>7, <1>8, <1>9 DEF World
  <1>11. ToSet(t.inbox) = ToSet(s.inbox) \cup {r} /\ Works(t.inbox, o) = Works(s.inbox, o) \cup {r}
    BY <1>1, <1>10, AppendMessage, WorksAppend
  <1>12. (\A e \in ToSet(s.inbox) : e.id # r.id) /\ (\A a \in ToSet(s.wire) : a.id # r.id)
    BY DEF ToSet
  <1>13. CoordinatorSound(t.c)
    BY <1>2, <1>3, <1>4, <1>5, <1>6, <1>7, <1>10 DEF CoordinatorSound, Occupied
  <1>14. MessagesSound(t.inbox, t.wire, o)
    <2>1. Distinct(t.inbox)
      BY <1>1, <1>10, <1>12, DistinctAppend DEF MessagesSound
    <2>2. RequestSound(r, o)
      BY <1>2, <1>4, <1>5 DEF RequestSound, RunsJob
    <2>3. \A a \in ToSet(t.wire) : AnswerSound(a, t.inbox, o)
      BY <1>1, <1>10, <1>11, <1>12 DEF MessagesSound, AnswerSound
    <2> QED BY <1>1, <1>11, <2>1, <2>2, <2>3 DEF MessagesSound
  <1>15. Belongs(t.c, t.inbox, t.wire, o)
    BY <1>6, <1>7, <1>10, <1>11, <1>12 DEF Belongs
  <1>16. Calm(t.c, t.inbox, o)
    <2>1. ~CheckpointsMayFail => JobFree(s.inbox, o)
      BY <1>2, IdleIsJobFree DEF RunsJob
    <2> QED BY <1>1, <1>3, <1>6, <1>7, <1>10, <1>11, <2>1 DEF Calm, JobFree
  <1>17. TestSound(t.m, t.c, t.inbox, o, ts)
    BY <1>1, <1>2, <1>7, <1>10, <1>11, NamesAssumption DEF TestSound, ForTester
  <1>18. Remembered(t.c, t.inbox, t.wire, o, res)
    BY <1>1, <1>2, <1>4, <1>6, <1>7, <1>10, <1>11, <1>12 DEF Remembered, Kept, RunsJob
  <1>19. Sound(t, o, res, ts)
    BY <1>4, <1>6, <1>7, <1>10, <1>13, <1>14, <1>15, <1>16, <1>17, <1>18 DEF Sound, Unforced
  <1>20. Waits(t, o)
    BY <1>3, <1>4, <1>6, <1>7, <1>10, <1>11 DEF Waits, Underway
  <1> QED BY <1>7, <1>10, <1>19, <1>20 DEF Handled, ManagerKept, t

LEMMA SendIsHandled ==
    ASSUME NEW s, NEW type, Sound(s, op, resident, test), Resting(s), Roomy(s), MaySend(s, type)
    PROVE  Handled(s, SendRequest(s, type), op, resident, test)
  <1>1. s.c.active \in Job /\ type \in RunsJob \cup {"capabilities"}
    BY DEF Resting, Paused, MaySend
  <1> DEFINE r == [type |-> type, id |-> FreshId(s), for |-> s.c.active, model |-> ModelOf[s.c.active]]
  <1>2. /\ FreshId(s) \in Id /\ FreshId(s) # op.id /\ FreshId(s) # s.m.forced
        /\ \A k \in DOMAIN s.inbox : s.inbox[k].id # FreshId(s)
        /\ \A k \in DOMAIN s.wire : s.wire[k].id # FreshId(s)
    BY FreshIdIsFresh
  <1>3. FreshId(s) \in 0 .. RequestIds
    BY <1>2, Counts DEF Id
  <1>4. /\ r \in Request /\ r.id = FreshId(s) /\ r.type = type
        /\ r.for = s.c.active /\ r.model = ModelOf[s.c.active]
    BY <1>1, <1>3, ModelAssumption DEF Request
  <1>5. SendRequest(s, type) = Sent(s, r)
    BY <1>4 DEF SendRequest, Sent
  <1> HIDE DEF r
  <1> QED BY <1>2, <1>4, <1>5, SentIsHandled

LEMMA RoomStays ==
    ASSUME NEW s, NEW t, Roomy(s), t.c.req.id \in {s.c.req.id, 0}, t.m.forced \in {s.m.forced, 0},
           ToSet(t.inbox) \subseteq ToSet(s.inbox), ToSet(t.wire) \subseteq ToSet(s.wire)
    PROVE  Roomy(t)
  <1>1. PICK i \in Id : i \notin UsedIds(s)
    BY DEF Roomy
  <1>2. i # 0
    BY Counts DEF Id
  <1>3. /\ i # s.c.req.id /\ i # s.m.forced /\ i # op.id /\ i # test.id
        /\ (\A r \in ToSet(s.inbox) : r.id # i) /\ (\A a \in ToSet(s.wire) : a.id # i)
    BY <1>1 DEF UsedIds, ToSet
  <1>4. i \notin UsedIds(t)
    <2>1. \A k \in DOMAIN t.inbox : t.inbox[k].id # i
      BY <1>3 DEF ToSet
    <2>2. \A k \in DOMAIN t.wire : t.wire[k].id # i
      BY <1>3 DEF ToSet
    <2> QED BY <1>2, <1>3, <2>1, <2>2 DEF UsedIds
  <1> QED BY <1>4 DEF Roomy

Stages == {"preparing", "media", "analyzing", "waiting", "loading", "transcribing", "cancelling"}

\* A resting job goes to another stage.
LEMMA StageIsSound ==
    ASSUME NEW s, NEW o, NEW res, NEW ts, NEW at,
           Sound(s, o, res, ts), Paused(s), at \in Stages
    PROVE  LET t == [s EXCEPT !.c.at = at]
           IN  /\ Sound(t, o, res, ts)
               /\ t.m = s.m /\ t.inbox = s.inbox /\ t.wire = s.wire /\ t.job = s.job /\ t.leased = s.leased
               /\ t.c.active = s.c.active /\ t.c.req = s.c.req /\ t.c.at = at /\ t.c.cache = s.c.cache
               /\ t.c.runtime = s.c.runtime
               /\ at # "media" => Resting(t)
               /\ HasModel(s) => HasModel(t)
               /\ Roomy(s) => Roomy(t)
  <1> DEFINE k == [s.c EXCEPT !.at = at]
  <1> DEFINE t == [s EXCEPT !.c = k]
  <1>1. /\ s \in World /\ s.c \in Coordinator /\ CoordinatorSound(s.c)
        /\ Remembered(s.c, s.inbox, s.wire, o, res)
    BY DEF Sound, World
  <1>2. /\ s.c.active \in Job /\ s.c.active # None /\ s.c.req.type = "none"
        /\ ~s.c.polling /\ ~s.c.next /\ ~s.c.media
    BY NamesAssumption DEF Paused
  <1>3. /\ k \in Coordinator
        /\ k.active = s.c.active /\ k.req = s.c.req /\ k.pending = s.c.pending
        /\ k.quiet = s.c.quiet /\ k.retry = s.c.retry /\ k.polling = s.c.polling
        /\ k.next = s.c.next /\ k.media = s.c.media /\ k.at = at /\ k.cache = s.c.cache
        /\ k.runtime = s.c.runtime
    BY <1>1 DEF Coordinator, Stages
  <1> HIDE DEF k
  <1>4. /\ t \in World /\ t.m = s.m /\ t.inbox = s.inbox /\ t.wire = s.wire /\ t.c = k
        /\ t.job = s.job /\ t.leased = s.leased
    BY <1>1, <1>3 DEF World
  <1>5. [s EXCEPT !.c.at = at] = t
    BY <1>1 DEF World, k
  <1> HIDE DEF t
  <1>6. Sound(t, o, res, ts)
    <2>1. Kept(res) =>
             /\ t.c.cache \in {s.c.cache, None}
             /\ t.c.next \/ s.c.req.type = "transcribe" => t.c.cache = ModelOf[s.c.active]
      BY <1>2, <1>3, <1>4
    <2>3. Occupied(t.c)
      BY <1>2, <1>3, <1>4 DEF Occupied
    <2>2. t.c.quiet => t.c.pending # "none" /\ s.c.quiet
      BY <1>1, <1>3, <1>4 DEF CoordinatorSound
    <2> QED BY <1>2, <1>3, <1>4, <2>1, <2>2, <2>3, TurnIsSound
  <1>7. at # "media" => Resting(t)
    BY <1>2, <1>3, <1>4 DEF Resting, Paused
  <1>8. HasModel(s) => HasModel(t)
    BY <1>3, <1>4 DEF HasModel
  <1>9. Roomy(s) => Roomy(t)
    BY <1>3, <1>4, RoomStays
  <1> QED BY <1>3, <1>4, <1>5, <1>6, <1>7, <1>8, <1>9

LEMMA StopOfResting ==
    ASSUME NEW s, NEW o, NEW res, NEW ts, NEW p, NEW x,
           Sound(s, o, res, ts), Paused(s), p \in Cause, x \in Choice
    PROVE  Handled(s, StopJob(s, p, FALSE, x), o, res, ts)
  <1>1. s.c.active \in Job
    BY DEF Paused
  <1> QED BY <1>1, StopJobIsHandled

LEMMA CompleteIsHandled ==
    ASSUME NEW s, NEW o, NEW res, NEW ts, NEW x, Sound(s, o, res, ts), Resting(s), x \in Choice
    PROVE  Handled(s, CompleteActiveJob(s, x), o, res, ts)
  <1>1. Handled(s, StopJob(s, "cancel", FALSE, x), o, res, ts)
    BY StopOfResting DEF Cause, Resting
  <1>2. Handled(s, StopJob(s, "fail", FALSE, x), o, res, ts)
    BY StopOfResting DEF Cause, Resting
  <1> DEFINE u == [s EXCEPT !.job[s.c.active] = "completed"]
  <1>3. Handled(s, Release(u), o, res, ts)
    <2>1. s \in World /\ s.c.active \in Job /\ s.c.req.type \notin RunsJob
      BY DEF Sound, Resting, Paused, RunsJob
    <2>2. u \in World /\ u.m = s.m /\ u.inbox = s.inbox /\ u.wire = s.wire /\ u.c = s.c
      BY <2>1 DEF World, JobState
    <2> HIDE DEF u
    <2>3. Sound(u, o, res, ts)
      BY <2>2 DEF Sound
    <2>4. ~CheckpointsMayFail => JobFree(u.inbox, o)
      BY <2>1, <2>2, IdleIsJobFree
    <2>5. Handled(u, Release(u), o, res, ts)
      BY <2>3, <2>4, ReleaseIsHandled
    <2> QED BY <2>2, <2>5 DEF Handled
  <1> QED BY <1>1, <1>2, <1>3 DEF CompleteActiveJob

\* What a later call of a handler leaves is what the handler leaves.
LEMMA HandledBefore ==
    ASSUME NEW s, NEW t, NEW u, NEW o, NEW res, NEW ts,
           Handled(t, u, o, res, ts), ManagerKept(s.m, t.m), t.c.cache \in {s.c.cache, None}
    PROVE  Handled(s, u, o, res, ts)
  BY DEF Handled, ManagerKept

LEMMA StartNextChunkIsHandled ==
    ASSUME NEW s, NEW x, Sound(s, op, resident, test), Resting(s), Roomy(s), HasModel(s), x \in Choice
    PROVE  Handled(s, StartNextChunk(s, x), op, resident, test)
  <1>1. Handled(s, StopJob(s, "cancel", FALSE, x), op, resident, test)
    BY StopOfResting DEF Cause, Resting
  <1>2. Handled(s, StopJob(s, "fail", FALSE, x), op, resident, test)
    BY StopOfResting DEF Cause, Resting
  <1>3. Handled(s, CompleteActiveJob(s, x), op, resident, test)
    BY CompleteIsHandled
  <1>4. CASE s.m.ready
    <2>1. MaySend(s, "transcribe")
      BY <1>4 DEF MaySend, RunsJob
    <2>2. Handled(s, SendRequest(s, "transcribe"), op, resident, test)
      BY <2>1, SendIsHandled
    <2> QED BY <1>1, <1>2, <1>3, <2>2 DEF StartNextChunk
  <1>5. CASE ~s.m.ready
    BY <1>1, <1>2, <1>3, <1>5 DEF StartNextChunk
  <1> QED BY <1>4, <1>5

LEMMA LoadModelIsHandled ==
    ASSUME NEW s, NEW x, Sound(s, op, resident, test), Resting(s), Roomy(s), s.m.ready, x \in Choice,
           resident \in Model \cup {None}
    PROVE  Handled(s, LoadModel(s, x), op, resident, test)
  <1>1. Handled(s, StopJob(s, "fail", FALSE, x), op, resident, test)
    BY StopOfResting DEF Cause, Resting
  <1>2. CASE s.c.cache = ModelOf[s.c.active]
    <2> DEFINE t == [s EXCEPT !.c.at = "transcribing"]
    <2>1. "transcribing" \in Stages /\ "transcribing" # "media" /\ HasModel(s)
      BY <1>2 DEF Stages, HasModel
    <2>2. /\ Sound(t, op, resident, test) /\ Resting(t) /\ Roomy(t) /\ HasModel(t)
          /\ t.m = s.m /\ t.c.cache = s.c.cache
      BY <2>1, StageIsSound DEF Resting
    <2> HIDE DEF t
    <2>3. Handled(t, StartNextChunk(t, x), op, resident, test)
      BY <2>2, StartNextChunkIsHandled
    <2>4. Handled(s, StartNextChunk(t, x), op, resident, test)
      BY <2>2, <2>3, HandledBefore DEF ManagerKept
    <2> QED BY <1>1, <1>2, <2>4 DEF LoadModel, t
  <1>3. CASE s.c.cache # ModelOf[s.c.active]
    <2> DEFINE t == [s EXCEPT !.c.at = "loading"]
    <2>1. "loading" \in Stages /\ "loading" # "media"
      BY DEF Stages
    <2>2. /\ Sound(t, op, resident, test) /\ Resting(t) /\ (Roomy(s) => Roomy(t))
          /\ t.m = s.m /\ t.c.cache = s.c.cache
      BY <2>1, StageIsSound DEF Resting
    <2> HIDE DEF t
    <2>3. OneModelKept => s.c.cache = None
      <3>1. s.c.active \in Job
        BY DEF Resting, Paused
      <3>2. OneModelKept => s.c.cache \in {None, ModelOf[s.c.active]}
        BY <3>1 DEF Sound, Remembered, Kept
      <3> QED BY <1>3, <3>2
    <2>4. MaySend(t, "load")
      BY <2>2, <2>3 DEF MaySend, RunsJob
    <2>5. Handled(t, SendRequest(t, "load"), op, resident, test)
      BY <2>2, <2>4, SendIsHandled
    <2>6. Handled(s, SendRequest(t, "load"), op, resident, test)
      BY <2>2, <2>5, HandledBefore DEF ManagerKept
    <2> QED BY <1>1, <1>3, <2>6 DEF LoadModel, t
  <1> QED BY <1>2, <1>3

\* The coordinator knows whether the worker can run.
LEMMA ContinueIsHandled ==
    ASSUME NEW s, NEW x, Sound(s, op, resident, test), Resting(s), Roomy(s), s.m.ready,
           s.c.at \in Asking, s.c.runtime # "unknown", x \in Choice,
           resident \in Model \cup {None}
    PROVE  Handled(s, ContinueAfterWorkerPreflight(s, x), op, resident, test)
  <1>1. Handled(s, StopJob(s, "cancel", FALSE, x), op, resident, test)
    BY StopOfResting DEF Cause, Resting
  <1>2. Handled(s, StopJob(s, "fail", FALSE, x), op, resident, test)
    BY StopOfResting DEF Cause, Resting
  <1>3. Handled(s, LoadModel(s, x), op, resident, test)
    BY LoadModelIsHandled
  <1>4. Handled(s, [s EXCEPT !.c.at = "media"], op, resident, test)
    <2> DEFINE t == [s EXCEPT !.c.at = "media"]
    <2>1. "media" \in Stages
      BY DEF Stages
    <2>2. Sound(t, op, resident, test) /\ t.m = s.m /\ t.c.cache = s.c.cache /\ t.c.at = "media"
      BY <2>1, StageIsSound DEF Resting
    <2> HIDE DEF t
    <2> QED BY <2>2 DEF Handled, ManagerKept, Waits, t
  <1>5. Handled(s, SendRequest(s, "analyze"), op, resident, test)
    <2>1. MaySend(s, "analyze")
      BY DEF MaySend, RunsJob
    <2> QED BY <2>1, SendIsHandled
  <1>6. s.c.runtime \in {"yes", "no"}
    BY DEF Sound, World, Coordinator
  <1>7. s.c.at \in {"cancelling", "preparing", "analyzing", "waiting"}
    BY DEF Asking
  <1> QED BY <1>1, <1>2, <1>3, <1>4, <1>5, <1>6, <1>7 DEF ContinueAfterWorkerPreflight

LEMMA RequestOrContinueIsHandled ==
    ASSUME NEW s, NEW x, Sound(s, op, resident, test), Resting(s), Roomy(s), s.m.ready,
           s.c.at \in Asking, x \in Choice,
           resident \in Model \cup {None}
    PROVE  Handled(s, RequestOrContinue(s, x), op, resident, test)
  <1>1. CASE s.c.runtime # "unknown"
    <2>1. Handled(s, ContinueAfterWorkerPreflight(s, x), op, resident, test)
      BY <1>1, ContinueIsHandled
    <2> QED BY <1>1, <2>1 DEF RequestOrContinue
  <1>2. CASE s.c.runtime = "unknown"
    <2>1. MaySend(s, "capabilities")
      BY DEF MaySend
    <2>2. Handled(s, SendRequest(s, "capabilities"), op, resident, test)
      BY <2>1, SendIsHandled
    <2>3. s.c.req.type # "capabilities"
      BY DEF Resting, Paused
    <2> QED BY <1>2, <2>2, <2>3 DEF RequestOrContinue
  <1> QED BY <1>1, <1>2

-----------------------------------------------------------------------------
(* A worker is started.                                                     *)

\* A fence that a start of the worker keeps from being forgotten.
Fenceable(m) == m.forced # 0 => m.proc = "dying" \/ "grace" \in m.timers \/ m.awaiting
\* What a call leaves that may have started a worker.
Led(s, t, o, res, ts) == Sound(t, o, res, ts) /\ Waits(t, o) /\ (Fenced(s.m) => Fenced(t.m))

LEMMA RecoveryManager ==
    ASSUME NEW m, m \in Manager, ManagerSound(m)
    PROVE  LET n == ScheduleRecovery(m)
           IN  /\ n \in Manager /\ ManagerSound(n)
               /\ n.proc = m.proc /\ n.forced = m.forced /\ n.restarts = m.restarts /\ n.spent = m.spent
               /\ (n.ready <=> m.ready) /\ (n.awaiting <=> m.awaiting)
               /\ m.timers \subseteq n.timers
               /\ m.forced # 0 /\ m.proc = "none" => "recovery" \in n.timers
               /\ "grace" \in n.timers => "grace" \in m.timers
  <1> DEFINE l == IF m.forced # 0 /\ m.proc = "none" THEN m.timers \cup {"recovery"} ELSE m.timers
  <1> DEFINE n == [m EXCEPT !.timers = l]
  <1>1. l \in SUBSET Timer /\ m.timers \subseteq l /\ ("grace" \in l => "grace" \in m.timers)
        /\ (m.forced # 0 /\ m.proc = "none" => "recovery" \in l)
    BY DEF Manager, Timer
  <1>2. ScheduleRecovery(m) = n
    BY DEF ScheduleRecovery, Manager
  <1> HIDE DEF l
  <1>3. /\ n \in Manager /\ n.proc = m.proc /\ n.forced = m.forced /\ n.restarts = m.restarts
        /\ n.spent = m.spent /\ (n.ready <=> m.ready) /\ (n.awaiting <=> m.awaiting) /\ n.timers = l
    BY <1>1 DEF Manager
  <1> HIDE DEF n
  <1>4. ManagerSound(n)
    BY <1>1, <1>3 DEF ManagerSound
  <1> QED BY <1>1, <1>2, <1>3, <1>4

LEMMA StartedManager ==
    ASSUME NEW m, NEW v, m \in Manager, ManagerSound(m), v \in 0 .. Variants
    PROVE  LET n == Start(m, v)
           IN  /\ n \in Manager /\ ManagerSound(n)
               /\ (n.ready <=> m.ready) /\ n.forced = m.forced
               /\ n.proc \in {m.proc, "alive"} /\ (m.proc # "none" => n = m)
               /\ Fenceable(m) => Fenced(n)
               /\ "grace" \in n.timers => "grace" \in m.timers
  <1>1. CASE m.proc # "none"
    <2>1. Start(m, v) = m
      BY <1>1 DEF Start
    <2>2. Fenceable(m) => Fenced(m)
      BY <1>1 DEF Fenceable, Fenced, ManagerSound, Manager
    <2> QED BY <2>1, <2>2
  <1>2. CASE m.proc = "none" /\ v = 0
    <2> DEFINE k == [m EXCEPT !.failed = Variant]
    <2>1. k \in Manager
      BY DEF Manager
    <2>2. /\ k.proc = m.proc /\ k.forced = m.forced /\ k.restarts = m.restarts /\ k.spent = m.spent
          /\ (k.ready <=> m.ready) /\ (k.awaiting <=> m.awaiting) /\ k.timers = m.timers
      BY DEF Manager
    <2>3. Start(m, v) = ScheduleRecovery(k)
      BY <1>2 DEF Start
    <2> HIDE DEF k
    <2>4. ManagerSound(k)
      BY <2>2 DEF ManagerSound
    <2> DEFINE n == ScheduleRecovery(k)
    <2>5. /\ n \in Manager /\ ManagerSound(n)
          /\ n.proc = k.proc /\ n.forced = k.forced
          /\ (n.ready <=> k.ready) /\ (n.awaiting <=> k.awaiting)
          /\ k.forced # 0 /\ k.proc = "none" => "recovery" \in n.timers
          /\ "grace" \in n.timers => "grace" \in k.timers
      BY <2>1, <2>4, RecoveryManager
    <2> HIDE DEF n
    <2>6. Fenceable(m) => Fenced(n)
      BY <1>2, <2>2, <2>5 DEF Fenceable, Fenced, ManagerSound
    <2> QED BY <1>2, <2>2, <2>3, <2>5, <2>6 DEF n
  <1>3. CASE m.proc = "none" /\ v # 0
    <2> DEFINE n == [m EXCEPT !.proc = "alive", !.variant = v, !.timers = @ \ {"grace"},
                              !.failed = @ \cup {u \in Variant : u < v}]
    <2>1. Start(m, v) = n
      BY <1>3 DEF Start
    <2>2. /\ m.timers \ {"grace"} \in SUBSET Timer
          /\ m.failed \cup {u \in Variant : u < v} \in SUBSET Variant
      BY DEF Manager
    <2>3. n \in Manager
      BY <2>2 DEF Manager
    <2>4. /\ n.proc = "alive" /\ n.forced = m.forced /\ n.restarts = m.restarts /\ n.spent = m.spent
          /\ (n.ready <=> m.ready) /\ (n.awaiting <=> m.awaiting) /\ n.timers = m.timers \ {"grace"}
      BY DEF Manager
    <2> HIDE DEF n
    <2>5. ManagerSound(n)
      BY <2>4 DEF ManagerSound
    <2>6. Fenceable(m) => Fenced(n)
      BY <1>3, <2>4 DEF Fenceable, Fenced, ManagerSound
    <2> QED BY <1>3, <2>1, <2>3, <2>4, <2>5, <2>6
  <1> QED BY <1>1, <1>2, <1>3

\* The worlds in which a worker may have been started next to the same coordinator.
LEMMA StartIsSound ==
    ASSUME NEW s, NEW o, NEW res, NEW ts, NEW n,
           Sound(s, o, res, ts), n \in Manager, ManagerSound(n), n.ready <=> s.m.ready, n.forced = s.m.forced,
           n.proc \in {s.m.proc, "alive"}, s.m.proc # "none" => n.proc = s.m.proc
    PROVE  LET t == [s EXCEPT !.m = n]
           IN  /\ Sound(t, o, res, ts)
               /\ t.m = n /\ t.c = s.c /\ t.inbox = s.inbox /\ t.wire = s.wire
               /\ t.job = s.job /\ t.leased = s.leased
  <1> DEFINE t == [s EXCEPT !.m = n]
  <1>1. s \in World
    BY DEF Sound
  <1>2. /\ t \in World /\ t.m = n /\ t.c = s.c /\ t.inbox = s.inbox /\ t.wire = s.wire
        /\ t.job = s.job /\ t.leased = s.leased
    BY <1>1 DEF World
  <1> HIDE DEF t
  <1>3. FreshProcess(t.m, o)
    BY <1>2 DEF Sound, FreshProcess, World, Manager
  <1>4. Sound(t, o, res, ts)
    BY <1>2, <1>3 DEF Sound, TestSound, Unforced
  <1> QED BY <1>2, <1>4 DEF t
LEMMA EnsureIsLed ==
    ASSUME NEW s, NEW x, Sound(s, op, resident, test), Resting(s), Roomy(s),
           s.c.at \in Asking, x \in Choice,
           resident \in Model \cup {None}
    PROVE  Led(s, EnsureWorkerReady(s, x), op, resident, test)
  <1>1. s \in World /\ s.m \in Manager /\ ManagerSound(s.m) /\ x.start \in 0 .. Variants
    BY DEF Sound, World, Choice
  <1>2. CASE s.c.at = "cancelling"
    <2>1. Handled(s, StopJob(s, "cancel", FALSE, x), op, resident, test)
      BY StopOfResting DEF Cause, Resting
    <2> QED BY <1>2, <2>1 DEF EnsureWorkerReady, Handled, Led, ManagerKept
  <1>3. CASE s.c.at # "cancelling" /\ s.m.ready
    <2>1. Handled(s, RequestOrContinue(s, x), op, resident, test)
      BY <1>3, RequestOrContinueIsHandled
    <2> QED BY <1>3, <2>1 DEF EnsureWorkerReady, Handled, Led, ManagerKept
  <1>4. CASE s.c.at # "cancelling" /\ ~s.m.ready
    <2> DEFINE n == Start(s.m, x.start)
    <2> DEFINE t == [s EXCEPT !.m = n]
    <2>1. /\ n \in Manager /\ ManagerSound(n) /\ (n.ready <=> s.m.ready) /\ n.forced = s.m.forced
          /\ n.proc \in {s.m.proc, "alive"} /\ (s.m.proc # "none" => n = s.m)
          /\ Fenceable(s.m) => Fenced(n)
      BY <1>1, StartedManager
    <2>2. Fenced(s.m) => Fenced(n)
      BY <2>1 DEF Fenced, Fenceable
    <2> HIDE DEF n
    <2>3. /\ Sound(t, op, resident, test)
          /\ t.m = n /\ t.c = s.c /\ t.inbox = s.inbox /\ t.wire = s.wire
      BY <2>1, StartIsSound
    <2>4. EnsureWorkerReady(s, x) =
             IF t.m.proc = "none" THEN StopJob(t, "fail", FALSE, x) ELSE [t EXCEPT !.c.polling = TRUE]
      BY <1>4 DEF EnsureWorkerReady, n
    <2> HIDE DEF t
    <2>5. Led(s, StopJob(t, "fail", FALSE, x), op, resident, test)
      <3>1. Paused(t) /\ "fail" \in Cause
        BY <2>3 DEF Resting, Paused, Cause
      <3>2. Handled(t, StopJob(t, "fail", FALSE, x), op, resident, test)
        BY <2>3, <3>1, StopOfResting
      <3> QED BY <2>2, <2>3, <3>2 DEF Handled, Led, ManagerKept
    <2>6. Led(s, [t EXCEPT !.c.polling = TRUE], op, resident, test)
      <3> DEFINE k == [t.c EXCEPT !.polling = TRUE]
      <3> DEFINE u == [t EXCEPT !.c = k]
      <3>1. t \in World /\ t.c \in Coordinator /\ CoordinatorSound(t.c)
            /\ Remembered(t.c, t.inbox, t.wire, op, resident)
        BY <2>3 DEF Sound, World
      <3>2. /\ t.c.active \in Job /\ t.c.active # None /\ t.c.req.type = "none" /\ t.c.at \in Asking
            /\ ~t.c.next /\ ~t.c.media /\ t.c.at # "media"
        BY <2>3, NamesAssumption DEF Resting, Paused
      <3>3. /\ k \in Coordinator
            /\ k.active = t.c.active /\ k.req = t.c.req /\ k.pending = t.c.pending
            /\ k.quiet = t.c.quiet /\ k.retry = t.c.retry /\ k.polling
            /\ k.next = t.c.next /\ k.media = t.c.media /\ k.at = t.c.at /\ k.cache = t.c.cache
        BY <3>1 DEF Coordinator
      <3>4. [t EXCEPT !.c.polling = TRUE] = u
        BY <3>1 DEF World
      <3> HIDE DEF k
      <3>5. u \in World /\ u.m = t.m /\ u.inbox = t.inbox /\ u.wire = t.wire /\ u.c = k
        BY <3>1, <3>3 DEF World
      <3> HIDE DEF u
      <3>6. Sound(u, op, resident, test)
        <4>1. Kept(resident) =>
                 /\ u.c.cache \in {t.c.cache, None}
                 /\ u.c.next \/ t.c.req.type = "transcribe" => u.c.cache = ModelOf[t.c.active]
          BY <3>2, <3>3, <3>5
        <4>2. u.c.quiet => u.c.pending # "none" /\ t.c.quiet
          BY <3>1, <3>3, <3>5 DEF CoordinatorSound
        <4>3. Occupied(u.c)
          BY <3>2, <3>3, <3>5 DEF Occupied
        <4> QED BY <2>3, <3>2, <3>3, <3>5, <4>1, <4>2, <4>3, TurnIsSound
      <3>7. Waits(u, op)
        BY <3>3, <3>5 DEF Waits
      <3> QED BY <2>2, <2>3, <3>4, <3>5, <3>6, <3>7 DEF Led
    <2> QED BY <2>4, <2>5, <2>6
  <1> QED BY <1>2, <1>3, <1>4

LEMMA BeginWaitingIsLed ==
    ASSUME NEW s, NEW x, Sound(s, op, resident, test), Paused(s), Roomy(s), x \in Choice,
           resident \in Model \cup {None}
    PROVE  Led(s, BeginWaitingForModel(s, x), op, resident, test)
  <1>1. Led(s, StopJob(s, "fail", FALSE, x), op, resident, test)
    <2>1. Handled(s, StopJob(s, "fail", FALSE, x), op, resident, test)
      BY StopOfResting DEF Cause
    <2> QED BY <2>1 DEF Handled, Led, ManagerKept
  <1> DEFINE t == [s EXCEPT !.c.at = "waiting"]
  <1>2. Led(s, EnsureWorkerReady(t, x), op, resident, test)
    <2>1. "waiting" \in Stages /\ "waiting" # "media" /\ "waiting" \in Asking
      BY DEF Stages, Asking
    <2>2. Sound(t, op, resident, test) /\ Resting(t) /\ Roomy(t) /\ t.m = s.m /\ t.c.at = "waiting"
      BY <2>1, StageIsSound
    <2> HIDE DEF t
    <2>3. Led(t, EnsureWorkerReady(t, x), op, resident, test)
      BY <2>1, <2>2, EnsureIsLed
    <2> QED BY <2>2, <2>3 DEF Led
  <1> QED BY <1>1, <1>2 DEF BeginWaitingForModel

-----------------------------------------------------------------------------
(* The last message about the coordinator's request.                        *)

\* The message a, read by the client, is the answer the coordinator waits for.
Answers(s, a, o, res) ==
    /\ a \in Answer /\ a.id = s.c.req.id /\ a.id # 0
    /\ s.c.active \in Job /\ s.c.pending = "none" /\ s.m.ready
    /\ AnswerSound(a, s.inbox, o)
    /\ a.type # "unloaded"
    /\ a.type = "loaded" => s.c.req.type = "load" /\ (Kept(res) => res = ModelOf[s.c.active])
    /\ a.type = "done" => s.c.req.type = "transcribe"
    /\ (a.type \in {"capabilities", "unavailable"}) <=> (s.c.req.type = "capabilities")

LEMMA AnsweredIsJobFree ==
    ASSUME NEW s, NEW o, NEW res, NEW ts, NEW a, Sound(s, o, res, ts), Answers(s, a, o, res)
    PROVE  ~CheckpointsMayFail => JobFree(s.inbox, o)
  <1> SUFFICES ASSUME ~CheckpointsMayFail, NEW r \in Works(s.inbox, o), ForJob(r) PROVE FALSE
    BY DEF JobFree
  <1>1. r.id = a.id
    BY DEF Sound, Calm, Answers
  <1>2. CASE r \in ToSet(s.inbox)
    BY <1>1, <1>2 DEF Answers, AnswerSound
  <1>3. CASE r = o /\ ~o.answered
    BY <1>1, <1>3 DEF Answers, AnswerSound
  <1> QED BY <1>2, <1>3 DEF Works

\* Nor does the model test, while a job has the worker: no model comes or goes.
LEMMA NoModelMoves ==
    ASSUME NEW s, NEW o, NEW res, NEW ts, NEW a, Sound(s, o, res, ts), Answers(s, a, o, res),
           ~CheckpointsMayFail
    PROVE  \A r \in Works(s.inbox, o) : r.type \notin {"load", "unload"}
  <1> SUFFICES ASSUME NEW r \in Works(s.inbox, o), r.type \in {"load", "unload"} PROVE FALSE
    OBVIOUS
  <1>1. JobFree(s.inbox, o)
    BY AnsweredIsJobFree
  <1>2. MessagesSound(s.inbox, s.wire, o) /\ TestSound(s.m, s.c, s.inbox, o, ts)
    BY DEF Sound
  <1>3. r.for \in Job \cup {Tester} /\ (r.type = "unload" => r.for = Tester)
    <2>1. CASE r \in ToSet(s.inbox)
      BY <1>2, <2>1 DEF MessagesSound, RequestSound
    <2>2. CASE r = o /\ o.type # "none"
      BY <1>2, <2>2 DEF MessagesSound, OperationSound
    <2> QED BY <2>1, <2>2 DEF Works
  <1>4. r.for = Tester
    BY <1>1, <1>3 DEF JobFree, ForJob, RunsJob
  <1>5. ts.phase # "idle"
    BY <1>2, <1>4 DEF TestSound, ForTester, Answers
  <1> QED BY <1>2, <1>5, NamesAssumption DEF TestSound, Answers

\* The coordinator takes note of the answer.
Noted(s, req, cache, runtime, at, next) ==
    [s EXCEPT !.c = [s.c EXCEPT !.req = req, !.cache = cache, !.runtime = runtime, !.at = at,
                                !.next = next]]

LEMMA NotedCoordinator ==
    ASSUME NEW c, NEW req, NEW cache, NEW runtime, NEW at, NEW next, c \in Coordinator,
           req \in [id : 0 .. RequestIds, type : RunsJob \cup {"none", "capabilities"}],
           cache \in Model \cup {None}, runtime \in {"unknown", "yes", "no"}, next \in BOOLEAN,
           at \in {"idle", "preparing", "media", "analyzing", "waiting", "loading", "transcribing", "cancelling"}
    PROVE  [c EXCEPT !.req = req, !.cache = cache, !.runtime = runtime, !.at = at, !.next = next]
               \in Coordinator
  BY ZenonT(60) DEF Coordinator

LEMMA NotedFields ==
    ASSUME NEW s, NEW req, NEW cache, NEW runtime, NEW at, NEW next, s \in World,
           req \in {s.c.req, NoRequest}, cache \in Model \cup {None},
           runtime \in {"unknown", "yes", "no"}, at \in Stages \cup {"idle"}, next \in BOOLEAN
    PROVE  LET t == Noted(s, req, cache, runtime, at, next)
           IN  /\ t \in World /\ t.m = s.m /\ t.inbox = s.inbox /\ t.wire = s.wire
               /\ t.job = s.job /\ t.leased = s.leased
               /\ t.c.active = s.c.active /\ t.c.pending = s.c.pending /\ t.c.quiet = s.c.quiet
               /\ t.c.media = s.c.media /\ t.c.polling = s.c.polling /\ t.c.retry = s.c.retry
               /\ t.c.req = req /\ t.c.cache = cache /\ t.c.runtime = runtime /\ t.c.at = at
               /\ t.c.next = next
  <1> DEFINE k == [s.c EXCEPT !.req = req, !.cache = cache, !.runtime = runtime, !.at = at,
                              !.next = next]
  <1>1. s.c \in Coordinator
    BY DEF World
  <1>2. req \in [id : 0 .. RequestIds, type : RunsJob \cup {"none", "capabilities"}]
    <2>1. NoRequest \in [id : 0 .. RequestIds, type : RunsJob \cup {"none", "capabilities"}]
      BY Counts DEF NoRequest
    <2> QED BY <1>1, <2>1 DEF Coordinator
  <1>3. k \in Coordinator
    <2>1. at \in {"idle", "preparing", "media", "analyzing", "waiting", "loading", "transcribing", "cancelling"}
      BY DEF Stages
    <2> QED BY ZenonT(60), <1>1, <1>2, <2>1, NotedCoordinator
  <1>4. /\ k.active = s.c.active /\ k.pending = s.c.pending /\ k.quiet = s.c.quiet
        /\ k.media = s.c.media /\ k.polling = s.c.polling /\ k.retry = s.c.retry
        /\ k.req = req /\ k.cache = cache /\ k.runtime = runtime /\ k.at = at /\ k.next = next
    BY <1>1 DEF Coordinator
  <1> HIDE DEF k
  <1> QED BY <1>3, <1>4 DEF World, Noted, k

LEMMA NotedIsSound ==
    ASSUME NEW s, NEW res, NEW a, NEW req, NEW cache, NEW runtime, NEW at, NEW next,
           Sound(s, op, res, test), Answers(s, a, op, res),
           req \in {s.c.req, NoRequest}, cache \in {s.c.cache, None, ModelOf[s.c.active]},
           runtime \in {"unknown", "yes", "no"}, at \in (Stages \cup {"idle"}) \ {"media"}, next \in BOOLEAN,
           Kept(res) =>
               /\ cache = s.c.cache \/ cache = None \/ res = cache
               /\ next \/ req.type = "transcribe" => cache = ModelOf[s.c.active],
           req # NoRequest => ~next /\ at = s.c.at
    PROVE  LET t == Noted(s, req, cache, runtime, at, next)
           IN  /\ Sound(t, op, res, test)
               /\ t.m = s.m /\ t.job = s.job /\ t.leased = s.leased
               /\ t.c.active = s.c.active /\ t.c.pending = "none" /\ t.c.req = req
               /\ t.c.cache = cache /\ t.c.runtime = runtime /\ t.c.at = at /\ t.c.next = next
               /\ Answers(s, a, op, res) => (~CheckpointsMayFail => JobFree(t.inbox, op))
               /\ req = NoRequest /\ ~next => Resting(t)
               /\ Roomy(s) => Roomy(t)
  <1> DEFINE t == Noted(s, req, cache, runtime, at, next)
  <1>1. /\ s \in World /\ s.c \in Coordinator /\ CoordinatorSound(s.c) /\ Calm(s.c, s.inbox, op)
        /\ Remembered(s.c, s.inbox, s.wire, op, res) /\ s.wire \in Seq(Answer)
        /\ Belongs(s.c, s.inbox, s.wire, op) /\ TestSound(s.m, s.c, s.inbox, op, test)
        /\ Unforced(s.m, s.c)
    BY DEF Sound, World
  <1>2. /\ s.c.active \in Job /\ s.c.active # None /\ s.c.pending = "none" /\ s.c.req.id # 0
        /\ ~s.c.quiet
    BY <1>1, NamesAssumption DEF Answers, CoordinatorSound
  <1>3. s.c.req.type # "none" /\ ~s.c.polling /\ ~s.c.next /\ ~s.c.media /\ s.c.at # "media"
    BY <1>1, <1>2 DEF CoordinatorSound, Occupied
  <1>4. cache \in Model \cup {None}
    BY <1>1, <1>2, ModelAssumption DEF Coordinator
  <1>5. /\ t \in World /\ t.m = s.m /\ t.inbox = s.inbox /\ t.wire = s.wire
        /\ t.job = s.job /\ t.leased = s.leased
        /\ t.c.active = s.c.active /\ t.c.pending = s.c.pending /\ t.c.quiet = s.c.quiet
        /\ t.c.media = s.c.media /\ t.c.polling = s.c.polling /\ t.c.retry = s.c.retry
        /\ t.c.req = req /\ t.c.cache = cache /\ t.c.runtime = runtime /\ t.c.at = at
        /\ t.c.next = next
    BY <1>1, <1>4, NotedFields
  <1> HIDE DEF t
  <1>6. ~CheckpointsMayFail => JobFree(s.inbox, op)
    BY AnsweredIsJobFree
  <1>7. NoRequest.id = 0 /\ NoRequest.type = "none"
    BY DEF NoRequest
  <1>8. CoordinatorSound(t.c)
    <2>1. Occupied(t.c)
      <3>1. CASE req = NoRequest
        BY <1>3, <1>5, <1>7, <3>1 DEF Occupied
      <3>2. CASE req # NoRequest
        BY <1>1, <1>3, <1>5, <3>2 DEF CoordinatorSound, Occupied
      <3> QED BY <3>1, <3>2
    <2> QED BY <1>1, <1>2, <1>5, <1>7, <2>1 DEF CoordinatorSound
  <1>9. \A e \in ToSet(t.wire) : e.id # 0
    BY <1>1, <1>5, AnswerHasId
  <1>10. Belongs(t.c, t.inbox, t.wire, op)
    <2>1. CASE req = NoRequest
      BY <1>5, <1>7, <1>9, <2>1 DEF Belongs
    <2>2. CASE req = s.c.req
      BY <1>1, <1>5, <2>2 DEF Belongs
    <2> QED BY <2>1, <2>2
  <1>11. Calm(t.c, t.inbox, op)
    BY <1>1, <1>2, <1>5, <1>6 DEF Calm, JobFree
  <1>12. TestSound(t.m, t.c, t.inbox, op, test)
    BY <1>1, <1>2, <1>5 DEF TestSound
  <1>13. Remembered(t.c, t.inbox, t.wire, op, res)
    <2> SUFFICES ASSUME Kept(res)
                 PROVE  /\ \A j \in Job : cache \in {None, ModelOf[j]}
                        /\ cache # None => res = cache /\ \A r \in Works(s.inbox, op) : r.type \notin {"load", "unload"}
                        /\ next \/ req.type = "transcribe" => cache = ModelOf[s.c.active]
                        /\ \A e \in ToSet(s.wire) : e.id = req.id /\ e.type = "loaded" => res = ModelOf[s.c.active]
                        /\ \A r \in Works(s.inbox, op) : ForJob(r) => r.model = ModelOf[r.for]
      BY <1>5 DEF Remembered
    <2>1. \A r \in Works(s.inbox, op) : r.type \notin {"load", "unload"}
      BY NoModelMoves DEF Kept, OneModelKept
    <2>2. \A j \in Job : ModelOf[s.c.active] = ModelOf[j]
      BY <1>2 DEF Kept, OneModelKept
    <2>3. /\ \A j \in Job : s.c.cache \in {None, ModelOf[j]}
          /\ s.c.cache # None => res = s.c.cache
          /\ \A e \in ToSet(s.wire) : e.id = s.c.req.id /\ e.type = "loaded" => res = ModelOf[s.c.active]
          /\ \A r \in Works(s.inbox, op) : ForJob(r) => r.model = ModelOf[r.for]
      BY <1>1 DEF Remembered
    <2>4. \A e \in ToSet(s.wire) : e.id = req.id /\ e.type = "loaded" => res = ModelOf[s.c.active]
      BY <1>5, <1>7, <1>9, <2>3
    <2> QED BY <2>1, <2>2, <2>3, <2>4
  <1>14. Unforced(t.m, t.c)
    BY <1>1, <1>5, <1>7 DEF Unforced
  <1>15. Sound(t, op, res, test)
    BY <1>5, <1>8, <1>10, <1>11, <1>12, <1>13, <1>14 DEF Sound
  <1>16. req = NoRequest /\ ~next => Resting(t)
    BY <1>2, <1>3, <1>5, <1>7 DEF Resting, Paused
  <1>17. Roomy(s) => Roomy(t)
    BY <1>5, <1>7, RoomStays
  <1> QED BY <1>2, <1>5, <1>6, <1>15, <1>16, <1>17 DEF t

LEMMA NotedAlone ==
    ASSUME NEW s, NEW v, s \in World
    PROVE  /\ [s EXCEPT !.c.cache = v] = Noted(s, s.c.req, v, s.c.runtime, s.c.at, s.c.next)
           /\ [s EXCEPT !.c.req = v] = Noted(s, v, s.c.cache, s.c.runtime, s.c.at, s.c.next)
  <1>1. s.c \in Coordinator
    BY DEF World
  <1>2. [s.c EXCEPT !.cache = v] = [s.c EXCEPT !.req = s.c.req, !.cache = v, !.runtime = s.c.runtime,
                                               !.at = s.c.at, !.next = s.c.next]
    BY <1>1 DEF Coordinator
  <1>3. [s.c EXCEPT !.req = v] = [s.c EXCEPT !.req = v, !.cache = s.c.cache, !.runtime = s.c.runtime,
                                             !.at = s.c.at, !.next = s.c.next]
    BY <1>1 DEF Coordinator
  <1>4. /\ [s EXCEPT !.c.cache = v] = [s EXCEPT !.c = [s.c EXCEPT !.cache = v]]
        /\ [s EXCEPT !.c.req = v] = [s EXCEPT !.c = [s.c EXCEPT !.req = v]]
    BY DEF World
  <1> QED BY <1>2, <1>3, <1>4 DEF Noted

WithReq(t, v)     == [t EXCEPT !.c.req = v]
WithAt(t, v)      == [t EXCEPT !.c.at = v]
WithRuntime(t, v) == [t EXCEPT !.c.runtime = v]

LEMMA NotedAgain ==
    ASSUME NEW s, NEW v, NEW req, NEW cache, NEW runtime, NEW at, NEW next, s \in World
    PROVE  LET t == Noted(s, req, cache, runtime, at, next)
           IN  /\ WithReq(t, v) = Noted(s, v, cache, runtime, at, next)
               /\ WithAt(t, v) = Noted(s, req, cache, runtime, v, next)
               /\ WithRuntime(t, v) = Noted(s, req, cache, v, at, next)
  <1> DEFINE k == [s.c EXCEPT !.req = req, !.cache = cache, !.runtime = runtime, !.at = at,
                              !.next = next]
  <1> DEFINE t == [s EXCEPT !.c = k]
  <1>1. s.c \in Coordinator
    BY DEF World
  <1>2. /\ [k EXCEPT !.req = v] = [s.c EXCEPT !.req = v, !.cache = cache, !.runtime = runtime, !.at = at,
                                              !.next = next]
        /\ [k EXCEPT !.at = v] = [s.c EXCEPT !.req = req, !.cache = cache, !.runtime = runtime, !.at = v,
                                             !.next = next]
        /\ [k EXCEPT !.runtime = v] = [s.c EXCEPT !.req = req, !.cache = cache, !.runtime = v, !.at = at,
                                                  !.next = next]
    BY <1>1 DEF Coordinator
  <1> HIDE DEF k
  <1>3. /\ t.c = k /\ \A w : [t EXCEPT !.c = w] = [s EXCEPT !.c = w]
    BY DEF World
  <1>4. /\ [t EXCEPT !.c.req = v] = [t EXCEPT !.c = [k EXCEPT !.req = v]]
        /\ [t EXCEPT !.c.at = v] = [t EXCEPT !.c = [k EXCEPT !.at = v]]
        /\ [t EXCEPT !.c.runtime = v] = [t EXCEPT !.c = [k EXCEPT !.runtime = v]]
    BY <1>3
  <1> QED BY <1>2, <1>3, <1>4 DEF Noted, k, WithReq, WithAt, WithRuntime

\* A chunk is done, and the next one is to come.
LEMMA NextIsLed ==
    ASSUME NEW t, NEW o, NEW res, NEW ts, Sound(t, o, res, ts), Resting(t),
           Kept(res) => t.c.cache = ModelOf[t.c.active]
    PROVE  Led(t, [t EXCEPT !.c.next = TRUE], o, res, ts)
  <1> DEFINE k == [t.c EXCEPT !.next = TRUE]
  <1> DEFINE u == [t EXCEPT !.c = k]
  <1>1. t \in World /\ t.c \in Coordinator /\ CoordinatorSound(t.c)
    BY DEF Sound, World
  <1>2. /\ t.c.active \in Job /\ t.c.active # None /\ t.c.req.type = "none"
        /\ ~t.c.polling /\ ~t.c.media /\ t.c.at # "media"
    BY NamesAssumption DEF Resting, Paused
  <1>3. /\ k \in Coordinator
        /\ k.active = t.c.active /\ k.req = t.c.req /\ k.pending = t.c.pending
        /\ k.quiet = t.c.quiet /\ k.retry = t.c.retry /\ k.polling = t.c.polling
        /\ k.next /\ k.media = t.c.media /\ k.at = t.c.at /\ k.cache = t.c.cache
    BY <1>1 DEF Coordinator
  <1>4. [t EXCEPT !.c.next = TRUE] = u
    BY <1>1 DEF World
  <1> HIDE DEF k
  <1>5. u \in World /\ u.m = t.m /\ u.inbox = t.inbox /\ u.wire = t.wire /\ u.c = k
    BY <1>1, <1>3 DEF World
  <1> HIDE DEF u
  <1>6. Sound(u, o, res, ts)
    <2>1. Kept(res) =>
             /\ u.c.cache \in {t.c.cache, None}
             /\ u.c.next \/ t.c.req.type = "transcribe" => u.c.cache = ModelOf[t.c.active]
      BY <1>2, <1>3, <1>5
    <2>2. u.c.quiet => u.c.pending # "none" /\ t.c.quiet
      BY <1>1, <1>3, <1>5 DEF CoordinatorSound
    <2>3. Occupied(u.c)
      BY <1>2, <1>3, <1>5 DEF Occupied
    <2> QED BY <1>2, <1>3, <1>5, <2>1, <2>2, <2>3, TurnIsSound
  <1>7. Waits(u, o)
    BY <1>3, <1>5 DEF Waits
  <1> QED BY <1>4, <1>5, <1>6, <1>7 DEF Led

LEMMA StopOfAnswered ==
    ASSUME NEW s, NEW t, NEW o, NEW res, NEW ts, NEW x,
           Sound(t, o, res, ts), t.c.active \in Job, t.m = s.m,
           ~CheckpointsMayFail => JobFree(t.inbox, o), x \in Choice
    PROVE  Led(s, StopJob(t, "fail", TRUE, x), o, res, ts)
  <1>1. "fail" \in Cause
    BY DEF Cause
  <1>2. Handled(t, StopJob(t, "fail", TRUE, x), o, res, ts)
    BY <1>1, StopJobIsHandled
  <1> QED BY <1>2 DEF Handled, Led, ManagerKept

LEMMA EnvelopeIsLed ==
    ASSUME NEW s, NEW a, NEW x, Sound(s, op, resident, test), Answers(s, a, op, resident), Roomy(s),
           resident \in Model \cup {None}, x \in Choice
    PROVE  Led(s, HandleWorkerEnvelope(s, a, x), op, resident, test)
  <1>1. /\ s \in World /\ s.c \in Coordinator /\ CoordinatorSound(s.c)
        /\ Remembered(s.c, s.inbox, s.wire, op, resident)
    BY DEF Sound, World
  <1>2. s.c.active \in Job /\ s.c.active # None /\ s.c.req.id # 0 /\ s.c.req # NoRequest
    BY NamesAssumption DEF Answers, NoRequest
  <1>3. /\ s.c.at \in (Stages \cup {"idle"}) \ {"media"} /\ s.c.runtime \in {"unknown", "yes", "no"}
        /\ ~s.c.next /\ s.c.next \in BOOLEAN
    <2>1. s.c.at # "media" /\ ~s.c.next
      BY <1>1, <1>2 DEF CoordinatorSound, Occupied
    <2> QED BY <1>1, <2>1 DEF Coordinator, Stages
  <1>4. Kept(resident) => /\ s.c.req.type = "transcribe" => s.c.cache = ModelOf[s.c.active]
                          /\ a.type = "loaded" => resident = ModelOf[s.c.active]
    BY <1>1, <1>2 DEF Remembered, Answers
  <1>13. NoRequest.type = "none"
    BY DEF NoRequest
  <1>14. WithReq(s, NoRequest) = Noted(s, NoRequest, s.c.cache, s.c.runtime, s.c.at, s.c.next)
    BY <1>1, NotedAlone DEF WithReq
  <1>5. CASE a.type = "error"
    <2> DEFINE ch == IF s.c.req.type = "load" /\ s.c.at # "cancelling" THEN None ELSE s.c.cache
    <2> DEFINE t == Noted(s, s.c.req, ch, s.c.runtime, s.c.at, s.c.next)
    <2>1. /\ ch \in {s.c.cache, None, ModelOf[s.c.active]} /\ (ch = s.c.cache \/ ch = None)
          /\ Kept(resident) => (s.c.req.type = "transcribe" => ch = ModelOf[s.c.active])
      BY <1>4
    <2>2. [s EXCEPT !.c.cache = ch] = t
      BY <1>1, NotedAlone
    <2>3. [s EXCEPT !.c.cache = IF s.c.req.type = "load" /\ s.c.at # "cancelling" THEN None ELSE @] = t
      BY <1>1, <2>2 DEF World
    <2> HIDE DEF ch, t
    <2>6. Kept(resident) => /\ ch = s.c.cache \/ ch = None \/ resident = ch
                            /\ s.c.next \/ s.c.req.type = "transcribe" => ch = ModelOf[s.c.active]
      BY <1>3, <2>1
    <2>4. /\ Sound(t, op, resident, test) /\ t.m = s.m /\ t.c.active = s.c.active
          /\ (~CheckpointsMayFail => JobFree(t.inbox, op))
      BY SMTT(30), <1>3, <2>1, <2>6, NotedIsSound DEF t
    <2>5. Led(s, StopJob(t, "fail", TRUE, x), op, resident, test)
      BY <1>2, <2>4, StopOfAnswered
    <2> QED BY <1>5, <2>3, <2>5 DEF HandleWorkerEnvelope
  <1>6. Led(s, StopJob(s, "fail", TRUE, x), op, resident, test)
    <2>1. ~CheckpointsMayFail => JobFree(s.inbox, op)
      BY AnsweredIsJobFree
    <2> QED BY <1>2, <2>1, StopOfAnswered
  <1>7. CASE a.type = "cancelled"
    BY <1>6, <1>7 DEF HandleWorkerEnvelope
  <1>8. CASE a.type \in {"capabilities", "unavailable"}
    <2> DEFINE rt == IF a.type = "capabilities" THEN "yes" ELSE "no"
    <2> DEFINE t == Noted(s, NoRequest, s.c.cache, rt, s.c.at, s.c.next)
    <2>1. rt \in {"unknown", "yes", "no"} /\ rt # "unknown"
      OBVIOUS
    <2>2. WithRuntime(WithReq(s, NoRequest), rt) = t
      BY <1>1, <1>14, NotedAgain
    <2> HIDE DEF rt, t
    <2>3. s.c.at \in Asking
      BY <1>1, <1>8 DEF CoordinatorSound, Occupied, Answers
    <2>4. /\ Sound(t, op, resident, test) /\ t.m = s.m /\ t.c.at = s.c.at /\ t.c.runtime = rt
          /\ t.c.cache = s.c.cache /\ Resting(t) /\ Roomy(t)
      BY <1>2, <1>3, <2>1, <1>13, NotedIsSound DEF t
    <2>5. t.m.ready
      BY <2>4 DEF Answers
    <2>6. Handled(t, ContinueAfterWorkerPreflight(t, x), op, resident, test)
      BY <2>1, <2>3, <2>4, <2>5, ContinueIsHandled
    <2>7. Led(s, ContinueAfterWorkerPreflight(t, x), op, resident, test)
      BY <2>4, <2>6 DEF Handled, Led, ManagerKept
    <2> QED BY <1>8, <2>2, <2>7 DEF HandleWorkerEnvelope, rt, WithRuntime, WithReq
  <1>9. CASE a.type = "analyzed"
    <2> DEFINE t == Noted(s, NoRequest, s.c.cache, s.c.runtime, s.c.at, s.c.next)
    <2>1. [s EXCEPT !.c.req = NoRequest] = t
      BY <1>1, NotedAlone
    <2> HIDE DEF t
    <2>2. /\ Sound(t, op, resident, test) /\ t.m = s.m /\ Resting(t) /\ Roomy(t)
      BY <1>2, <1>3, <1>13, NotedIsSound DEF t
    <2>3. Led(t, BeginWaitingForModel(t, x), op, resident, test)
      BY <2>2, BeginWaitingIsLed DEF Resting
    <2>4. Led(s, BeginWaitingForModel(t, x), op, resident, test)
      BY <2>2, <2>3 DEF Led
    <2> QED BY <1>6, <1>9, <2>1, <2>4 DEF HandleWorkerEnvelope
  <1>10. CASE a.type = "loaded"
    <2> DEFINE ch == ModelOf[s.c.active]
    <2> DEFINE kept == [s EXCEPT !.c.cache = ch]
    <2>4. kept = Noted(s, s.c.req, ch, s.c.runtime, s.c.at, s.c.next)
      BY <1>1, NotedAlone
    <2>1. Led(s, StopJob(kept, "fail", TRUE, x), op, resident, test)
      <3> DEFINE t == Noted(s, s.c.req, ch, s.c.runtime, s.c.at, s.c.next)
      <3>1. kept = t
        BY <1>1, NotedAlone
      <3> HIDE DEF kept, t
      <3>2. /\ Sound(t, op, resident, test) /\ t.m = s.m /\ t.c.active = s.c.active
            /\ (~CheckpointsMayFail => JobFree(t.inbox, op))
        BY SMTT(30), <1>2, <1>3, <1>4, <1>10, NotedIsSound DEF t
      <3> QED BY <1>2, <3>1, <3>2, StopOfAnswered
    <2>2. Led(s, StopJob([kept EXCEPT !.c.req = NoRequest], "fail", FALSE, x), op, resident, test)
      <3> DEFINE t == Noted(s, NoRequest, ch, s.c.runtime, s.c.at, s.c.next)
      <3>1. WithReq(kept, NoRequest) = t
        BY <1>1, <2>4, NotedAgain
      <3> HIDE DEF kept, t
      <3>2. /\ Sound(t, op, resident, test) /\ t.m = s.m /\ Resting(t)
        BY SMTT(30), <1>2, <1>3, <1>4, <1>10, <1>13, NotedIsSound DEF t
      <3>3. Handled(t, StopJob(t, "fail", FALSE, x), op, resident, test)
        BY <3>2, StopOfResting DEF Cause, Resting
      <3> QED BY <3>1, <3>2, <3>3 DEF Handled, Led, ManagerKept, WithReq
    <2>3. Led(s, StartNextChunk([kept EXCEPT !.c.req = NoRequest, !.c.at = "transcribing"], x),
              op, resident, test)
      <3> DEFINE t == Noted(s, NoRequest, ch, s.c.runtime, "transcribing", s.c.next)
      <3>1. WithAt(WithReq(kept, NoRequest), "transcribing") = t
        BY <1>1, <2>4, NotedAgain
      <3> HIDE DEF kept, t
      <3>2. "transcribing" \in (Stages \cup {"idle"}) \ {"media"}
        BY DEF Stages
      <3>3. /\ Sound(t, op, resident, test) /\ t.m = s.m /\ Resting(t) /\ Roomy(t)
            /\ t.c.cache = ch /\ t.c.active = s.c.active
        BY <1>2, <1>3, <1>4, <1>10, <3>2, <1>13, NotedIsSound DEF t
      <3>4. HasModel(t)
        BY <3>3 DEF HasModel
      <3>5. Handled(t, StartNextChunk(t, x), op, resident, test)
        BY <3>3, <3>4, StartNextChunkIsHandled
      <3>6. Led(s, StartNextChunk(WithAt(WithReq(kept, NoRequest), "transcribing"), x), op, resident, test)
        BY <3>1, <3>3, <3>5 DEF Handled, Led, ManagerKept
      <3>7. WithAt(WithReq(kept, NoRequest), "transcribing") =
                [kept EXCEPT !.c.req = NoRequest, !.c.at = "transcribing"]
        BY DEF WithAt, WithReq
      <3> QED BY <3>6, <3>7
    <2> QED BY <1>10, <2>1, <2>2, <2>3 DEF HandleWorkerEnvelope
  <1>11. CASE a.type = "done"
    <2> DEFINE t == Noted(s, NoRequest, s.c.cache, s.c.runtime, s.c.at, s.c.next)
    <2>1. [s EXCEPT !.c.req = NoRequest] = t
      BY <1>14 DEF WithReq
    <2> HIDE DEF t
    <2>2. Kept(resident) => s.c.cache = ModelOf[s.c.active]
      BY <1>4, <1>11 DEF Answers
    <2>3. /\ Sound(t, op, resident, test) /\ t.m = s.m /\ Resting(t)
          /\ t.c.cache = s.c.cache /\ t.c.active = s.c.active
      BY <1>2, <1>3, <1>13, NotedIsSound DEF t
    <2>4. Led(t, [t EXCEPT !.c.next = TRUE], op, resident, test)
      BY <2>2, <2>3, NextIsLed
    <2>5. Led(s, [t EXCEPT !.c.next = TRUE], op, resident, test)
      BY <2>3, <2>4 DEF Led
    <2> QED BY <1>6, <1>11, <2>1, <2>5 DEF HandleWorkerEnvelope
  <1>12. a.type \in {"error", "cancelled", "capabilities", "unavailable", "analyzed", "loaded", "done"}
    BY DEF Answers, Answer
  <1> QED BY <1>5, <1>7, <1>8, <1>9, <1>10, <1>11, <1>12

\* The client reads the first of its messages.
Popped(s) == [s EXCEPT !.wire = Tail(@)]

LEMMA PoppedIsSound ==
    ASSUME NEW s, NEW o, NEW res, NEW ts, Sound(s, o, res, ts), s.wire # <<>>
    PROVE  LET a == Head(s.wire)
               t == Popped(s)
           IN  /\ Sound(t, o, res, ts)
               /\ t.m = s.m /\ t.c = s.c /\ t.inbox = s.inbox /\ t.wire = Tail(s.wire)
               /\ t.job = s.job /\ t.leased = s.leased
               /\ a \in ToSet(s.wire) /\ ToSet(s.wire) = {a} \cup ToSet(t.wire)
               /\ a \in Answer /\ a.id # 0
               /\ Roomy(s) => Roomy(t)
  <1> DEFINE a == Head(s.wire)
  <1> DEFINE t == Popped(s)
  <1>1. s \in World /\ s.wire \in Seq(Answer) /\ s.m.ready
    BY DEF Sound, World
  <1>2. a \in Answer /\ Tail(s.wire) \in Seq(Answer) /\ ToSet(s.wire) = {a} \cup ToSet(Tail(s.wire))
    BY <1>1, FirstMessage
  <1>3. /\ t \in World /\ t.m = s.m /\ t.c = s.c /\ t.inbox = s.inbox /\ t.wire = Tail(s.wire)
        /\ t.job = s.job /\ t.leased = s.leased
    BY <1>1, <1>2 DEF Popped, World
  <1> HIDE DEF a, t
  <1>4. a \in ToSet(s.wire) /\ ToSet(t.wire) \subseteq ToSet(s.wire) /\ a.id # 0
    <2>1. a \in ToSet(s.wire)
      BY <1>2
    <2> QED BY <1>1, <1>2, <1>3, <2>1, AnswerHasId
  <1>5. MessagesSound(t.inbox, t.wire, o) /\ Belongs(t.c, t.inbox, t.wire, o)
    BY <1>3, <1>4 DEF Sound, MessagesSound, Belongs
  <1>6. Remembered(t.c, t.inbox, t.wire, o, res)
    BY <1>3, <1>4 DEF Sound, Remembered
  <1>7. Sound(t, o, res, ts)
    BY <1>1, <1>3, <1>5, <1>6 DEF Sound
  <1>8. Roomy(s) => Roomy(t)
    BY <1>3, <1>4, RoomStays
  <1> QED BY <1>2, <1>3, <1>4, <1>7, <1>8 DEF a, t

\* Unless it is the answer to the request of a job that goes on, its reader may forget it.
LEMMA PopKeepsWaiting ==
    ASSUME NEW s, NEW o, NEW res, NEW ts, Sound(s, o, res, ts), s.wire # <<>>, Waits(s, o),
           s.c.pending = "none" => Head(s.wire).id # s.c.req.id
    PROVE  Waits(Popped(s), o)
  <1> DEFINE a == Head(s.wire)
  <1> DEFINE t == Popped(s)
  <1>1. /\ t.m = s.m /\ t.c = s.c /\ t.inbox = s.inbox /\ ToSet(s.wire) = {a} \cup ToSet(t.wire)
    BY PoppedIsSound
  <1>2. s.c.pending = "none" => a.id # s.c.req.id
    OBVIOUS
  <1> HIDE DEF a, t
  <1>3. s.c.pending = "none" /\ Underway(s.c.req.id, s.inbox, s.wire, o)
            => Underway(t.c.req.id, t.inbox, t.wire, o)
    BY <1>1, <1>2 DEF Underway
  <1>4. Waits(t, o)
    BY <1>1, <1>3 DEF Waits
  <1> QED BY <1>4 DEF t

\* A message about a request leaves nothing of a job in the worker.
LEMMA AnswerFrees ==
    ASSUME NEW s, NEW o, NEW res, NEW ts, NEW a, Sound(s, o, res, ts),
           a \in ToSet(s.wire), a.id = s.c.req.id
    PROVE  ~CheckpointsMayFail => JobFree(s.inbox, o)
  <1> SUFFICES ASSUME ~CheckpointsMayFail, NEW r \in Works(s.inbox, o), ForJob(r) PROVE FALSE
    BY DEF JobFree
  <1>1. r.id = a.id /\ AnswerSound(a, s.inbox, o)
    BY DEF Sound, Calm, MessagesSound
  <1>2. CASE r \in ToSet(s.inbox)
    BY <1>1, <1>2 DEF AnswerSound
  <1>3. CASE r = o /\ ~o.answered
    BY <1>1, <1>3 DEF AnswerSound
  <1> QED BY <1>2, <1>3 DEF Works

\* The message that a forced cancellation waits for.
LEMMA SettlingAnswerIsLed ==
    ASSUME NEW s, NEW o, NEW res, NEW ts, NEW x, Sound(s, o, res, ts), Waits(s, o), s.wire # <<>>,
           Head(s.wire).id = s.m.forced, x \in Choice
    PROVE  Led(s, SettleForcedCancellation(Popped(s), x), o, res, ts)
  <1> DEFINE a == Head(s.wire)
  <1> DEFINE t == Popped(s)
  <1> DEFINE u == SettleForcedCancellation(t, x)
  <1>1. /\ Sound(t, o, res, ts) /\ t.m = s.m /\ t.c = s.c /\ t.inbox = s.inbox
        /\ a \in ToSet(s.wire) /\ a.id # 0
    BY PoppedIsSound
  <1>2. a.id = s.m.forced
    OBVIOUS
  <1>3. s.c.pending = "none" => Waits(t, o)
    <2>1. s.c.pending = "none" => a.id # s.c.req.id
      BY <1>1, <1>2 DEF Sound, Unforced
    <2> QED BY <2>1, PopKeepsWaiting
  <1> HIDE DEF a, t
  <1>4. s.c.pending # "none" => (~CheckpointsMayFail => JobFree(s.inbox, o))
    <2> SUFFICES ASSUME s.c.pending # "none", ~CheckpointsMayFail PROVE JobFree(s.inbox, o)
      OBVIOUS
    <2>1. CoordinatorSound(s.c) /\ Calm(s.c, s.inbox, o)
      BY DEF Sound
    <2>2. s.c.req.type \in RunsJob /\ s.c.active # None /\ s.c.retry = {}
      BY <2>1 DEF CoordinatorSound, LetGo, Calm
    <2>3. /\ ~s.c.polling /\ ~s.c.media /\ ~s.c.next /\ s.c.at # "media"
          /\ s.c.req.type # "capabilities"
      BY <2>1, <2>2 DEF CoordinatorSound, Occupied, RunsJob
    <2>4. s.c.req.id = s.m.forced
      BY <2>2, <2>3 DEF Waits
    <2> QED BY <1>1, <1>2, <2>4, AnswerFrees
  <1>5. t.m.forced # 0 /\ t.c.pending # "none" => (~CheckpointsMayFail => JobFree(t.inbox, o))
    BY <1>1, <1>4
  <1>6. /\ Sound(u, o, res, ts)
        /\ t.m.forced # 0 => Fenced(u.m)
        /\ Waits(t, o) \/ (t.m.forced # 0 /\ t.c.pending # "none") => Waits(u, o)
    BY <1>1, <1>5, SettleIsHandled
  <1> QED BY <1>1, <1>2, <1>3, <1>6 DEF Led, t

\* The message that the active job goes on from.
LEMMA JobAnswerIsLed ==
    ASSUME NEW s, NEW x, Sound(s, op, resident, test), s.wire # <<>>, Roomy(s),
           Head(s.wire).id = s.c.req.id, s.c.pending = "none", resident \in Model \cup {None}, x \in Choice
    PROVE  Led(s, HandleWorkerEnvelope(Popped(s), Head(s.wire), x), op, resident, test)
  <1> DEFINE a == Head(s.wire)
  <1> DEFINE t == Popped(s)
  <1>1. /\ Sound(t, op, resident, test) /\ t.m = s.m /\ t.c = s.c /\ t.inbox = s.inbox /\ Roomy(t)
        /\ a \in ToSet(s.wire) /\ a \in Answer /\ a.id # 0
    BY PoppedIsSound
  <1>2. a.id = s.c.req.id
    OBVIOUS
  <1> HIDE DEF a, t
  <1>3. /\ s \in World /\ CoordinatorSound(s.c) /\ s.m.ready /\ MessagesSound(s.inbox, s.wire, op)
        /\ Belongs(s.c, s.inbox, s.wire, op) /\ Remembered(s.c, s.inbox, s.wire, op, resident)
    BY DEF Sound
  <1>4. s.c.active \in Job
    BY <1>1, <1>2, <1>3 DEF World, Coordinator, CoordinatorSound, LetGo, NoRequest
  <1>5. /\ a.type # "unloaded"
        /\ a.type = "loaded" => s.c.req.type = "load"
        /\ a.type = "done" => s.c.req.type = "transcribe"
        /\ (a.type \in {"capabilities", "unavailable"}) <=> (s.c.req.type = "capabilities")
    BY <1>1, <1>2, <1>3 DEF Belongs
  <1>6. AnswerSound(a, s.inbox, op)
    BY <1>1, <1>3 DEF MessagesSound
  <1>7. a.type = "loaded" => (Kept(resident) => resident = ModelOf[s.c.active])
    BY <1>1, <1>2, <1>3 DEF Remembered
  <1>8. Answers(t, a, op, resident)
    BY <1>1, <1>2, <1>3, <1>4, <1>5, <1>6, <1>7 DEF Answers
  <1>9. Led(t, HandleWorkerEnvelope(t, a, x), op, resident, test)
    BY <1>1, <1>8, EnvelopeIsLed
  <1> QED BY <1>1, <1>9 DEF Led, a, t

-----------------------------------------------------------------------------
(* One field of the coordinator changes.                                    *)

LEMMA TakenUp ==
    ASSUME NEW s, NEW o, NEW res, NEW ts, Sound(s, o, res, ts), s.c.active \in Job
    PROVE  /\ s \in World /\ s.c \in Coordinator /\ s.m \in Manager /\ s.c.active # None
           /\ CoordinatorSound(s.c) /\ Occupied(s.c)
           /\ s.c.quiet => s.c.pending # "none"
           /\ Kept(res) => (s.c.next \/ s.c.req.type = "transcribe" => s.c.cache = ModelOf[s.c.active])
  <1>1. s.c.active # None
    BY NamesAssumption
  <1> QED BY <1>1 DEF Sound, World, CoordinatorSound, Remembered

LEMMA NoPollIsSound ==
    ASSUME NEW s, NEW o, NEW res, NEW ts, Sound(s, o, res, ts), s.c.active \in Job
    PROVE  LET t == [s EXCEPT !.c.polling = FALSE]
           IN  /\ Sound(t, o, res, ts)
               /\ t.m = s.m /\ t.inbox = s.inbox /\ t.wire = s.wire /\ t.job = s.job /\ t.leased = s.leased
               /\ t.c.active = s.c.active /\ t.c.req = s.c.req /\ t.c.at = s.c.at
               /\ t.c.media = s.c.media /\ t.c.next = s.c.next /\ ~t.c.polling
  <1> DEFINE k == [s.c EXCEPT !.polling = FALSE]
  <1> DEFINE t == [s EXCEPT !.c = k]
  <1>1. /\ s \in World /\ s.c \in Coordinator /\ s.c.active # None /\ Occupied(s.c)
        /\ s.c.quiet => s.c.pending # "none"
        /\ Kept(res) => (s.c.next \/ s.c.req.type = "transcribe" => s.c.cache = ModelOf[s.c.active])
    BY TakenUp
  <1>2. /\ k \in Coordinator
        /\ k.active = s.c.active /\ k.req = s.c.req /\ k.pending = s.c.pending
        /\ k.quiet = s.c.quiet /\ k.retry = s.c.retry /\ ~k.polling
        /\ k.next = s.c.next /\ k.media = s.c.media /\ k.at = s.c.at /\ k.cache = s.c.cache
    BY <1>1 DEF Coordinator
  <1>3. [s EXCEPT !.c.polling = FALSE] = t
    BY <1>1 DEF World
  <1> HIDE DEF k
  <1>4. /\ t \in World /\ t.m = s.m /\ t.inbox = s.inbox /\ t.wire = s.wire /\ t.c = k
        /\ t.job = s.job /\ t.leased = s.leased
    BY <1>1, <1>2 DEF World
  <1> HIDE DEF t
  <1>5. Occupied(t.c)
    BY <1>1, <1>2, <1>4 DEF Occupied
  <1>6. Sound(t, o, res, ts)
    BY <1>1, <1>2, <1>4, <1>5, TurnIsSound
  <1> QED BY <1>2, <1>3, <1>4, <1>6

LEMMA NoMediaIsSound ==
    ASSUME NEW s, NEW o, NEW res, NEW ts, Sound(s, o, res, ts), s.c.active \in Job
    PROVE  LET t == [s EXCEPT !.c.media = FALSE]
           IN  /\ Sound(t, o, res, ts)
               /\ t.m = s.m /\ t.inbox = s.inbox /\ t.wire = s.wire /\ t.job = s.job /\ t.leased = s.leased
               /\ t.c.active = s.c.active /\ t.c.req = s.c.req /\ t.c.at = s.c.at
               /\ t.c.polling = s.c.polling /\ t.c.next = s.c.next /\ ~t.c.media
  <1> DEFINE k == [s.c EXCEPT !.media = FALSE]
  <1> DEFINE t == [s EXCEPT !.c = k]
  <1>1. /\ s \in World /\ s.c \in Coordinator /\ s.c.active # None /\ Occupied(s.c)
        /\ s.c.quiet => s.c.pending # "none"
        /\ Kept(res) => (s.c.next \/ s.c.req.type = "transcribe" => s.c.cache = ModelOf[s.c.active])
    BY TakenUp
  <1>2. /\ k \in Coordinator
        /\ k.active = s.c.active /\ k.req = s.c.req /\ k.pending = s.c.pending
        /\ k.quiet = s.c.quiet /\ k.retry = s.c.retry /\ k.polling = s.c.polling
        /\ k.next = s.c.next /\ ~k.media /\ k.at = s.c.at /\ k.cache = s.c.cache
    BY <1>1 DEF Coordinator
  <1>3. [s EXCEPT !.c.media = FALSE] = t
    BY <1>1 DEF World
  <1> HIDE DEF k
  <1>4. /\ t \in World /\ t.m = s.m /\ t.inbox = s.inbox /\ t.wire = s.wire /\ t.c = k
        /\ t.job = s.job /\ t.leased = s.leased
    BY <1>1, <1>2 DEF World
  <1> HIDE DEF t
  <1>5. Occupied(t.c)
    BY <1>1, <1>2, <1>4 DEF Occupied
  <1>6. Sound(t, o, res, ts)
    BY <1>1, <1>2, <1>4, <1>5, TurnIsSound
  <1> QED BY <1>2, <1>3, <1>4, <1>6

\* At its media stage the job starts or ends its media work.
LEMMA MediaIsSound ==
    ASSUME NEW s, NEW o, NEW res, NEW ts, Sound(s, o, res, ts), s.c.active \in Job, s.c.at = "media"
    PROVE  LET t == [s EXCEPT !.c.media = ~@]
           IN  Sound(t, o, res, ts) /\ t.m = s.m /\ t.c.at = "media"
  <1> DEFINE k == [s.c EXCEPT !.media = ~@]
  <1> DEFINE t == [s EXCEPT !.c = k]
  <1>1. /\ s \in World /\ s.c \in Coordinator /\ s.c.active # None /\ Occupied(s.c)
        /\ s.c.quiet => s.c.pending # "none"
        /\ Kept(res) => (s.c.next \/ s.c.req.type = "transcribe" => s.c.cache = ModelOf[s.c.active])
    BY TakenUp
  <1>2. /\ k \in Coordinator
        /\ k.active = s.c.active /\ k.req = s.c.req /\ k.pending = s.c.pending
        /\ k.quiet = s.c.quiet /\ k.retry = s.c.retry /\ k.polling = s.c.polling
        /\ k.next = s.c.next /\ k.at = s.c.at /\ k.cache = s.c.cache
    BY <1>1 DEF Coordinator
  <1>3. [s EXCEPT !.c.media = ~@] = t
    BY <1>1 DEF World
  <1> HIDE DEF k
  <1>4. t \in World /\ t.m = s.m /\ t.inbox = s.inbox /\ t.wire = s.wire /\ t.c = k
    BY <1>1, <1>2 DEF World
  <1> HIDE DEF t
  <1>5. Occupied(t.c)
    BY <1>1, <1>2, <1>4 DEF Occupied, Asking
  <1>6. Sound(t, o, res, ts)
    BY <1>1, <1>2, <1>4, <1>5, TurnIsSound
  <1> QED BY <1>2, <1>3, <1>4, <1>6

\* The next chunk begins.
LEMMA NoNextIsSound ==
    ASSUME NEW s, NEW o, NEW res, NEW ts, Sound(s, o, res, ts), s.c.active \in Job, s.c.next
    PROVE  LET t == [s EXCEPT !.c.next = FALSE]
           IN  /\ Sound(t, o, res, ts) /\ Resting(t)
               /\ t.m = s.m /\ t.inbox = s.inbox /\ t.wire = s.wire
               /\ t.c.active = s.c.active /\ t.c.req = s.c.req /\ t.c.cache = s.c.cache
  <1> DEFINE k == [s.c EXCEPT !.next = FALSE]
  <1> DEFINE t == [s EXCEPT !.c = k]
  <1>1. /\ s \in World /\ s.c \in Coordinator /\ s.c.active # None /\ Occupied(s.c)
        /\ s.c.quiet => s.c.pending # "none"
        /\ Kept(res) => (s.c.next \/ s.c.req.type = "transcribe" => s.c.cache = ModelOf[s.c.active])
    BY TakenUp
  <1>2. /\ k \in Coordinator
        /\ k.active = s.c.active /\ k.req = s.c.req /\ k.pending = s.c.pending
        /\ k.quiet = s.c.quiet /\ k.retry = s.c.retry /\ k.polling = s.c.polling
        /\ ~k.next /\ k.media = s.c.media /\ k.at = s.c.at /\ k.cache = s.c.cache
    BY <1>1 DEF Coordinator
  <1>3. [s EXCEPT !.c.next = FALSE] = t
    BY <1>1 DEF World
  <1> HIDE DEF k
  <1>4. t \in World /\ t.m = s.m /\ t.inbox = s.inbox /\ t.wire = s.wire /\ t.c = k
    BY <1>1, <1>2 DEF World
  <1> HIDE DEF t
  <1>5. Occupied(t.c)
    BY <1>1, <1>2, <1>4 DEF Occupied
  <1>6. Sound(t, o, res, ts)
    BY <1>1, <1>2, <1>4, <1>5, TurnIsSound
  <1>7. Resting(t)
    BY <1>1, <1>2, <1>4 DEF Occupied, Resting, Paused
  <1> QED BY <1>2, <1>3, <1>4, <1>6, <1>7

LEMMA NoRetryIsSound ==
    ASSUME NEW s, NEW o, NEW res, NEW ts, NEW p, Sound(s, o, res, ts), s.c.active \in Job
    PROVE  LET t == [s EXCEPT !.c.retry = @ \ {p}]
           IN  Sound(t, o, res, ts) /\ t.m = s.m /\ t.c.active = s.c.active
  <1> DEFINE k == [s.c EXCEPT !.retry = @ \ {p}]
  <1> DEFINE t == [s EXCEPT !.c = k]
  <1>1. /\ s \in World /\ s.c \in Coordinator /\ s.c.active # None /\ Occupied(s.c)
        /\ s.c.quiet => s.c.pending # "none"
        /\ Kept(res) => (s.c.next \/ s.c.req.type = "transcribe" => s.c.cache = ModelOf[s.c.active])
    BY TakenUp
  <1>2. /\ k \in Coordinator
        /\ k.active = s.c.active /\ k.req = s.c.req /\ k.pending = s.c.pending
        /\ k.quiet = s.c.quiet /\ k.retry \subseteq s.c.retry /\ k.polling = s.c.polling
        /\ k.next = s.c.next /\ k.media = s.c.media /\ k.at = s.c.at /\ k.cache = s.c.cache
    <2>1. s.c.retry \ {p} \in SUBSET (Cause \ {"abandon"})
      BY <1>1 DEF Coordinator
    <2> QED BY <1>1, <2>1 DEF Coordinator
  <1>3. [s EXCEPT !.c.retry = @ \ {p}] = t
    BY <1>1 DEF World
  <1> HIDE DEF k
  <1>4. t \in World /\ t.m = s.m /\ t.inbox = s.inbox /\ t.wire = s.wire /\ t.c = k
    BY <1>1, <1>2 DEF World
  <1> HIDE DEF t
  <1>5. Occupied(t.c)
    BY <1>1, <1>2, <1>4 DEF Occupied
  <1>6. Sound(t, o, res, ts)
    BY <1>1, <1>2, <1>4, <1>5, TurnIsSound
  <1> QED BY <1>2, <1>3, <1>4, <1>6

\* abortActiveOperationForCancellation waits for media work.
LEMMA NoticeIsHandled ==
    ASSUME NEW s, NEW o, NEW res, NEW ts, NEW x, Sound(s, o, res, ts), s.c.active \in Job, x \in Choice
    PROVE  Handled(s, NoticeCancellation(s, x), o, res, ts)
  <1> DEFINE k == [s.c EXCEPT !.at = "cancelling"]
  <1> DEFINE t == [s EXCEPT !.c = k]
  <1>1. /\ s \in World /\ s.c \in Coordinator /\ s.c.active # None /\ Occupied(s.c)
        /\ s.c.quiet => s.c.pending # "none"
        /\ Kept(res) => (s.c.next \/ s.c.req.type = "transcribe" => s.c.cache = ModelOf[s.c.active])
    BY TakenUp
  <1>2. /\ k \in Coordinator
        /\ k.active = s.c.active /\ k.req = s.c.req /\ k.pending = s.c.pending
        /\ k.quiet = s.c.quiet /\ k.retry = s.c.retry /\ k.polling = s.c.polling
        /\ k.next = s.c.next /\ k.media = s.c.media /\ k.at = "cancelling" /\ k.cache = s.c.cache
    BY <1>1 DEF Coordinator
  <1>3. [s EXCEPT !.c.at = "cancelling"] = t
    BY <1>1 DEF World
  <1> HIDE DEF k
  <1>4. t \in World /\ t.m = s.m /\ t.inbox = s.inbox /\ t.wire = s.wire /\ t.c = k
    BY <1>1, <1>2 DEF World
  <1> HIDE DEF t
  <1>5. Occupied(t.c)
    BY <1>1, <1>2, <1>4 DEF Occupied, Asking
  <1>6. Sound(t, o, res, ts)
    BY <1>1, <1>2, <1>4, <1>5, TurnIsSound
  <1>7. s.c.media => Handled(s, t, o, res, ts)
    BY <1>2, <1>4, <1>6 DEF Handled, Waits, ManagerKept
  <1>8. Handled(s, StopJob(t, "cancel", FALSE, x), o, res, ts)
    <2>1. "cancel" \in Cause /\ t.c.active \in Job
      BY <1>2, <1>4 DEF Cause
    <2>2. Handled(t, StopJob(t, "cancel", FALSE, x), o, res, ts)
      BY <1>6, <2>1, StopJobIsHandled
    <2> QED BY <1>2, <1>4, <2>2 DEF Handled
  <1> QED BY <1>3, <1>7, <1>8 DEF NoticeCancellation

\* Nobody's coordinator has nothing in the worker.
LEMMA VacantIsJobFree ==
    ASSUME NEW s, NEW o, NEW res, NEW ts, Sound(s, o, res, ts), s.c.active = None
    PROVE  LetGo(s.c) /\ (~CheckpointsMayFail => JobFree(s.inbox, o))
  <1>1. LetGo(s.c)
    BY DEF Sound, CoordinatorSound
  <1>2. s.c.req.type \notin RunsJob
    BY <1>1 DEF LetGo, NoRequest, RunsJob
  <1> QED BY <1>1, <1>2, IdleIsJobFree

\* The coordinator forgets which model is resident.
LEMMA ForgetIsSound ==
    ASSUME NEW s, NEW o, NEW res, NEW ts, Sound(s, o, res, ts),
           s.c.active = None \/ ~Kept(res)
    PROVE  LET t == [s EXCEPT !.c.cache = None]
           IN  /\ Sound(t, o, res, ts)
               /\ t.m = s.m /\ t.inbox = s.inbox /\ t.wire = s.wire /\ t.job = s.job /\ t.leased = s.leased
               /\ t.c.active = s.c.active /\ t.c.pending = s.c.pending /\ t.c.req = s.c.req
               /\ t.c.quiet = s.c.quiet /\ t.c.cache = None
  <1> DEFINE k == [s.c EXCEPT !.cache = None]
  <1> DEFINE t == [s EXCEPT !.c = k]
  <1>1. s \in World /\ s.c \in Coordinator /\ CoordinatorSound(s.c)
    BY DEF Sound, World
  <1>2. /\ k \in Coordinator
        /\ k.active = s.c.active /\ k.req = s.c.req /\ k.pending = s.c.pending
        /\ k.quiet = s.c.quiet /\ k.retry = s.c.retry /\ k.polling = s.c.polling
        /\ k.next = s.c.next /\ k.media = s.c.media /\ k.at = s.c.at /\ k.cache = None
    BY <1>1 DEF Coordinator
  <1>3. [s EXCEPT !.c.cache = None] = t
    BY <1>1 DEF World
  <1> HIDE DEF k
  <1>4. /\ t \in World /\ t.m = s.m /\ t.inbox = s.inbox /\ t.wire = s.wire /\ t.c = k
        /\ t.job = s.job /\ t.leased = s.leased
    BY <1>1, <1>2 DEF World
  <1> HIDE DEF t
  <1>5. CASE s.c.active = None
    <2>1. LetGo(s.c) /\ (~CheckpointsMayFail => JobFree(s.inbox, o))
      BY <1>5, VacantIsJobFree
    <2>2. LetGo(t.c)
      BY <1>2, <1>4, <2>1 DEF LetGo
    <2>3. Sound(t, o, res, ts)
      BY <1>2, <1>4, <2>1, <2>2, EndIsSound
    <2> QED BY <1>2, <1>3, <1>4, <2>3
  <1>6. CASE s.c.active # None
    <2>1. Occupied(t.c)
      BY <1>1, <1>2, <1>4 DEF CoordinatorSound, Occupied
    <2>2. t.c.quiet => t.c.pending # "none" /\ s.c.quiet
      BY <1>1, <1>2, <1>4 DEF CoordinatorSound
    <2>3. Sound(t, o, res, ts)
      BY <1>2, <1>4, <1>6, <2>1, <2>2, TurnIsSound
    <2> QED BY <1>2, <1>3, <1>4, <2>3
  <1> QED BY <1>5, <1>6

\* What the worker can do is asked of the next one.
LEMMA UnknownIsSound ==
    ASSUME NEW s, NEW o, NEW res, NEW ts, Sound(s, o, res, ts)
    PROVE  LET t == [s EXCEPT !.c.runtime = "unknown"]
           IN  /\ Sound(t, o, res, ts)
               /\ t.m = s.m /\ t.inbox = s.inbox /\ t.wire = s.wire
               /\ t.c.active = s.c.active /\ t.c.req = s.c.req /\ t.c.cache = s.c.cache
               /\ Waits(s, o) => Waits(t, o)
  <1> DEFINE k == [s.c EXCEPT !.runtime = "unknown"]
  <1> DEFINE t == [s EXCEPT !.c = k]
  <1>1. s \in World /\ s.c \in Coordinator /\ CoordinatorSound(s.c)
    BY DEF Sound, World
  <1>2. /\ k \in Coordinator
        /\ k.active = s.c.active /\ k.req = s.c.req /\ k.pending = s.c.pending
        /\ k.quiet = s.c.quiet /\ k.retry = s.c.retry /\ k.polling = s.c.polling
        /\ k.next = s.c.next /\ k.media = s.c.media /\ k.at = s.c.at /\ k.cache = s.c.cache
    BY <1>1 DEF Coordinator
  <1>3. [s EXCEPT !.c.runtime = "unknown"] = t
    BY <1>1 DEF World
  <1> HIDE DEF k
  <1>4. t \in World /\ t.m = s.m /\ t.inbox = s.inbox /\ t.wire = s.wire /\ t.c = k
    BY <1>1, <1>2 DEF World
  <1> HIDE DEF t
  <1>5. Waits(s, o) => Waits(t, o)
    BY <1>2, <1>4 DEF Waits
  <1>6. CASE s.c.active = None
    <2>1. LetGo(s.c) /\ (~CheckpointsMayFail => JobFree(s.inbox, o))
      BY <1>6, VacantIsJobFree
    <2>2. LetGo(t.c)
      BY <1>2, <1>4, <2>1 DEF LetGo
    <2>3. Sound(t, o, res, ts)
      BY <1>2, <1>4, <2>1, <2>2, EndIsSound
    <2> QED BY <1>2, <1>3, <1>4, <1>5, <2>3
  <1>7. CASE s.c.active # None
    <2>1. Occupied(t.c)
      BY <1>1, <1>2, <1>4 DEF CoordinatorSound, Occupied
    <2>2. t.c.quiet => t.c.pending # "none" /\ s.c.quiet
      BY <1>1, <1>2, <1>4 DEF CoordinatorSound
    <2>4. Kept(res) => (t.c.next \/ s.c.req.type = "transcribe" => t.c.cache = ModelOf[s.c.active])
      BY <1>2, <1>4, <1>7 DEF Sound, Remembered
    <2>3. Sound(t, o, res, ts)
      BY <1>2, <1>4, <1>7, <2>1, <2>2, <2>4, TurnIsSound
    <2> QED BY <1>2, <1>3, <1>4, <1>5, <2>3
  <1> QED BY <1>6, <1>7

\* The exit of the process, and the end of the application: no request keeps the job.
LEMMA InterruptIsHandled ==
    ASSUME NEW s, NEW o, NEW res, NEW ts, NEW x, Sound(s, o, res, ts), ~Kept(res),
           ~CheckpointsMayFail => JobFree(s.inbox, o), x \in Choice
    PROVE  Handled(s, InterruptActiveJob(s, x), o, res, ts) /\ InterruptActiveJob(s, x).c.cache = None
  <1> DEFINE t == [s EXCEPT !.c.cache = None]
  <1>1. /\ Sound(t, o, res, ts)
        /\ t.m = s.m /\ t.inbox = s.inbox /\ t.wire = s.wire /\ t.leased = s.leased
        /\ t.c.active = s.c.active /\ t.c.pending = s.c.pending /\ t.c.cache = None
    BY ForgetIsSound
  <1>2. InterruptActiveJob(s, x) =
            CASE t.c.active = None -> t
              [] t.c.active # None /\ t.c.pending # "none" -> FinishPendingTerminalCheckpoint(t, x)
              [] t.c.active # None /\ t.c.pending = "none" /\ ~t.leased ->
                     StopJob(t, "abandon", FALSE, x)
              [] OTHER -> Checkpoint(t, CauseOf(t, "interrupt"), x)
    BY DEF InterruptActiveJob
  <1> HIDE DEF t
  <1>3. t.c.active = None => Handled(t, t, o, res, ts)
    BY <1>1 DEF Handled, Waits, ManagerKept
  <1>4. t.c.pending # "none" => Handled(t, FinishPendingTerminalCheckpoint(t, x), o, res, ts)
    BY <1>1, FinishIsHandled
  <1>5. "abandon" \in Cause /\ CauseOf(t, "interrupt") \in Cause
    BY CauseIsKnown DEF Cause
  <1>6. t.c.active # None => t.c.active \in Job
    BY <1>1 DEF Sound, World, Coordinator
  <1>7. t.c.active # None => Handled(t, StopJob(t, "abandon", FALSE, x), o, res, ts)
    BY <1>1, <1>5, <1>6, StopJobIsHandled
  <1>8. t.c.active # None => Handled(t, Checkpoint(t, CauseOf(t, "interrupt"), x), o, res, ts)
    BY <1>1, <1>5, <1>6, CheckpointIsHandled
  <1>9. Handled(t, InterruptActiveJob(s, x), o, res, ts)
    BY <1>2, <1>3, <1>4, <1>7, <1>8
  <1> QED BY <1>1, <1>9 DEF Handled

LEMMA ShutdownIsSound ==
    ASSUME NEW s, NEW o, NEW res, NEW ts, NEW x, Sound(s, o, res, ts), x \in Choice
    PROVE  Sound(Shutdown(s, x), o, res, ts)
  <1>1. s.c.active = None => Sound([s EXCEPT !.c.cache = None], o, res, ts)
    BY ForgetIsSound
  <1>2. "interrupt" \in Cause /\ CauseOf(s, "interrupt") \in Cause
    BY CauseIsKnown DEF Cause
  <1>3. s.c.active # None => s.c.active \in Job
    BY DEF Sound, World, Coordinator
  <1>4. s.c.active # None => Handled(s, StopJob(s, "interrupt", FALSE, x), o, res, ts)
    BY <1>2, <1>3, StopJobIsHandled
  <1>5. s.c.active # None /\ ~ActiveWorkerRequestMayStillRun(s)
            => Handled(s, Checkpoint(s, CauseOf(s, "interrupt"), x), o, res, ts)
    <2>1. ~ActiveWorkerRequestMayStillRun(s) => (~CheckpointsMayFail => JobFree(s.inbox, o))
      BY IdleIsJobFree DEF ActiveWorkerRequestMayStillRun
    <2> QED BY <1>2, <1>3, <2>1, CheckpointIsHandled
  <1> QED BY <1>1, <1>4, <1>5 DEF Shutdown, Handled

\* Without a process and with writes that succeed, an interruption ends the job.
LEMMA CheckpointLetsGo ==
    ASSUME NEW s, NEW p, NEW x, s \in World, ~CheckpointsMayFail, x \in Choice
    PROVE  Checkpoint(s, p, x).c.active = None
  <1>1. x.ok
    BY DEF Choice
  <1>2. \A k, r : [Vacant EXCEPT !.cache = k, !.runtime = r].active = None
    BY DEF Vacant
  <1>3. /\ Release([s EXCEPT !.c.cache = None]).c.active = None
        /\ Release([s EXCEPT !.job[s.c.active] = Outcome[p]]).c.active = None
    BY <1>2 DEF Release, World
  <1> QED BY <1>1, <1>3 DEF Checkpoint

LEMMA FinishLetsGo ==
    ASSUME NEW s, NEW x, s \in World, s.c.pending # "none", ~CheckpointsMayFail, x \in Choice
    PROVE  FinishPendingTerminalCheckpoint(s, x).c.active = None
  <1> DEFINE p == CauseOf(s, s.c.pending)
  <1> DEFINE k == [s.c EXCEPT !.pending = p, !.quiet = TRUE]
  <1> DEFINE u == [s EXCEPT !.c = k]
  <1>1. s.c \in Coordinator /\ s.c.pending \in Cause
    BY DEF World, Coordinator
  <1>2. p \in Cause
    BY <1>1, CauseIsKnown
  <1>3. FinishPendingTerminalCheckpoint(s, x) = Checkpoint(u, p, x)
    BY DEF FinishPendingTerminalCheckpoint, p, World
  <1> HIDE DEF p
  <1>4. k \in Coordinator
    BY <1>1, <1>2 DEF Coordinator
  <1> HIDE DEF k
  <1>5. u \in World
    BY <1>4 DEF World
  <1> QED BY <1>3, <1>5, CheckpointLetsGo

LEMMA SettleLetsGo ==
    ASSUME NEW s, NEW o, NEW res, NEW ts, NEW x, Sound(s, o, res, ts), s.m.forced # 0, s.c.pending # "none",
           ~CheckpointsMayFail, x \in Choice
    PROVE  SettleForcedCancellation(s, x).c.active = None
  <1> DEFINE n == [s.m EXCEPT !.forced = 0, !.awaiting = FALSE, !.timers = @ \ {"grace", "recovery"}]
  <1> DEFINE u == [s EXCEPT !.m = n]
  <1>1. s \in World /\ s.m \in Manager /\ ManagerSound(s.m)
    BY DEF Sound, World
  <1>2. n \in Manager
    BY <1>1, SettledManager
  <1>3. SettleForcedCancellation(s, x) = FinishPendingTerminalCheckpoint(u, x)
    BY <1>1 DEF SettleForcedCancellation, World, Manager
  <1> HIDE DEF n
  <1>4. u \in World /\ u.c = s.c
    BY <1>1, <1>2 DEF World
  <1> QED BY <1>3, <1>4, FinishLetsGo

LEMMA AbandonLetsGo ==
    ASSUME NEW s, NEW o, NEW res, NEW ts, NEW p, NEW answered, NEW x, Sound(s, o, res, ts), s.c.active \in Job,
           s.c.pending = "none", ~s.leased, s.m.proc = "none", ~CheckpointsMayFail,
           p = "abandon", ~answered, x \in Choice
    PROVE  StopJob(s, p, answered, x).c.active = None
  <1>1. /\ s \in World /\ s.c \in Coordinator /\ s.c.active # None /\ CoordinatorSound(s.c)
        /\ Occupied(s.c) /\ ~s.c.quiet
        /\ Kept(res) => (s.c.next \/ s.c.req.type = "transcribe" => s.c.cache = ModelOf[s.c.active])
    BY TakenUp
  <1> DEFINE q == CauseOf(s, p)
  <1> DEFINE a == ActiveWorkerRequestMayStillRun(s)
  <1> DEFINE w == Pended(Turned(s, q), q)
  <1>2. q = "abandon" /\ q = CauseOf(s, p)
    BY DEF CauseOf
  <1> HIDE DEF q
  <1>3. Turned(s, q) = s
    BY <1>1, <1>2 DEF Turned, World, Coordinator
  <1>4. /\ ~a => StopJob(s, p, answered, x) = Checkpoint(Turned(s, q), q, x)
        /\ a => StopJob(s, p, answered, x) = AbortImmediately(ForceCancelAfterGrace(w), x)
    <2>1. ~Settled(s, answered) /\ Abandons(q)
      BY <1>1, <1>2 DEF Settled, Abandons
    <2>2. ~a => StopJob(s, p, answered, x) = Checkpoint(Turned(s, q), q, x)
      BY <1>2, StopJobCases
    <2>3. a /\ ~Settled(s, answered) /\ Abandons(q) =>
              StopJob(s, p, answered, x) = AbortImmediately(ForceCancelAfterGrace(w), x)
      BY <1>2, StopJobCases
    <2> QED BY <2>1, <2>2, <2>3
  <1>5. CASE ~a
    BY <1>1, <1>3, <1>4, <1>5, CheckpointLetsGo
  <1>6. CASE a
    <2> DEFINE k == [s.c EXCEPT !.pending = "abandon"]
    <2>1. /\ k \in Coordinator
          /\ k.active = s.c.active /\ k.req = s.c.req /\ k.pending = "abandon"
          /\ k.quiet = s.c.quiet /\ k.retry = s.c.retry /\ k.polling = s.c.polling
          /\ k.next = s.c.next /\ k.media = s.c.media /\ k.at = s.c.at /\ k.cache = s.c.cache
      BY <1>1 DEF Coordinator, Cause
    <2>2. w = [s EXCEPT !.c = k]
      <3>1. w = Pended(s, q)
        BY <1>3
      <3>2. Higher(s.c.pending, q) = "abandon"
        BY <1>2 DEF Higher
      <3> HIDE DEF w, q
      <3> QED BY <1>1, <3>1, <3>2 DEF Pended, World
    <2> HIDE DEF k, w
    <2>3. w \in World /\ w.m = s.m /\ w.inbox = s.inbox /\ w.wire = s.wire /\ w.c = k
      BY <1>1, <2>1, <2>2 DEF World
    <2>4. s.c.req.type \in RunsJob
      BY <1>6 DEF ActiveWorkerRequestMayStillRun
    <2>5. Sound(w, o, res, ts) /\ w.c.pending # "none"
      <3>1. Occupied(w.c)
        BY <1>1, <2>1, <2>3 DEF Occupied
      <3> QED BY <1>1, <2>1, <2>3, <2>4, <3>1, TurnIsSound
    <2> DEFINE f == ForceCancelAfterGrace(w)
    <2>6. /\ Sound(f, o, res, ts) /\ f.c = w.c /\ f.m.forced = w.c.req.id /\ f.m.proc = "none"
      BY <2>3, <2>5, ForceIsHandled DEF Handled
    <2> HIDE DEF f
    <2>7. f.m.forced # 0 /\ f.c.pending # "none"
      BY <1>1, <2>1, <2>3, <2>4, <2>5, <2>6 DEF CoordinatorSound, RunsJob
    <2> DEFINE d == Disconnect(f)
    <2>8. /\ d \in World /\ ManagerSound(d.m) /\ d.c = f.c /\ d.inbox = <<>> /\ d.wire = <<>>
          /\ ~d.m.ready /\ d.m.proc = "none" /\ d.m.forced = f.m.forced
      <3>1. f \in World /\ ManagerSound(f.m)
        BY <2>6 DEF Sound
      <3> QED BY <2>6, <3>1, DisconnectFields
    <2> HIDE DEF d
    <2>9. Sound(d, o, res, ts)
      <3>1. FreshProcess(d.m, o)
        BY <2>6 DEF Sound, FreshProcess
      <3> QED BY <2>6, <2>8, <3>1, CutIsSound
    <2>10. SettleForcedCancellation(d, x).c.active = None
      BY <2>7, <2>8, <2>9, SettleLetsGo
    <2> QED BY <1>4, <1>6, <2>6, <2>10 DEF AbortImmediately, d, f
  <1> QED BY <1>5, <1>6

LEMMA InterruptLetsGo ==
    ASSUME NEW s, NEW o, NEW res, NEW ts, NEW x, Sound(s, o, res, ts), ~Kept(res), s.m.proc = "none",
           ~CheckpointsMayFail, x \in Choice
    PROVE  InterruptActiveJob(s, x).c.active = None
  <1> DEFINE t == [s EXCEPT !.c.cache = None]
  <1>1. /\ Sound(t, o, res, ts)
        /\ t.m = s.m /\ t.leased = s.leased /\ t.c.active = s.c.active /\ t.c.pending = s.c.pending
    BY ForgetIsSound
  <1>2. InterruptActiveJob(s, x) =
            CASE t.c.active = None -> t
              [] t.c.active # None /\ t.c.pending # "none" -> FinishPendingTerminalCheckpoint(t, x)
              [] t.c.active # None /\ t.c.pending = "none" /\ ~t.leased ->
                     StopJob(t, "abandon", FALSE, x)
              [] OTHER -> Checkpoint(t, CauseOf(t, "interrupt"), x)
    BY DEF InterruptActiveJob
  <1> HIDE DEF t
  <1>3. t \in World /\ (t.c.active # None => t.c.active \in Job)
    BY <1>1 DEF Sound, World, Coordinator
  <1>4. t.c.pending # "none" => FinishPendingTerminalCheckpoint(t, x).c.active = None
    BY <1>3, FinishLetsGo
  <1>5. t.c.active # None /\ t.c.pending = "none" /\ ~t.leased
            => StopJob(t, "abandon", FALSE, x).c.active = None
    BY <1>1, <1>3, AbandonLetsGo
  <1>6. Checkpoint(t, CauseOf(t, "interrupt"), x).c.active = None
    BY <1>3, CheckpointLetsGo
  <1> QED BY <1>2, <1>4, <1>5, <1>6

-----------------------------------------------------------------------------
(* The inductive invariant, and what a step leaves of it.                   *)

\* What nothing holds in its memory.
Nothing == CHOOSE v : v \notin Model \cup {None}
Held    == IF op = NoOp THEN Nothing ELSE resident

Frame == /\ over \in BOOLEAN /\ op \in Operation /\ resident \in Model \cup {None}
         /\ test \in Test /\ TestShape(test)
\* While the application runs, and after it has quit.
Lively == Sound(Here, op, resident, test) /\ Fenced(manager) /\ Waits(Here, op)
Left   == Sound(Here, op, Held, test) /\ ~manager.ready /\ test = NoTest
IInv   == Frame /\ (~over => Lively) /\ (over => Left)

LEMMA NothingIsNoModel == Nothing \notin Model \cup {None} /\ ~Kept(Nothing)
  <1>1. \E v : v \notin Model \cup {None}
    BY NoSetContainsEverything
  <1> QED BY <1>1 DEF Nothing, Kept

LEMMA GoesHere ==
    ASSUME NEW d, d \in World, Go(d)
    PROVE  Here' = d /\ manager' = d.m /\ coordinator' = d.c /\ inbox' = d.inbox /\ wire' = d.wire
  BY DEF Go, World, Here

LEMMA HereFields ==
    /\ Here.m = manager /\ Here.c = coordinator /\ Here.inbox = inbox /\ Here.wire = wire
    /\ Here.job = job /\ Here.leased = leased
  BY DEF Here

LEMMA QuietLed ==
    ASSUME IInv, ~over, NEW d, Go(d), Quiet, Led(Here, d, op, resident, test)
    PROVE  IInv'
  <1>1. d \in World
    BY DEF Led, Sound
  <1>2. Here' = d /\ manager' = d.m
    BY <1>1, GoesHere
  <1>3. op' = op /\ resident' = resident /\ test' = test /\ ~over' /\ over' = over
    BY DEF Quiet
  <1>4. Sound(d, op, resident, test) /\ Waits(d, op) /\ Fenced(d.m)
    BY HereFields DEF Led, IInv, Lively
  <1>5. Lively'
    BY <1>2, <1>3, <1>4 DEF Lively
  <1>6. Frame'
    BY <1>3 DEF IInv, Frame
  <1> QED BY <1>3, <1>5, <1>6 DEF IInv

LEMMA LivelyHere ==
    ASSUME IInv, ~over
    PROVE  /\ Sound(Here, op, resident, test) /\ Waits(Here, op) /\ Fenced(Here.m)
           /\ Here \in World /\ Here.m \in Manager /\ Here.c \in Coordinator
           /\ ManagerSound(Here.m) /\ CoordinatorSound(Here.c)
           /\ resident \in Model \cup {None} /\ test \in Test /\ TestShape(test) /\ op \in Operation
           /\ Room => Roomy(Here)
  BY HereFields DEF IInv, Lively, Frame, Sound, World, Room, Roomy

LEMMA HandledLed ==
    ASSUME NEW s, NEW t, NEW u, NEW o, NEW res, NEW ts, Handled(t, u, o, res, ts),
           Fenced(s.m) => Fenced(t.m)
    PROVE  Led(s, u, o, res, ts)
  BY DEF Handled, Led, ManagerKept

LEMMA LedFrom ==
    ASSUME NEW s, NEW t, NEW u, NEW o, NEW res, NEW ts, Led(t, u, o, res, ts), t.m = s.m
    PROVE  Led(s, u, o, res, ts)
  BY DEF Led

LEMMA OutsideIsChoice == ASSUME NEW x, x \in Outside PROVE x \in Choice
  BY DEF Outside
LEMMA EndingIsChoice == ASSUME NEW x, x \in Ending PROVE x \in Choice /\ x \in Outside
  BY OutsideIsChoice DEF Ending

-----------------------------------------------------------------------------
(* The coordinator's steps.                                                 *)

LEMMA PollKeeps ==
    ASSUME IInv, ~over, Room, Poll
    PROVE  IInv'
  <1>1. /\ Sound(Here, op, resident, test) /\ CoordinatorSound(Here.c) /\ Roomy(Here)
        /\ Here \in World /\ resident \in Model \cup {None}
    BY LivelyHere
  <1> DEFINE t == [Here EXCEPT !.c.polling = FALSE]
  <1>2. PICK x \in Outside : Go(EnsureWorkerReady(t, x))
    BY DEF Poll
  <1>3. Here.c.polling /\ Quiet /\ x \in Choice
    BY HereFields, OutsideIsChoice DEF Poll
  <1>4. /\ Here.c.active \in Job /\ Here.c.req.type = "none" /\ Here.c.at \in Asking
        /\ ~Here.c.media /\ ~Here.c.next
    BY <1>1, <1>3 DEF CoordinatorSound, Occupied, LetGo, World, Coordinator
  <1>5. /\ Sound(t, op, resident, test)
        /\ t.m = Here.m /\ t.inbox = Here.inbox /\ t.wire = Here.wire
        /\ t.c.active = Here.c.active /\ t.c.req = Here.c.req /\ t.c.at = Here.c.at
        /\ t.c.media = Here.c.media /\ t.c.next = Here.c.next /\ ~t.c.polling
    BY <1>1, <1>4, NoPollIsSound
  <1> HIDE DEF t
  <1>6. Resting(t) /\ Roomy(t) /\ t.c.at \in Asking
    <2>1. Roomy(t)
      BY <1>1, <1>5, RoomStays
    <2> QED BY <1>4, <1>5, <2>1 DEF Resting, Paused, Asking
  <1>7. Led(t, EnsureWorkerReady(t, x), op, resident, test)
    BY <1>1, <1>3, <1>5, <1>6, EnsureIsLed
  <1>8. Led(Here, EnsureWorkerReady(t, x), op, resident, test)
    BY <1>5, <1>7, LedFrom
  <1> QED BY <1>2, <1>3, <1>8, QuietLed

LEMMA GiveUpPollingKeeps ==
    ASSUME IInv, ~over, GiveUpPolling
    PROVE  IInv'
  <1>1. /\ Sound(Here, op, resident, test) /\ CoordinatorSound(Here.c) /\ Here \in World
    BY LivelyHere
  <1> DEFINE t == [Here EXCEPT !.c.polling = FALSE]
  <1>2. PICK x \in Ending : Go(StopJob(t, "fail", FALSE, x))
    BY DEF GiveUpPolling
  <1>3. Here.c.polling /\ Quiet /\ x \in Choice /\ "fail" \in Cause
    BY HereFields, EndingIsChoice DEF GiveUpPolling, Cause
  <1>4. Here.c.active \in Job
    BY <1>1, <1>3 DEF CoordinatorSound, LetGo, World, Coordinator
  <1>5. Sound(t, op, resident, test) /\ t.m = Here.m /\ t.c.active = Here.c.active
    BY <1>1, <1>4, NoPollIsSound
  <1> HIDE DEF t
  <1>6. Handled(t, StopJob(t, "fail", FALSE, x), op, resident, test)
    BY <1>3, <1>4, <1>5, StopJobIsHandled
  <1>7. Led(Here, StopJob(t, "fail", FALSE, x), op, resident, test)
    BY <1>5, <1>6, HandledLed
  <1> QED BY <1>2, <1>3, <1>7, QuietLed

LEMMA MediaStepKeeps ==
    ASSUME IInv, ~over, MediaStep
    PROVE  IInv'
  <1>1. /\ Sound(Here, op, resident, test) /\ CoordinatorSound(Here.c) /\ Here \in World
    BY LivelyHere
  <1> DEFINE t == [Here EXCEPT !.c.media = FALSE]
  <1> DEFINE u == [Here EXCEPT !.c.media = ~@]
  <1>2. PICK x \in Outside : Go(IF x.works /\ MayAdvance(Here) THEN u ELSE StopJob(t, "fail", FALSE, x))
    BY DEF MediaStep
  <1>3. Here.c.at = "media" /\ Quiet /\ x \in Choice /\ "fail" \in Cause
    BY HereFields, OutsideIsChoice DEF MediaStep, Cause
  <1>4. Here.c.active \in Job
    BY <1>1, <1>3 DEF CoordinatorSound, LetGo, World, Coordinator
  <1>5. Sound(t, op, resident, test) /\ t.m = Here.m /\ t.c.active = Here.c.active
    BY <1>1, <1>4, NoMediaIsSound
  <1>6. Sound(u, op, resident, test) /\ u.m = Here.m /\ u.c.at = "media"
    BY <1>1, <1>3, <1>4, MediaIsSound
  <1> HIDE DEF t, u
  <1>7. Handled(t, StopJob(t, "fail", FALSE, x), op, resident, test)
    BY <1>3, <1>4, <1>5, StopJobIsHandled
  <1>8. Led(Here, StopJob(t, "fail", FALSE, x), op, resident, test)
    BY <1>5, <1>7, HandledLed
  <1>9. Led(Here, u, op, resident, test)
    BY <1>6 DEF Led, Waits
  <1> QED BY <1>2, <1>3, <1>8, <1>9, QuietLed

LEMMA PlanReadyKeeps ==
    ASSUME IInv, ~over, Room, PlanReady
    PROVE  IInv'
  <1>1. /\ Sound(Here, op, resident, test) /\ CoordinatorSound(Here.c) /\ Roomy(Here)
        /\ Here \in World /\ resident \in Model \cup {None}
    BY LivelyHere
  <1> DEFINE t == [Here EXCEPT !.c.media = FALSE]
  <1>2. PICK x \in Outside : Go(BeginWaitingForModel(t, x))
    BY DEF PlanReady
  <1>3. Here.c.at = "media" /\ Quiet /\ x \in Choice
    BY HereFields, OutsideIsChoice DEF PlanReady
  <1>4. Here.c.active \in Job /\ Here.c.req.type = "none" /\ ~Here.c.polling /\ ~Here.c.next
    BY <1>1, <1>3 DEF CoordinatorSound, Occupied, LetGo, World, Coordinator, Asking
  <1>5. /\ Sound(t, op, resident, test)
        /\ t.m = Here.m /\ t.inbox = Here.inbox /\ t.wire = Here.wire
        /\ t.c.active = Here.c.active /\ t.c.req = Here.c.req
        /\ t.c.polling = Here.c.polling /\ t.c.next = Here.c.next /\ ~t.c.media
    BY <1>1, <1>4, NoMediaIsSound
  <1> HIDE DEF t
  <1>6. Paused(t) /\ Roomy(t)
    <2>1. Roomy(t)
      BY <1>1, <1>5, RoomStays
    <2> QED BY <1>4, <1>5, <2>1 DEF Paused
  <1>7. Led(t, BeginWaitingForModel(t, x), op, resident, test)
    BY <1>1, <1>3, <1>5, <1>6, BeginWaitingIsLed
  <1>8. Led(Here, BeginWaitingForModel(t, x), op, resident, test)
    BY <1>5, <1>7, LedFrom
  <1> QED BY <1>2, <1>3, <1>8, QuietLed

LEMMA PrepareAnalysisKeeps ==
    ASSUME IInv, ~over, Room, PrepareAnalysis
    PROVE  IInv'
  <1>1. /\ Sound(Here, op, resident, test) /\ CoordinatorSound(Here.c) /\ Roomy(Here)
        /\ Here \in World /\ resident \in Model \cup {None}
    BY LivelyHere
  <1> DEFINE t == [Here EXCEPT !.c.media = FALSE]
  <1> DEFINE u == [t EXCEPT !.c.at = "analyzing"]
  <1>2. PICK x \in Ending : Go(IF MayAdvance(t) THEN EnsureWorkerReady(u, x) ELSE StopJob(t, "fail", FALSE, x))
    BY DEF PrepareAnalysis
  <1>3. Here.c.at = "media" /\ Quiet /\ x \in Choice /\ "fail" \in Cause
    BY HereFields, EndingIsChoice DEF PrepareAnalysis, Cause
  <1>4. Here.c.active \in Job /\ Here.c.req.type = "none" /\ ~Here.c.polling /\ ~Here.c.next
    BY <1>1, <1>3 DEF CoordinatorSound, Occupied, LetGo, World, Coordinator, Asking
  <1>5. /\ Sound(t, op, resident, test)
        /\ t.m = Here.m /\ t.inbox = Here.inbox /\ t.wire = Here.wire
        /\ t.c.active = Here.c.active /\ t.c.req = Here.c.req
        /\ t.c.polling = Here.c.polling /\ t.c.next = Here.c.next /\ ~t.c.media
    BY <1>1, <1>4, NoMediaIsSound
  <1> HIDE DEF t
  <1>6. Paused(t) /\ Roomy(t)
    <2>1. Roomy(t)
      BY <1>1, <1>5, RoomStays
    <2> QED BY <1>4, <1>5, <2>1 DEF Paused
  <1>7. Led(Here, StopJob(t, "fail", FALSE, x), op, resident, test)
    <2>1. Handled(t, StopJob(t, "fail", FALSE, x), op, resident, test)
      BY <1>3, <1>5, <1>6, StopOfResting
    <2> QED BY <1>5, <2>1, HandledLed
  <1>8. Led(Here, EnsureWorkerReady(u, x), op, resident, test)
    <2>1. "analyzing" \in Stages /\ "analyzing" # "media" /\ "analyzing" \in Asking
      BY DEF Stages, Asking
    <2>2. Sound(u, op, resident, test) /\ Resting(u) /\ Roomy(u) /\ u.m = t.m /\ u.c.at = "analyzing"
      BY <1>5, <1>6, <2>1, StageIsSound
    <2> HIDE DEF u
    <2>3. Led(u, EnsureWorkerReady(u, x), op, resident, test)
      BY <1>1, <1>3, <2>1, <2>2, EnsureIsLed
    <2> QED BY <1>5, <2>2, <2>3, LedFrom
  <1> QED BY <1>2, <1>3, <1>7, <1>8, QuietLed

LEMMA MediaStoppedKeeps ==
    ASSUME IInv, ~over, MediaStopped
    PROVE  IInv'
  <1>1. /\ Sound(Here, op, resident, test) /\ CoordinatorSound(Here.c) /\ Here \in World
    BY LivelyHere
  <1> DEFINE t == [Here EXCEPT !.c.media = FALSE]
  <1>2. PICK x \in Ending : Go(StopJob(t, "cancel", FALSE, x))
    BY DEF MediaStopped
  <1>3. Here.c.media /\ Quiet /\ x \in Choice /\ "cancel" \in Cause
    BY HereFields, EndingIsChoice DEF MediaStopped, Cause
  <1>4. Here.c.active \in Job
    BY <1>1, <1>3 DEF CoordinatorSound, LetGo, World, Coordinator
  <1>5. Sound(t, op, resident, test) /\ t.m = Here.m /\ t.c.active = Here.c.active
    BY <1>1, <1>4, NoMediaIsSound
  <1> HIDE DEF t
  <1>6. Handled(t, StopJob(t, "cancel", FALSE, x), op, resident, test)
    BY <1>3, <1>4, <1>5, StopJobIsHandled
  <1>7. Led(Here, StopJob(t, "cancel", FALSE, x), op, resident, test)
    BY <1>5, <1>6, HandledLed
  <1> QED BY <1>2, <1>3, <1>7, QuietLed

LEMMA NextChunkKeeps ==
    ASSUME IInv, ~over, Room, NextChunk
    PROVE  IInv'
  <1>1. /\ Sound(Here, op, resident, test) /\ CoordinatorSound(Here.c) /\ Roomy(Here)
        /\ Here \in World /\ resident \in Model \cup {None}
    BY LivelyHere
  <1> DEFINE t == [Here EXCEPT !.c.next = FALSE]
  <1>2. PICK x \in Outside : Go(StartNextChunk(t, x))
    BY DEF NextChunk
  <1>3. Here.c.next /\ Quiet /\ x \in Choice
    BY HereFields, OutsideIsChoice DEF NextChunk
  <1>4. Here.c.active \in Job
    BY <1>1, <1>3 DEF CoordinatorSound, LetGo, World, Coordinator
  <1>5. /\ Sound(t, op, resident, test) /\ Resting(t)
        /\ t.m = Here.m /\ t.inbox = Here.inbox /\ t.wire = Here.wire
        /\ t.c.active = Here.c.active /\ t.c.req = Here.c.req /\ t.c.cache = Here.c.cache
    BY <1>1, <1>3, <1>4, NoNextIsSound
  <1> HIDE DEF t
  <1>6. Roomy(t) /\ HasModel(t)
    <2>1. Roomy(t)
      BY <1>1, <1>5, RoomStays
    <2>2. Kept(resident) => Here.c.cache = ModelOf[Here.c.active]
      BY <1>1, <1>3, <1>4, TakenUp
    <2> QED BY <1>1, <1>5, <2>1, <2>2 DEF HasModel, Kept
  <1>7. Handled(t, StartNextChunk(t, x), op, resident, test)
    BY <1>3, <1>5, <1>6, StartNextChunkIsHandled
  <1>8. Led(Here, StartNextChunk(t, x), op, resident, test)
    BY <1>5, <1>7, HandledLed
  <1> QED BY <1>2, <1>3, <1>8, QuietLed

\* The active job is let go of where it stands.
LEMMA StopHereKeeps ==
    ASSUME IInv, ~over, NEW p, NEW x, p \in Cause, x \in Ending, coordinator.active \in Job,
           Go(StopJob(Here, p, FALSE, x)), Quiet
    PROVE  IInv'
  <1>1. Sound(Here, op, resident, test) /\ x \in Choice /\ Here.c.active \in Job
    BY LivelyHere, EndingIsChoice, HereFields
  <1>2. Handled(Here, StopJob(Here, p, FALSE, x), op, resident, test)
    BY <1>1, StopJobIsHandled
  <1>3. Led(Here, StopJob(Here, p, FALSE, x), op, resident, test)
    BY <1>2, HandledLed
  <1> QED BY <1>3, QuietLed

LEMMA RefuseProgressKeeps ==
    ASSUME IInv, ~over, RefuseProgress
    PROVE  IInv'
  <1>1. Here \in World /\ CoordinatorSound(Here.c)
    BY LivelyHere
  <1>2. coordinator.active \in Job
    BY <1>1, HereFields DEF RefuseProgress, CoordinatorSound, LetGo, World, Coordinator, NoRequest
  <1>3. Quiet /\ "fail" \in Cause
    BY DEF RefuseProgress, Cause
  <1>4. PICK x \in Ending : Go(StopJob(Here, "fail", FALSE, x))
    BY DEF RefuseProgress
  <1> QED BY <1>2, <1>3, <1>4, StopHereKeeps

LEMMA CapabilitiesTimeoutKeeps ==
    ASSUME IInv, ~over, CapabilitiesTimeout
    PROVE  IInv'
  <1>1. Here \in World /\ CoordinatorSound(Here.c)
    BY LivelyHere
  <1>2. coordinator.active \in Job
    BY <1>1, HereFields DEF CapabilitiesTimeout, CoordinatorSound, LetGo, World, Coordinator, NoRequest
  <1>3. Quiet /\ "fail" \in Cause
    BY DEF CapabilitiesTimeout, Cause
  <1>4. PICK x \in Ending : Go(StopJob(Here, "fail", FALSE, x))
    BY DEF CapabilitiesTimeout
  <1> QED BY <1>2, <1>3, <1>4, StopHereKeeps

LEMMA HeartbeatKeeps ==
    ASSUME IInv, ~over, Heartbeat
    PROVE  IInv'
  <1>1. Sound(Here, op, resident, test) /\ Here \in World
    BY LivelyHere
  <1>2. coordinator.active \in Job /\ Quiet
    BY <1>1, HereFields DEF Heartbeat, Serving, World, Coordinator
  <1>3. CASE \E x \in Ending : Go(NoticeCancellation(Here, x))
    <2>1. PICK x \in Ending : Go(NoticeCancellation(Here, x))
      BY <1>3
    <2>2. Handled(Here, NoticeCancellation(Here, x), op, resident, test)
      BY <1>1, <1>2, HereFields, EndingIsChoice, NoticeIsHandled
    <2>3. Led(Here, NoticeCancellation(Here, x), op, resident, test)
      BY <2>2, HandledLed
    <2> QED BY <1>2, <2>1, <2>3, QuietLed
  <1>4. CASE \E x \in Ending : Go(StopJob(Here, "abandon", FALSE, x))
    <2>1. PICK x \in Ending : Go(StopJob(Here, "abandon", FALSE, x))
      BY <1>4
    <2>2. "abandon" \in Cause
      BY DEF Cause
    <2> QED BY <1>2, <2>1, <2>2, StopHereKeeps
  <1> QED BY <1>3, <1>4 DEF Heartbeat

LEMMA RetryCheckpointKeeps ==
    ASSUME IInv, ~over, NEW p \in Cause, RetryCheckpoint(p)
    PROVE  IInv'
  <1>1. /\ Sound(Here, op, resident, test) /\ CoordinatorSound(Here.c) /\ Here \in World
        /\ Calm(Here.c, Here.inbox, op)
    BY LivelyHere DEF Sound
  <1> DEFINE t == [Here EXCEPT !.c.retry = @ \ {p}]
  <1>2. PICK x \in Ending : Go(IF p = "interrupt" THEN InterruptActiveJob(t, x) ELSE StopJob(t, p, FALSE, x))
    BY DEF RetryCheckpoint
  <1>3. p \in Here.c.retry /\ Quiet /\ x \in Choice
    BY HereFields, EndingIsChoice DEF RetryCheckpoint
  <1>4. Here.c.active \in Job /\ CheckpointsMayFail /\ ~Kept(resident)
    BY <1>1, <1>3 DEF CoordinatorSound, LetGo, World, Coordinator, Calm, Kept, OneModelKept
  <1>5. Sound(t, op, resident, test) /\ t.m = Here.m /\ t.c.active = Here.c.active
    BY <1>1, <1>4, NoRetryIsSound
  <1> HIDE DEF t
  <1>6. Handled(t, StopJob(t, p, FALSE, x), op, resident, test)
    BY <1>3, <1>4, <1>5, StopJobIsHandled
  <1>7. Handled(t, InterruptActiveJob(t, x), op, resident, test)
    BY <1>3, <1>4, <1>5, InterruptIsHandled
  <1>8. /\ Led(Here, StopJob(t, p, FALSE, x), op, resident, test)
        /\ Led(Here, InterruptActiveJob(t, x), op, resident, test)
    BY <1>5, <1>6, <1>7, HandledLed
  <1> QED BY <1>2, <1>3, <1>8, QuietLed

LEMMA ReadAnswerKeeps ==
    ASSUME IInv, ~over, Room, ReadAnswer
    PROVE  IInv'
  <1>1. /\ Sound(Here, op, resident, test) /\ Waits(Here, op) /\ Roomy(Here)
        /\ Here \in World /\ resident \in Model \cup {None}
    BY LivelyHere
  <1> DEFINE a == Head(Here.wire)
  <1> DEFINE t == Popped(Here)
  <1>2. Here.wire # <<>> /\ Quiet
    BY HereFields DEF ReadAnswer
  <1>3. \/ /\ a.id = Here.m.forced
           /\ \E x \in Ending : Go(SettleForcedCancellation(t, x))
        \/ /\ a.id = Here.c.req.id /\ Here.c.pending = "none"
           /\ \E x \in Outside : Go(HandleWorkerEnvelope(t, a, x))
        \/ /\ a.id = Here.c.req.id => Here.c.pending # "none"
           /\ Go(t)
    BY HereFields DEF ReadAnswer, Popped
  <1>4. CASE a.id = Here.m.forced /\ \E x \in Ending : Go(SettleForcedCancellation(t, x))
    <2>1. PICK x \in Ending : Go(SettleForcedCancellation(t, x))
      BY <1>4
    <2>2. Led(Here, SettleForcedCancellation(t, x), op, resident, test)
      BY <1>1, <1>2, <1>4, EndingIsChoice, SettlingAnswerIsLed
    <2> QED BY <1>2, <2>1, <2>2, QuietLed
  <1>5. CASE /\ a.id = Here.c.req.id /\ Here.c.pending = "none"
             /\ \E x \in Outside : Go(HandleWorkerEnvelope(t, a, x))
    <2>1. PICK x \in Outside : Go(HandleWorkerEnvelope(t, a, x))
      BY <1>5
    <2>2. Led(Here, HandleWorkerEnvelope(t, a, x), op, resident, test)
      BY <1>1, <1>2, <1>5, OutsideIsChoice, JobAnswerIsLed
    <2> QED BY <1>2, <2>1, <2>2, QuietLed
  <1>6. CASE (a.id = Here.c.req.id => Here.c.pending # "none") /\ Go(t)
    <2>1. Sound(t, op, resident, test) /\ t.m = Here.m
      BY <1>1, <1>2, PoppedIsSound
    <2>2. Waits(t, op)
      BY <1>1, <1>2, <1>6, PopKeepsWaiting
    <2>3. Led(Here, t, op, resident, test)
      BY <2>1, <2>2 DEF Led
    <2> QED BY <1>2, <1>6, <2>3, QuietLed
  <1> HIDE DEF a, t
  <1> QED BY <1>3, <1>4, <1>5, <1>6

-----------------------------------------------------------------------------
(* A job is taken up; users and other processes.                            *)

Written(s, j, v) == [s EXCEPT !.job[j] = v]
Claimed(s, j) ==
    [s EXCEPT !.job[j] = "running", !.leased = TRUE, !.c.active = j, !.c.at = "preparing"]

\* Without an active job and a model test, a queued job finds the worker free of jobs.
LEMMA ClaimedIsSound ==
    ASSUME NEW s, NEW o, NEW res, NEW ts, NEW j, Sound(s, o, res, ts), s.c.active = None,
           ts.phase = "idle", j \in Job
    PROVE  LET t == Claimed(s, j)
           IN  /\ Sound(t, o, res, ts) /\ Resting(t)
               /\ t.m = s.m /\ t.inbox = s.inbox /\ t.wire = s.wire /\ t.c.req = s.c.req
               /\ t.c.at = "preparing"
  <1> DEFINE t == Claimed(s, j)
  <1>1. /\ s \in World /\ s.c \in Coordinator /\ s.wire \in Seq(Answer) /\ s.job \in [Job -> JobState]
        /\ LetGo(s.c) /\ (~CheckpointsMayFail => JobFree(s.inbox, o))
    BY VacantIsJobFree DEF Sound, World
  <1> DEFINE k == [s.c EXCEPT !.active = j, !.at = "preparing"]
  <1>2. k \in Coordinator
    BY <1>1 DEF Coordinator
  <1>3. [s.job EXCEPT ![j] = "running"] \in [Job -> JobState]
    BY <1>1 DEF JobState
  <1>4. /\ k.active = j /\ k.at = "preparing" /\ k.req = s.c.req /\ k.pending = s.c.pending
        /\ (k.quiet <=> s.c.quiet) /\ (k.media <=> s.c.media) /\ (k.next <=> s.c.next)
        /\ (k.polling <=> s.c.polling) /\ k.retry = s.c.retry /\ k.cache = s.c.cache
    BY <1>1 DEF Coordinator
  <1>5. t = [s EXCEPT !.job = [s.job EXCEPT ![j] = "running"], !.leased = TRUE, !.c = k]
    BY <1>1 DEF World, Claimed
  <1>6. /\ t \in World /\ t.m = s.m /\ t.inbox = s.inbox /\ t.wire = s.wire /\ t.c = k
    BY <1>1, <1>2, <1>3, <1>5 DEF World
  <1> HIDE DEF t, k
  <1>7. /\ k.req.id = 0 /\ k.req.type = "none" /\ k.pending = "none" /\ ~k.quiet /\ ~k.media
        /\ ~k.next /\ ~k.polling /\ k.retry = {} /\ k.active # None
    BY <1>1, <1>4, NamesAssumption DEF LetGo, NoRequest
  <1>8. \A a \in ToSet(s.wire) : a.id # 0
    BY <1>1, AnswerHasId
  <1>9. CoordinatorSound(k)
    BY <1>4, <1>7 DEF CoordinatorSound, Occupied
  <1>10. Belongs(k, s.inbox, s.wire, o)
    BY <1>7, <1>8 DEF Belongs
  <1>11. Calm(k, s.inbox, o)
    BY <1>1, <1>7 DEF Calm, JobFree
  <1>12. TestSound(s.m, k, s.inbox, o, ts)
    BY DEF Sound, TestSound
  <1>13. Remembered(k, s.inbox, s.wire, o, res)
    BY <1>4, <1>7, <1>8 DEF Sound, Remembered
  <1>14. Unforced(s.m, k)
    BY <1>7 DEF Unforced
  <1>15. Sound(t, o, res, ts)
    BY <1>6, <1>9, <1>10, <1>11, <1>12, <1>13, <1>14 DEF Sound
  <1>16. Resting(t)
    BY <1>4, <1>6, <1>7 DEF Resting, Paused
  <1> QED BY <1>4, <1>6, <1>15, <1>16 DEF t

LEMMA ClaimKeeps ==
    ASSUME IInv, ~over, Room, NEW j \in Job, Claim(j)
    PROVE  IInv'
  <1>1. /\ Sound(Here, op, resident, test) /\ Roomy(Here)
        /\ Here \in World /\ resident \in Model \cup {None}
    BY LivelyHere
  <1> DEFINE t == Claimed(Here, j)
  <1>2. PICK x \in Ending : Go(EnsureWorkerReady(t, x))
    BY DEF Claim, Claimed
  <1>3. Here.c.active = None /\ test.phase = "idle" /\ Quiet /\ x \in Choice
    BY HereFields, EndingIsChoice DEF Claim, Serving
  <1>4. /\ Sound(t, op, resident, test) /\ Resting(t) /\ t.m = Here.m /\ t.inbox = Here.inbox
        /\ t.wire = Here.wire /\ t.c.req = Here.c.req /\ t.c.at \in Asking
    BY <1>1, <1>3, ClaimedIsSound DEF Asking
  <1> HIDE DEF t
  <1>5. Roomy(t)
    BY <1>1, <1>4, RoomStays
  <1>6. Led(t, EnsureWorkerReady(t, x), op, resident, test)
    BY <1>1, <1>3, <1>4, <1>5, EnsureIsLed
  <1>7. Led(Here, EnsureWorkerReady(t, x), op, resident, test)
    BY <1>4, <1>6, LedFrom
  <1> QED BY <1>2, <1>3, <1>7, QuietLed

\* The database is read by the handlers; no part of the invariant is about it.
LEMMA ReviewedIsSound ==
    ASSUME NEW s, NEW t, NEW o, NEW res, NEW ts, Sound(s, o, res, ts), t \in World,
           t.m = s.m, t.c = s.c, t.inbox = s.inbox, t.wire = s.wire
    PROVE  Sound(t, o, res, ts) /\ (Waits(s, o) => Waits(t, o))
  BY DEF Sound, Waits

LEMMA ReviewKeeps ==
    ASSUME IInv, ~over, NEW d, d \in World, Go(d), Quiet,
           d.m = Here.m, d.c = Here.c, d.inbox = Here.inbox, d.wire = Here.wire
    PROVE  IInv'
  <1>1. Sound(Here, op, resident, test) /\ Waits(Here, op)
    BY LivelyHere
  <1>2. Sound(d, op, resident, test) /\ Waits(d, op)
    BY <1>1, ReviewedIsSound
  <1>3. Led(Here, d, op, resident, test)
    BY <1>2 DEF Led
  <1> QED BY <1>3, QuietLed

LEMMA JobWrite ==
    ASSUME NEW s, NEW j, NEW v, s \in World, v \in JobState
    PROVE  LET t == Written(s, j, v)
           IN  /\ t \in World /\ t.m = s.m /\ t.c = s.c /\ t.inbox = s.inbox /\ t.wire = s.wire
               /\ t.leased = s.leased
  <1>1. [s.job EXCEPT ![j] = v] \in [Job -> JobState]
    BY DEF World
  <1>2. Written(s, j, v) = [s EXCEPT !.job = [s.job EXCEPT ![j] = v]]
    BY DEF World, Written
  <1> QED BY <1>1, <1>2 DEF World

LEMMA CancelKeeps ==
    ASSUME IInv, ~over, NEW j \in Job, Cancel(j)
    PROVE  IInv'
  <1>1. Sound(Here, op, resident, test) /\ Waits(Here, op) /\ Here \in World
    BY LivelyHere
  <1> DEFINE v == IF Here.job[j] = "queued" THEN "cancelled" ELSE "cancelling"
  <1> DEFINE t == Written(Here, j, v)
  <1>2. t = [Here EXCEPT !.job[j] = IF @ = "queued" THEN "cancelled" ELSE "cancelling"]
    BY <1>1 DEF World, Written
  <1>3. PICK x \in Ending : Go(IF j = coordinator.active /\ coordinator.at # "cancelling"
                               THEN NoticeCancellation(t, x) ELSE t)
    BY <1>2 DEF Cancel
  <1>4. Quiet /\ x \in Choice
    BY EndingIsChoice DEF Cancel
  <1>5. v \in JobState
    BY DEF JobState
  <1> HIDE DEF v
  <1>6. t \in World /\ t.m = Here.m /\ t.c = Here.c /\ t.inbox = Here.inbox /\ t.wire = Here.wire
    BY <1>1, <1>5, JobWrite
  <1> HIDE DEF t
  <1>7. CASE j = coordinator.active /\ coordinator.at # "cancelling"
    <2>1. Sound(t, op, resident, test) /\ t.c.active \in Job
      BY <1>1, <1>6, <1>7, ReviewedIsSound, HereFields
    <2>2. Handled(t, NoticeCancellation(t, x), op, resident, test)
      BY <1>4, <2>1, NoticeIsHandled
    <2>3. Led(Here, NoticeCancellation(t, x), op, resident, test)
      BY <1>6, <2>2, HandledLed
    <2>4. Go(NoticeCancellation(t, x))
      BY <1>3, <1>7
    <2> QED BY <1>4, <2>3, <2>4, QuietLed
  <1>8. CASE ~(j = coordinator.active /\ coordinator.at # "cancelling")
    <2>1. Go(t)
      BY <1>3, <1>8
    <2> QED BY <1>4, <1>6, <2>1, ReviewKeeps
  <1> QED BY <1>7, <1>8

LEMMA CancelElsewhereKeeps ==
    ASSUME IInv, ~over, NEW j \in Job, CancelElsewhere(j)
    PROVE  IInv'
  <1> DEFINE v == "cancelling"
  <1> DEFINE t == Written(Here, j, v)
  <1>1. Go(t) /\ Quiet /\ v \in JobState /\ Here \in World
    BY LivelyHere DEF CancelElsewhere, JobState, Written
  <1> HIDE DEF v
  <1>2. t \in World /\ t.m = Here.m /\ t.c = Here.c /\ t.inbox = Here.inbox /\ t.wire = Here.wire
    BY <1>1, JobWrite
  <1> QED BY <1>1, <1>2, ReviewKeeps

LEMMA RetryKeeps ==
    ASSUME IInv, ~over, NEW j \in Job, Retry(j)
    PROVE  IInv'
  <1> DEFINE v == "queued"
  <1> DEFINE t == Written(Here, j, v)
  <1>1. Go(t) /\ Quiet /\ v \in JobState /\ Here \in World
    BY LivelyHere DEF Retry, JobState, Written
  <1> HIDE DEF v
  <1>2. t \in World /\ t.m = Here.m /\ t.c = Here.c /\ t.inbox = Here.inbox /\ t.wire = Here.wire
    BY <1>1, JobWrite
  <1> QED BY <1>1, <1>2, ReviewKeeps

LEMMA LoseLeaseKeeps ==
    ASSUME IInv, ~over, LoseLease
    PROVE  IInv'
  <1> DEFINE j == coordinator.active
  <1> DEFINE v == IF Here.job[j] = "cancelling" THEN "cancelled" ELSE "interrupted"
  <1> DEFINE t == Written(Here, j, v)
  <1>1. Here \in World
    BY LivelyHere
  <1>2. v \in JobState
    BY DEF JobState
  <1> DEFINE u == [Here EXCEPT !.leased = FALSE, !.job[j] = IF @ = "cancelling" THEN "cancelled" ELSE "interrupted"]
  <1>3. Go(u) /\ Quiet
    BY DEF LoseLease
  <1>4. u = [t EXCEPT !.leased = FALSE]
    BY <1>1 DEF World, Written
  <1> HIDE DEF v, u
  <1>5. t \in World /\ t.m = Here.m /\ t.c = Here.c /\ t.inbox = Here.inbox /\ t.wire = Here.wire
    BY <1>1, <1>2, JobWrite
  <1> HIDE DEF t
  <1>6. u \in World /\ u.m = Here.m /\ u.c = Here.c /\ u.inbox = Here.inbox /\ u.wire = Here.wire
    BY <1>4, <1>5 DEF World
  <1> QED BY <1>3, <1>6, ReviewKeeps

-----------------------------------------------------------------------------
(* The worker process.                                                      *)

LEMMA MovedManager ==
    ASSUME NEW s, NEW t, NEW o, NEW res, NEW ts, Sound(s, o, res, ts), t \in World,
           t.c = s.c, t.inbox = s.inbox, t.wire = s.wire, ManagerSound(t.m), FreshProcess(t.m, o),
           t.m.forced = s.m.forced, t.m.ready <=> s.m.ready
    PROVE  /\ Sound(t, o, res, ts)
           /\ Waits(s, o) /\ (s.m.proc = "dying" => t.m.proc = "dying") => Waits(t, o)
  <1>1. Unforced(t.m, t.c)
    BY DEF Sound, Unforced
  <1>2. TestSound(t.m, t.c, t.inbox, o, ts)
    BY DEF Sound, TestSound
  <1>3. Sound(t, o, res, ts)
    BY <1>1, <1>2 DEF Sound
  <1>4. Waits(s, o) /\ (s.m.proc = "dying" => t.m.proc = "dying") => Waits(t, o)
    BY DEF Waits
  <1> QED BY <1>3, <1>4

LEMMA ManagerKeeps ==
    ASSUME IInv, ~over, NEW n, n \in Manager, ManagerSound(n), n.ready <=> manager.ready,
           n.forced = manager.forced, FreshProcess(n, op), manager.proc = "dying" => n.proc = "dying",
           Fenced(n), Go([Here EXCEPT !.m = n]), Quiet
    PROVE  IInv'
  <1>1. Sound(Here, op, resident, test) /\ Waits(Here, op) /\ Here \in World
    BY LivelyHere
  <1> DEFINE t == [Here EXCEPT !.m = n]
  <1>2. /\ t \in World /\ t.m = n /\ t.c = Here.c /\ t.inbox = Here.inbox /\ t.wire = Here.wire
    BY <1>1 DEF World
  <1> HIDE DEF t
  <1>3. Sound(t, op, resident, test) /\ Waits(t, op)
    BY <1>1, <1>2, HereFields, MovedManager
  <1>4. Led(Here, t, op, resident, test)
    BY <1>2, <1>3 DEF Led
  <1> QED BY <1>4, QuietLed DEF t

\* Where the manager stands in a live state.
LEMMA ManagerHere ==
    ASSUME IInv, ~over
    PROVE  /\ manager \in Manager /\ ManagerSound(manager) /\ Fenced(manager)
           /\ Fenceable(manager) /\ FreshProcess(manager, op) /\ Here \in World
  <1>1. /\ manager \in Manager /\ ManagerSound(manager) /\ Fenced(manager) /\ Here \in World
        /\ FreshProcess(manager, op)
    BY LivelyHere, HereFields DEF Sound
  <1> QED BY <1>1 DEF Fenced, Fenceable

LEMMA StartFresh ==
    ASSUME NEW m, NEW n, NEW o, FreshProcess(m, o), n.ready <=> m.ready, n.proc \in {m.proc, "alive"},
           m.proc # "none" => n.proc = m.proc
    PROVE  FreshProcess(n, o)
  BY DEF FreshProcess

LEMMA ChangeBackendKeeps ==
    ASSUME IInv, ~over, ChangeBackend
    PROVE  IInv'
  <1> DEFINE n == [manager EXCEPT !.failed = {}]
  <1>1. /\ manager \in Manager /\ ManagerSound(manager) /\ Fenced(manager)
        /\ FreshProcess(manager, op) /\ Here \in World /\ Here.m = manager
    BY ManagerHere, HereFields
  <1>2. /\ n \in Manager /\ (n.ready <=> manager.ready) /\ n.forced = manager.forced
        /\ n.proc = manager.proc /\ (n.awaiting <=> manager.awaiting) /\ n.timers = manager.timers
        /\ n.restarts = manager.restarts /\ n.spent = manager.spent
    BY <1>1 DEF Manager
  <1>3. Go([Here EXCEPT !.m = n]) /\ Quiet
    BY <1>1 DEF ChangeBackend, World
  <1> HIDE DEF n
  <1>4. ManagerSound(n) /\ Fenced(n) /\ FreshProcess(n, op)
    BY <1>1, <1>2 DEF ManagerSound, Fenced, FreshProcess
  <1> QED BY <1>2, <1>3, <1>4, ManagerKeeps

LEMMA CrashKeeps ==
    ASSUME IInv, ~over, Crash
    PROVE  IInv'
  <1> DEFINE n == [manager EXCEPT !.proc = "dying"]
  <1>1. /\ manager \in Manager /\ ManagerSound(manager) /\ Here \in World /\ Here.m = manager
        /\ manager.proc = "alive"
    BY ManagerHere, HereFields DEF Crash
  <1>2. /\ n \in Manager /\ (n.ready <=> manager.ready) /\ n.forced = manager.forced
        /\ n.proc = "dying" /\ n.timers = manager.timers
        /\ n.restarts = manager.restarts /\ n.spent = manager.spent
    BY <1>1 DEF Manager
  <1>3. Go([Here EXCEPT !.m = n]) /\ Quiet
    BY <1>1 DEF Crash, Kill, World
  <1> HIDE DEF n
  <1>4. ManagerSound(n) /\ Fenced(n) /\ FreshProcess(n, op)
    BY <1>1, <1>2 DEF ManagerSound, Fenced, FreshProcess
  <1> QED BY <1>2, <1>3, <1>4, ManagerKeeps

LEMMA GraceFiresKeeps ==
    ASSUME IInv, ~over, GraceFires
    PROVE  IInv'
  <1> DEFINE n == [manager EXCEPT !.proc = "dying", !.timers = @ \ {"grace"}]
  <1>1. /\ manager \in Manager /\ ManagerSound(manager) /\ Here \in World /\ Here.m = manager
        /\ manager.proc # "none"
    BY ManagerHere, HereFields DEF GraceFires, ManagerSound
  <1>2. /\ n \in Manager /\ (n.ready <=> manager.ready) /\ n.forced = manager.forced
        /\ n.proc = "dying" /\ n.timers \subseteq manager.timers
        /\ n.restarts = manager.restarts /\ n.spent = manager.spent
    BY <1>1 DEF Manager
  <1>3. Go([Here EXCEPT !.m = n]) /\ Quiet
    BY <1>1 DEF GraceFires, Kill, World, Manager
  <1> HIDE DEF n
  <1>4. ManagerSound(n) /\ Fenced(n) /\ FreshProcess(n, op)
    BY <1>1, <1>2 DEF ManagerSound, Fenced, FreshProcess
  <1> QED BY <1>2, <1>3, <1>4, ManagerKeeps

LEMMA WindowPassesKeeps ==
    ASSUME IInv, ~over, WindowPasses
    PROVE  IInv'
  <1>1. /\ manager \in Manager /\ ManagerSound(manager) /\ Fenced(manager)
        /\ FreshProcess(manager, op) /\ Here \in World /\ Here.m = manager
    BY ManagerHere, HereFields
  <1>2. PICK k \in manager.restarts .. MaximumRestarts : Go([Here EXCEPT !.m.spent = k])
    BY DEF WindowPasses
  <1> DEFINE n == [manager EXCEPT !.spent = k]
  <1>3. /\ k \in Nat /\ k <= MaximumRestarts /\ manager.restarts <= k /\ manager.restarts \in Nat
        /\ MaximumRestarts \in Nat
    BY <1>1, Counts DEF Manager
  <1>4. /\ n \in Manager /\ (n.ready <=> manager.ready) /\ n.forced = manager.forced
        /\ n.proc = manager.proc /\ (n.awaiting <=> manager.awaiting) /\ n.timers = manager.timers
        /\ n.restarts = manager.restarts /\ n.spent = k
    BY <1>1, <1>3 DEF Manager
  <1>5. Go([Here EXCEPT !.m = n]) /\ Quiet
    BY <1>1, <1>2 DEF WindowPasses, World
  <1> HIDE DEF n
  <1>6. ManagerSound(n)
    BY <1>1, <1>3, <1>4 DEF ManagerSound
  <1>7. Fenced(n) /\ FreshProcess(n, op)
    BY <1>1, <1>4 DEF Fenced, FreshProcess
  <1> QED BY <1>4, <1>5, <1>6, <1>7, ManagerKeeps

LEMMA StartsVariant ==
    ASSUME NEW x, x \in Choice
    PROVE  x.start \in 0 .. Variants
  BY DEF Choice

LEMMA StartKeeps ==
    ASSUME IInv, ~over, NEW m, NEW v, m \in Manager, ManagerSound(m), m.ready <=> manager.ready,
           m.forced = manager.forced, m.proc = manager.proc, Fenceable(m), v \in 0 .. Variants,
           Go([Here EXCEPT !.m = Start(m, v)]), Quiet
    PROVE  IInv'
  <1> DEFINE n == Start(m, v)
  <1>1. /\ n \in Manager /\ ManagerSound(n) /\ (n.ready <=> m.ready) /\ n.forced = m.forced
        /\ n.proc \in {m.proc, "alive"} /\ (m.proc # "none" => n = m) /\ Fenced(n)
    BY StartedManager
  <1>2. FreshProcess(manager, op)
    BY ManagerHere
  <1>3. FreshProcess(n, op)
    BY <1>1, <1>2, StartFresh
  <1> HIDE DEF n
  <1>4. manager.proc = "dying" => n.proc = "dying"
    BY <1>1
  <1> QED BY <1>1, <1>3, <1>4, ManagerKeeps DEF n

LEMMA RestartFiresKeeps ==
    ASSUME IInv, ~over, RestartFires
    PROVE  IInv'
  <1>1. /\ manager \in Manager /\ ManagerSound(manager) /\ Fenceable(manager)
        /\ Here \in World /\ Here.m = manager
    BY ManagerHere, HereFields
  <1> DEFINE n == [manager EXCEPT !.restarts = @ - 1]
  <1> DEFINE t == [Here EXCEPT !.m.restarts = @ - 1]
  <1>2. PICK x \in Ending : Go([t EXCEPT !.m = Start(t.m, x.start)])
    BY DEF RestartFires, StartNow
  <1>3. Quiet /\ x.start \in 0 .. Variants /\ manager.restarts > 0
    BY EndingIsChoice, StartsVariant DEF RestartFires
  <1>4. /\ n \in Manager /\ (n.ready <=> manager.ready) /\ n.forced = manager.forced
        /\ n.proc = manager.proc /\ (n.awaiting <=> manager.awaiting) /\ n.timers = manager.timers
        /\ n.restarts = manager.restarts - 1 /\ n.spent = manager.spent
        /\ manager.restarts \in Nat /\ manager.spent \in Nat
    BY <1>1, <1>3, Counts DEF Manager
  <1>5. t = [Here EXCEPT !.m = n] /\ t.m = n
    BY <1>1 DEF World
  <1>6. [t EXCEPT !.m = Start(n, x.start)] = [Here EXCEPT !.m = Start(n, x.start)]
    BY <1>1, <1>5 DEF World
  <1> HIDE DEF n, t
  <1>7. ManagerSound(n) /\ Fenceable(n)
    BY <1>1, <1>3, <1>4, Counts DEF ManagerSound, Fenceable
  <1>8. Go([Here EXCEPT !.m = Start(n, x.start)])
    BY <1>2, <1>5, <1>6
  <1> QED BY <1>3, <1>4, <1>7, <1>8, StartKeeps

LEMMA ForcedStartFiresKeeps ==
    ASSUME IInv, ~over, ForcedStartFires
    PROVE  IInv'
  <1>1. /\ manager \in Manager /\ ManagerSound(manager) /\ Fenceable(manager)
        /\ FreshProcess(manager, op) /\ Here \in World /\ Here.m = manager
    BY ManagerHere, HereFields
  <1> DEFINE n == [manager EXCEPT !.timers = @ \ {"forcedStart"}]
  <1> DEFINE t == [Here EXCEPT !.m.timers = @ \ {"forcedStart"}]
  <1>2. /\ n \in Manager /\ (n.ready <=> manager.ready) /\ n.forced = manager.forced
        /\ n.proc = manager.proc /\ (n.awaiting <=> manager.awaiting)
        /\ n.timers = manager.timers \ {"forcedStart"}
        /\ n.restarts = manager.restarts /\ n.spent = manager.spent
    BY <1>1 DEF Manager
  <1>3. t = [Here EXCEPT !.m = n] /\ t.m = n
    BY <1>1 DEF World
  <1>4. /\ Quiet
        /\ manager.forced # 0 => StartNow(t)
        /\ manager.forced = 0 => Go(t)
    BY DEF ForcedStartFires
  <1> HIDE DEF n, t
  <1>5. ManagerSound(n) /\ Fenceable(n)
    BY <1>1, <1>2 DEF ManagerSound, Fenceable
  <1>6. CASE manager.forced # 0
    <2>1. PICK x \in Ending : Go([t EXCEPT !.m = Start(t.m, x.start)])
      BY <1>4, <1>6 DEF StartNow
    <2>2. x.start \in 0 .. Variants
      BY EndingIsChoice, StartsVariant
    <2>3. [t EXCEPT !.m = Start(n, x.start)] = [Here EXCEPT !.m = Start(n, x.start)]
      BY <1>1, <1>3 DEF World
    <2>4. Go([Here EXCEPT !.m = Start(n, x.start)])
      BY <1>3, <2>1, <2>3
    <2> QED BY <1>2, <1>4, <1>5, <2>2, <2>4, StartKeeps
  <1>7. CASE manager.forced = 0
    <2>1. Fenced(n) /\ FreshProcess(n, op)
      BY <1>1, <1>2, <1>7 DEF Fenced, FreshProcess
    <2>2. Go([Here EXCEPT !.m = n])
      BY <1>3, <1>4, <1>7
    <2> QED BY <1>2, <1>4, <1>5, <2>1, <2>2, ManagerKeeps
  <1> QED BY <1>6, <1>7

LEMMA RecoveryFiresKeeps ==
    ASSUME IInv, ~over, RecoveryFires
    PROVE  IInv'
  <1>1. /\ manager \in Manager /\ ManagerSound(manager) /\ Fenced(manager) /\ Fenceable(manager)
        /\ FreshProcess(manager, op) /\ Here \in World /\ Here.m = manager
    BY ManagerHere, HereFields
  <1> DEFINE n == [manager EXCEPT !.timers = @ \ {"recovery"}]
  <1> DEFINE t == [Here EXCEPT !.m.timers = @ \ {"recovery"}]
  <1> DEFINE k == [n EXCEPT !.failed = {}, !.spent = 0]
  <1>2. /\ n \in Manager /\ (n.ready <=> manager.ready) /\ n.forced = manager.forced
        /\ n.proc = manager.proc /\ (n.awaiting <=> manager.awaiting)
        /\ n.timers = manager.timers \ {"recovery"}
        /\ n.restarts = manager.restarts /\ n.spent = manager.spent
    BY <1>1 DEF Manager
  <1>3. t = [Here EXCEPT !.m = n] /\ t.m = n
    BY <1>1 DEF World
  <1>4. /\ Quiet /\ manager.restarts <= MaximumRestarts
        /\ manager.forced # 0 /\ manager.proc = "none" =>
               \E x \in Choice : Go([t EXCEPT !.m = Start([t.m EXCEPT !.failed = {}, !.spent = 0], x.start)])
        /\ ~(manager.forced # 0 /\ manager.proc = "none") => Go(t)
    BY DEF RecoveryFires
  <1> HIDE DEF t, n
  <1>5. /\ k \in Manager /\ (k.ready <=> manager.ready) /\ k.forced = manager.forced
        /\ k.proc = manager.proc /\ (k.awaiting <=> manager.awaiting)
        /\ k.timers = manager.timers \ {"recovery"} /\ k.restarts = manager.restarts /\ k.spent = 0
        /\ manager.restarts \in Nat
    <2>1. {} \in SUBSET Variant /\ 0 \in 0 .. MaximumRestarts /\ n.restarts \in Nat
      BY <1>2, Counts DEF Manager
    <2>2. /\ k \in Manager /\ k.ready = n.ready /\ k.forced = n.forced /\ k.proc = n.proc
          /\ k.awaiting = n.awaiting /\ k.timers = n.timers /\ k.restarts = n.restarts /\ k.spent = 0
      BY <1>2, <2>1 DEF Manager
    <2> HIDE DEF k
    <2> QED BY <1>2, <2>1, <2>2
  <1>6. CASE manager.forced # 0 /\ manager.proc = "none"
    <2>1. PICK x \in Choice : Go([t EXCEPT !.m = Start([t.m EXCEPT !.failed = {}, !.spent = 0], x.start)])
      BY <1>4, <1>6
    <2>2. Go([t EXCEPT !.m = Start(k, x.start)]) /\ x.start \in 0 .. Variants
      BY <1>3, <2>1, StartsVariant
    <2>3. [t EXCEPT !.m = Start(k, x.start)] = [Here EXCEPT !.m = Start(k, x.start)]
      BY <1>1, <1>3 DEF World
    <2> HIDE DEF k
    <2>4. ManagerSound(k) /\ Fenceable(k)
      BY <1>1, <1>4, <1>5, Counts DEF ManagerSound, Fenceable
    <2>5. Go([Here EXCEPT !.m = Start(k, x.start)])
      BY <2>2, <2>3
    <2> QED BY <1>4, <1>5, <2>2, <2>4, <2>5, StartKeeps
  <1>7. CASE ~(manager.forced # 0 /\ manager.proc = "none")
    <2> HIDE DEF k
    <2>1. ManagerSound(n) /\ FreshProcess(n, op)
      BY <1>1, <1>2 DEF ManagerSound, FreshProcess
    <2>2. manager.proc \in {"none", "alive", "dying"}
      BY <1>1 DEF Manager
    <2>3. Fenced(n)
      BY <1>1, <1>2, <1>7, <2>2 DEF Fenced
    <2>4. Go([Here EXCEPT !.m = n])
      BY <1>3, <1>4, <1>7
    <2> QED BY <1>2, <1>4, <2>1, <2>3, <2>4, ManagerKeeps
  <1> QED BY <1>6, <1>7

\* A step of a live application that may change everything but that it lives.
LEMMA StaysLively ==
    ASSUME NEW d, Go(d), over' \in BOOLEAN, ~over', Sound(d, op', resident', test'), Waits(d, op'),
           Fenced(d.m), op' \in Operation, resident' \in Model \cup {None},
           test' \in Test, TestShape(test')
    PROVE  IInv'
  <1>1. d \in World
    BY DEF Sound
  <1>2. Here' = d /\ manager' = d.m
    BY <1>1, GoesHere
  <1>3. Lively'
    BY <1>2 DEF Lively
  <1> QED BY <1>3 DEF IInv, Frame

LEMMA NoTestTyped == NoTest \in Test /\ TestShape(NoTest)
  <1>1. 0 \in 0 .. RequestIds /\ 0 \in 0 .. MaximumUnloads
    BY Counts
  <1> QED BY <1>1 DEF NoTest, Test, TestShape

\* A test that the worker is not connected for may end.
LEMMA TestGone ==
    ASSUME NEW s, NEW o, NEW res, NEW ts, Sound(s, o, res, ts), ~s.m.ready
    PROVE  Sound(s, o, res, NoTest)
  <1>1. TestSound(s.m, s.c, s.inbox, o, NoTest)
    BY DEF TestSound, NoTest
  <1> QED BY <1>1 DEF Sound

LEMMA ConnectionRefusedKeeps ==
    ASSUME IInv, ~over, ConnectionRefused
    PROVE  IInv'
  <1>1. /\ Sound(Here, op, resident, test) /\ Waits(Here, op) /\ Fenced(Here.m)
        /\ op \in Operation /\ resident \in Model \cup {None} /\ over \in BOOLEAN
    BY LivelyHere DEF IInv, Frame
  <1>2. /\ ~Here.m.ready /\ test' = NoTest /\ op' = op /\ resident' = resident /\ over' = over
    BY HereFields DEF ConnectionRefused, TestFails
  <1>3. Go(Here)
    BY DEF ConnectionRefused, Go, Here
  <1>4. Sound(Here, op, resident, NoTest)
    BY <1>1, <1>2, TestGone
  <1> QED BY <1>1, <1>2, <1>3, <1>4, NoTestTyped, StaysLively

LEMMA ChannelFailsKeeps ==
    ASSUME IInv, ~over, ChannelFails
    PROVE  IInv'
  <1> DEFINE k == Kill(Disconnect(Here))
  <1> DEFINE t == [k EXCEPT !.c.runtime = "unknown"]
  <1>1. /\ Sound(Here, op, resident, test) /\ Waits(Here, op) /\ Here \in World /\ ManagerSound(Here.m)
        /\ op \in Operation /\ resident \in Model \cup {None} /\ over \in BOOLEAN
        /\ test \in Test /\ TestShape(test)
    BY LivelyHere DEF IInv, Frame
  <1>2. /\ Here.m.ready /\ test' \in {test, NoTest} /\ op' = op /\ resident' = resident /\ over' = over
        /\ Go(t)
    BY HereFields DEF ChannelFails, TestFails
  <1>3. /\ k \in World /\ ManagerSound(k.m)
        /\ k.c = Here.c /\ k.inbox = <<>> /\ k.wire = <<>>
        /\ ~k.m.ready /\ k.m.proc = "dying" /\ k.m.forced = Here.m.forced
    BY <1>1, <1>2, CutFields DEF ManagerSound
  <1> HIDE DEF k
  <1>4. Sound(k, op, resident, test)
    BY <1>1, <1>3, CutIsSound DEF FreshProcess
  <1>5. Waits(k, op)
    BY <1>1, <1>3 DEF Waits
  <1>6. Sound(t, op, resident, test) /\ Waits(t, op) /\ t.m = k.m
    BY <1>4, <1>5, UnknownIsSound
  <1> HIDE DEF t
  <1>7. Sound(t, op, resident, NoTest)
    BY <1>3, <1>6, TestGone
  <1>8. Fenced(t.m)
    BY <1>3, <1>6 DEF Fenced
  <1> QED BY <1>1, <1>2, <1>6, <1>7, <1>8, NoTestTyped, StaysLively

LEMMA AfterExitFences ==
    ASSUME NEW m, m \in Manager, ManagerSound(m), Exited(m)
    PROVE  LET n == AfterExit(m)
           IN  /\ n \in Manager /\ ManagerSound(n) /\ Fenced(n)
               /\ n.proc = m.proc /\ (n.ready <=> m.ready) /\ n.forced = m.forced
  <1> DEFINE f == [m EXCEPT !.failed = IF Variants > 1 THEN @ \cup ({m.variant} \ {0}) ELSE @]
  <1> DEFINE n == AfterExit(m)
  <1>1. /\ m.failed \cup ({m.variant} \ {0}) \in SUBSET Variant
        /\ m.spent \in 0 .. MaximumRestarts /\ m.restarts \in Nat /\ m.spent \in Nat
    BY Counts DEF Manager, Variant
  <1>2. /\ f \in Manager /\ f.proc = m.proc /\ f.ready = m.ready /\ f.forced = m.forced
        /\ f.awaiting = m.awaiting /\ f.timers = m.timers /\ f.restarts = m.restarts /\ f.spent = m.spent
    BY <1>1 DEF Manager
  <1>3. ManagerSound(f) /\ (f.forced # 0 => f.awaiting) /\ f.proc = "none"
    BY <1>2 DEF ManagerSound, Exited
  <1>4. n = IF BudgetSpent(m) THEN ScheduleRecovery(f) ELSE [f EXCEPT !.spent = @ + 1, !.restarts = @ + 1]
    BY DEF AfterExit
  <1> HIDE DEF f, n
  <1>5. CASE BudgetSpent(m)
    <2>1. n = ScheduleRecovery(f)
      BY <1>4, <1>5
    <2>2. /\ n \in Manager /\ ManagerSound(n)
          /\ n.proc = f.proc /\ n.forced = f.forced
          /\ (n.ready <=> f.ready) /\ (n.awaiting <=> f.awaiting)
          /\ f.forced # 0 /\ f.proc = "none" => "recovery" \in n.timers
      BY <1>2, <1>3, <2>1, RecoveryManager
    <2>3. Fenced(n)
      BY <1>3, <2>2 DEF Fenced
    <2> QED BY <1>2, <2>2, <2>3 DEF n
  <1>6. CASE ~BudgetSpent(m)
    <2>1. n = [f EXCEPT !.spent = @ + 1, !.restarts = @ + 1]
      BY <1>4, <1>6
    <2>2. /\ m.spent + 1 \in 0 .. MaximumRestarts /\ m.restarts + 1 \in 0 .. 2 * MaximumRestarts
          /\ m.restarts + 1 <= MaximumRestarts + (m.spent + 1) /\ m.restarts + 1 > 0
      BY <1>1, <1>6, Counts DEF BudgetSpent, ManagerSound
    <2>3. /\ n \in Manager /\ n.proc = f.proc /\ n.ready = f.ready /\ n.forced = f.forced
          /\ n.awaiting = f.awaiting /\ n.timers = f.timers
          /\ n.restarts = m.restarts + 1 /\ n.spent = m.spent + 1
      BY <1>2, <2>1, <2>2 DEF Manager
    <2>4. ManagerSound(n) /\ Fenced(n)
      BY <1>3, <2>2, <2>3 DEF ManagerSound, Fenced
    <2> QED BY <1>2, <2>3, <2>4 DEF n
  <1> QED BY <1>5, <1>6

\* A worker that has exited holds nothing, so nothing has to be remembered of it.
LEMMA EmptyIsSound ==
    ASSUME NEW s, NEW ts, Sound(s, NoOp, Nothing, ts), ~s.m.ready, s.c.cache = None,
           ~CheckpointsMayFail => s.c.active = None
    PROVE  Sound(s, NoOp, None, ts)
  <1>1. s.inbox = <<>> /\ s.wire = <<>>
    BY DEF Sound
  <1>2. Works(s.inbox, NoOp) = {}
    BY <1>1, WorksOfNothing
  <1>3. Remembered(s.c, s.inbox, s.wire, NoOp, None)
    BY <1>1, <1>2, NoMessage DEF Remembered, Kept, OneModelKept
  <1> QED BY <1>3 DEF Sound
LEMMA HeldNothing ==
    ASSUME NEW s, NEW o, NEW res, NEW ts, Sound(s, o, res, ts)
    PROVE  Sound(s, o, Nothing, ts)
  BY NothingIsNoModel DEF Sound, Remembered

LEMMA ExitKeeps ==
    ASSUME IInv, ~over, Exit
    PROVE  IInv'
  <1>1. /\ Sound(Here, op, resident, test) /\ Waits(Here, op) /\ Here \in World
        /\ manager \in Manager /\ ManagerSound(manager)
        /\ Here.m = manager /\ over \in BOOLEAN /\ test \in Test /\ TestShape(test)
    BY LivelyHere, ManagerHere, HereFields DEF IInv, Frame
  <1> DEFINE d == Disconnect(Here)
  <1> DEFINE e == [d EXCEPT !.m.proc = "none", !.m.awaiting = manager.forced # 0]
  <1> DEFINE s == [d EXCEPT !.m.proc = "none", !.m.awaiting = manager.forced # 0, !.c.runtime = "unknown"]
  <1>2. PICK x \in Ending : Go([InterruptActiveJob(s, x) EXCEPT !.m = AfterExit(@)])
    BY DEF Exit
  <1>3. /\ x \in Choice /\ op' = NoOp /\ resident' = None /\ test' \in {test, NoTest} /\ over' = over
    BY EndingIsChoice DEF Exit, TestFails
  <1>4. /\ d \in World /\ ManagerSound(d.m) /\ d.c = Here.c /\ d.inbox = <<>> /\ d.wire = <<>>
        /\ ~d.m.ready /\ d.m.forced = manager.forced
    BY <1>1, DisconnectFields
  <1>5. s = [e EXCEPT !.c.runtime = "unknown"]
    BY <1>4 DEF World
  <1> HIDE DEF d, s
  <1> DEFINE n == [d.m EXCEPT !.proc = "none", !.awaiting = manager.forced # 0]
  <1>6. /\ n \in Manager /\ n.proc = "none" /\ (n.awaiting <=> manager.forced # 0)
        /\ n.forced = manager.forced /\ (n.ready <=> d.m.ready) /\ n.timers = d.m.timers
        /\ n.restarts = d.m.restarts /\ n.spent = d.m.spent
    BY <1>4 DEF World, Manager
  <1>7. /\ e \in World /\ e.m = n /\ e.c = Here.c /\ e.inbox = <<>> /\ e.wire = <<>>
    BY <1>4, <1>6 DEF World
  <1> HIDE DEF e, n
  <1>8. ManagerSound(n) /\ Exited(n)
    BY <1>4, <1>6 DEF ManagerSound, Exited
  <1>9. Sound(Here, op, Nothing, test)
    BY <1>1, HeldNothing
  <1>10. Sound(e, NoOp, Nothing, test)
    BY <1>1, <1>4, <1>6, <1>7, <1>8, <1>9, CutIsSound DEF FreshProcess
  <1>11. /\ Sound(s, NoOp, Nothing, test) /\ s.m = n /\ s.inbox = <<>>
    BY <1>5, <1>7, <1>10, UnknownIsSound
  <1>12. JobFree(s.inbox, NoOp)
    BY <1>11, WorksOfNothing
  <1> DEFINE t == InterruptActiveJob(s, x)
  <1>13. Handled(s, t, NoOp, Nothing, test) /\ t.c.cache = None
    BY <1>3, <1>11, <1>12, NothingIsNoModel, InterruptIsHandled
  <1>14. ~CheckpointsMayFail => t.c.active = None
    BY <1>3, <1>6, <1>11, NothingIsNoModel, InterruptLetsGo
  <1> HIDE DEF t
  <1>15. /\ Sound(t, NoOp, Nothing, test) /\ Waits(t, NoOp) /\ Exited(t.m)
         /\ t \in World /\ t.m \in Manager /\ ManagerSound(t.m) /\ t.m.proc = "none" /\ ~t.m.ready
    BY <1>8, <1>11, <1>13 DEF Handled, ManagerKept, Sound, World, Exited, ManagerSound
  <1> DEFINE a == AfterExit(t.m)
  <1> DEFINE u == [t EXCEPT !.m = AfterExit(@)]
  <1>16. /\ a \in Manager /\ ManagerSound(a) /\ Fenced(a)
         /\ a.proc = "none" /\ ~a.ready /\ a.forced = t.m.forced
    BY <1>15, AfterExitFences
  <1> HIDE DEF a
  <1>17. u = [t EXCEPT !.m = a]
    BY <1>15 DEF World, a
  <1>18. u \in World /\ u.m = a /\ u.c = t.c /\ u.inbox = t.inbox /\ u.wire = t.wire
    BY <1>15, <1>16, <1>17 DEF World
  <1> HIDE DEF u
  <1>19. Sound(u, NoOp, Nothing, test) /\ Waits(u, NoOp)
    BY <1>15, <1>16, <1>18, MovedManager DEF FreshProcess
  <1>20. Sound(u, NoOp, None, test)
    BY <1>13, <1>14, <1>16, <1>18, <1>19, EmptyIsSound
  <1>21. Sound(u, NoOp, None, NoTest)
    BY <1>16, <1>18, <1>20, TestGone
  <1>22. Go(u)
    BY <1>2 DEF u, t
  <1>23. NoOp \in Operation
    BY Counts DEF NoOp, Operation
  <1> QED BY <1>1, <1>3, <1>16, <1>18, <1>19, <1>20, <1>21, <1>22, <1>23, NoTestTyped, StaysLively

-----------------------------------------------------------------------------
(* The model test.                                                          *)

\* A request of the model test goes to a worker that has no other one of it.
ForTest(s, r) == [s EXCEPT !.inbox = Append(@, r)]

LEMMA SentForTestIsSound ==
    ASSUME NEW s, NEW o, NEW res, NEW ts, NEW us, NEW r,
           Sound(s, o, res, ts), s.m.ready, s.c.active = None, s.c.cache = None,
           r \in Request, r.for = Tester, r.type \in {"load", "transcribe", "unload"},
           r.id # 0, r.id # o.id, \A q \in ToSet(s.inbox) : q.id # r.id, \A a \in ToSet(s.wire) : a.id # r.id,
           us.id = r.id, us.phase \in {"loading", "transcribing", "unloading"},
           \A q \in Works(s.inbox, o) : ~ForTester(q)
    PROVE  LET t == ForTest(s, r)
           IN  /\ Sound(t, o, res, us) /\ Waits(t, o) /\ t.m = s.m
  <1> DEFINE t == ForTest(s, r)
  <1>1. /\ s \in World /\ s.inbox \in Seq(Request) /\ s.wire \in Seq(Answer) /\ LetGo(s.c)
        /\ (~CheckpointsMayFail => JobFree(s.inbox, o))
    BY VacantIsJobFree DEF Sound, World
  <1>2. Append(s.inbox, r) \in Seq(Request) /\ ToSet(Append(s.inbox, r)) = ToSet(s.inbox) \cup {r}
    BY <1>1, AppendMessage
  <1>3. /\ t \in World /\ t.m = s.m /\ t.c = s.c /\ t.wire = s.wire /\ t.inbox = Append(s.inbox, r)
    BY <1>1, <1>2 DEF World, ForTest
  <1> HIDE DEF t
  <1>4. Works(t.inbox, o) = Works(s.inbox, o) \cup {r}
    BY <1>1, <1>3, WorksAppend
  <1>5. r.for \notin Job
    BY NamesAssumption
  <1>6. MessagesSound(t.inbox, t.wire, o)
    <2>1. RequestSound(r, o)
      BY DEF RequestSound
    <2>2. Distinct(t.inbox)
      BY <1>1, <1>3, DistinctAppend DEF Sound, MessagesSound
    <2>3. \A q \in ToSet(t.inbox) : RequestSound(q, o)
      BY <1>2, <1>3, <2>1 DEF Sound, MessagesSound
    <2>4. \A a \in ToSet(t.wire) : AnswerSound(a, t.inbox, o)
      BY <1>2, <1>3 DEF Sound, MessagesSound, AnswerSound
    <2> QED BY <2>2, <2>3, <2>4 DEF Sound, MessagesSound
  <1>7. Belongs(t.c, t.inbox, t.wire, o)
    <2>1. t.c.req.id = 0
      BY <1>1, <1>3 DEF LetGo, NoRequest
    <2>2. \A a \in ToSet(t.wire) : a.id # 0
      BY <1>1, <1>3, AnswerHasId
    <2> QED BY <2>1, <2>2 DEF Belongs
  <1>8. Calm(t.c, t.inbox, o)
    BY <1>1, <1>3, <1>4, <1>5 DEF Sound, Calm, JobFree, ForJob
  <1>9. TestSound(t.m, t.c, t.inbox, o, us)
    BY <1>3, <1>4 DEF TestSound
  <1>10. Remembered(t.c, t.inbox, t.wire, o, res)
    BY <1>3, <1>4, <1>5 DEF Sound, Remembered, ForJob
  <1>11. Sound(t, o, res, us)
    BY <1>3, <1>6, <1>7, <1>8, <1>9, <1>10 DEF Sound
  <1>12. Waits(t, o)
    BY <1>3 DEF Waits
  <1> QED BY <1>3, <1>11, <1>12 DEF t

\* A worker that has just greeted the desktop has nothing to do.
LEMMA GreetedIsSound ==
    ASSUME NEW s, NEW o, NEW res, NEW ts, Sound(s, o, res, ts), Waits(s, o), s.m.proc = "alive", ~s.m.ready
    PROVE  LET t == [s EXCEPT !.m.ready = TRUE]
           IN  /\ Sound(t, o, res, ts) /\ Waits(t, o) /\ t.m.ready /\ t.m.proc = "alive"
               /\ t.c = s.c /\ t.inbox = <<>> /\ t.wire = <<>> /\ o = NoOp
               /\ t.m.forced = s.m.forced /\ (t.m.awaiting <=> s.m.awaiting)
  <1> DEFINE n == [s.m EXCEPT !.ready = TRUE]
  <1> DEFINE t == [s EXCEPT !.m.ready = TRUE]
  <1>1. /\ s \in World /\ s.m \in Manager /\ ManagerSound(s.m) /\ s.inbox = <<>> /\ s.wire = <<>> /\ o = NoOp
    BY DEF Sound, World, FreshProcess
  <1>2. /\ n \in Manager /\ n.ready /\ n.proc = "alive" /\ n.forced = s.m.forced
        /\ (n.awaiting <=> s.m.awaiting) /\ n.restarts = s.m.restarts /\ n.spent = s.m.spent
        /\ n.timers = s.m.timers
    BY <1>1 DEF Manager
  <1>3. /\ t \in World /\ t.m = n /\ t.c = s.c /\ t.inbox = <<>> /\ t.wire = <<>>
    BY <1>1, <1>2 DEF World
  <1> HIDE DEF n, t
  <1>4. ManagerSound(t.m)
    BY <1>1, <1>2, <1>3 DEF ManagerSound
  <1>5. TestSound(t.m, t.c, t.inbox, o, ts)
    BY <1>1, <1>3, WorksOfNothing DEF Sound, TestSound
  <1>6. Sound(t, o, res, ts)
    BY <1>1, <1>2, <1>3, <1>4, <1>5 DEF Sound, Unforced, FreshProcess
  <1>7. Waits(t, o)
    BY <1>1, <1>2, <1>3 DEF Waits
  <1> QED BY <1>1, <1>2, <1>3, <1>6, <1>7 DEF t

\* The request that a step of the model test sends, with a fresh id.
LEMMA TesterRequest ==
    ASSUME NEW s, NEW type, NEW model, s \in World, Roomy(s), type \in {"load", "transcribe", "unload"},
           model \in Model \cup {None}
    PROVE  LET r == [type |-> type, id |-> FreshId(s), for |-> Tester, model |-> model]
           IN  /\ r \in Request /\ r.id \in 0 .. RequestIds /\ r.id # 0 /\ r.id # op.id
               /\ r.for = Tester /\ r.type = type /\ r.id = FreshId(s)
               /\ \A q \in ToSet(s.inbox) : q.id # r.id
               /\ \A a \in ToSet(s.wire) : a.id # r.id
               /\ SendForTest(s, FreshId(s), type, model) = ForTest(s, r)
  <1> DEFINE i == FreshId(s)
  <1>1. /\ i \in Id /\ i # 0 /\ i # op.id
        /\ \A k \in DOMAIN s.inbox : s.inbox[k].id # i
        /\ \A k \in DOMAIN s.wire : s.wire[k].id # i
    BY FreshIdIsFresh
  <1>2. i \in 0 .. RequestIds
    BY <1>1, Counts DEF Id
  <1>3. (\A q \in ToSet(s.inbox) : q.id # i) /\ (\A a \in ToSet(s.wire) : a.id # i)
    BY <1>1 DEF ToSet
  <1> HIDE DEF i
  <1> DEFINE r == [type |-> type, id |-> i, for |-> Tester, model |-> model]
  <1>4. r \in Request
    BY <1>2 DEF Request, RunsJob
  <1>5. SendForTest(s, i, type, model) = ForTest(s, r)
    BY DEF SendForTest, ForTest
  <1> QED BY <1>1, <1>2, <1>3, <1>4, <1>5 DEF i

LEMMA TestSends ==
    ASSUME NEW s, NEW type, NEW model, NEW us, Sound(s, op, resident, test), s.m.ready,
           s.c.active = None, s.c.cache = None, Roomy(s),
           test.phase \notin {"loading", "transcribing", "unloading"},
           type \in {"load", "transcribe", "unload"}, model \in Model \cup {None},
           us.id = FreshId(s), us.phase \in {"loading", "transcribing", "unloading"}
    PROVE  LET t == SendForTest(s, FreshId(s), type, model)
           IN  /\ Sound(t, op, resident, us) /\ Waits(t, op) /\ t.m = s.m
               /\ FreshId(s) \in 0 .. RequestIds /\ FreshId(s) # 0
  <1> DEFINE r == [type |-> type, id |-> FreshId(s), for |-> Tester, model |-> model]
  <1>1. s \in World
    BY DEF Sound
  <1>2. /\ r \in Request /\ r.id \in 0 .. RequestIds /\ r.id # 0 /\ r.id # op.id
        /\ r.for = Tester /\ r.type = type /\ r.id = FreshId(s)
        /\ \A q \in ToSet(s.inbox) : q.id # r.id
        /\ \A a \in ToSet(s.wire) : a.id # r.id
        /\ SendForTest(s, FreshId(s), type, model) = ForTest(s, r)
    BY <1>1, TesterRequest
  <1> HIDE DEF r
  <1>3. \A q \in Works(s.inbox, op) : ~ForTester(q)
    BY DEF Sound, TestSound
  <1>4. LET t == ForTest(s, r) IN Sound(t, op, resident, us) /\ Waits(t, op) /\ t.m = s.m
    BY <1>2, <1>3, SentForTestIsSound
  <1> QED BY <1>2, <1>4

LEMMA ConnectKeeps ==
    ASSUME IInv, ~over, Connect
    PROVE  IInv'
  <1>1. /\ Sound(Here, op, resident, test) /\ Waits(Here, op) /\ Here \in World /\ Fenced(manager)
        /\ ManagerSound(manager) /\ manager.forced \in Nat
        /\ Here.m = manager /\ over \in BOOLEAN /\ test \in Test /\ TestShape(test)
        /\ op \in Operation /\ resident \in Model \cup {None} /\ (Room => Roomy(Here))
    BY LivelyHere, ManagerHere, HereFields, Counts DEF IInv, Frame, Manager
  <1> DEFINE s == [Here EXCEPT !.m.ready = TRUE]
  <1> DEFINE T(x) == IF s.m.awaiting THEN SettleForcedCancellation(s, x) ELSE s
  <1>2. PICK x \in Ending :
            IF test.phase = "waiting"
            THEN /\ Go(SendForTest(T(x), FreshId(T(x)), "load", test.model))
                 /\ test' = [test EXCEPT !.phase = "loading", !.id = FreshId(T(x))]
            ELSE Go(T(x)) /\ UNCHANGED test
    BY DEF Connect
  <1>3. /\ x \in Choice /\ op' = op /\ resident' = resident /\ over' = over
        /\ manager.proc = "alive" /\ ~manager.ready /\ (test.phase = "waiting" => Room)
    BY EndingIsChoice DEF Connect
  <1>4. /\ Sound(s, op, resident, test) /\ Waits(s, op) /\ s.m.ready /\ s.m.proc = "alive"
        /\ s.c = Here.c /\ s.inbox = <<>> /\ s.wire = <<>> /\ op = NoOp
        /\ s.m.forced = manager.forced /\ (s.m.awaiting <=> manager.awaiting)
    BY <1>1, <1>3, GreetedIsSound
  <1> HIDE DEF s
  <1>5. JobFree(s.inbox, op)
    BY <1>4, WorksOfNothing
  <1>6. LET t == SettleForcedCancellation(s, x)
        IN  /\ Sound(t, op, resident, test) /\ Waits(t, op) /\ t.m.forced = 0 /\ t.m.ready = s.m.ready
            /\ s.c.pending = "none" => t.c = s.c /\ t.inbox = s.inbox /\ t.wire = s.wire
    BY ZenonT(60), <1>3, <1>4, <1>5, SettleIsHandled
  <1> DEFINE t == T(x)
  <1>7. /\ Sound(t, op, resident, test) /\ Waits(t, op) /\ t.m.forced \in {0, s.m.forced} /\ t.m.ready
        /\ s.c.pending = "none" => t.c = s.c /\ t.inbox = s.inbox /\ t.wire = s.wire
        /\ s.m.awaiting => t.m.forced = 0
        /\ ~s.m.awaiting => t = s
    BY <1>4, <1>6
  <1>8. /\ test.phase = "waiting" => /\ Go(SendForTest(t, FreshId(t), "load", test.model))
                                     /\ test' = [test EXCEPT !.phase = "loading", !.id = FreshId(t)]
        /\ test.phase # "waiting" => Go(t) /\ test' = test
    BY <1>2
  <1> HIDE DEF t
  <1>9. Fenced(t.m)
    BY <1>1, <1>3, <1>4, <1>7 DEF Fenced, ManagerSound
  <1>10. CASE test.phase # "waiting"
    BY <1>1, <1>3, <1>7, <1>8, <1>9, <1>10, StaysLively
  <1>11. CASE test.phase = "waiting"
    <2> DEFINE i == FreshId(t)
    <2> DEFINE us == [test EXCEPT !.phase = "loading", !.id = i]
    <2>1. s.c.active = None /\ s.c.cache = None /\ s.c.pending = "none"
      BY <1>4, <1>11 DEF Sound, TestSound, CoordinatorSound, LetGo
    <2>2. Roomy(t)
      BY <1>1, <1>3, <1>4, <1>7, <1>11, <2>1, NoMessage, RoomStays
    <2>3. us.id = i /\ us.phase = "loading" /\ test.model \in Model \cup {None}
      BY <1>1 DEF Test
    <2> HIDE DEF us
    <2>4. LET u == SendForTest(t, i, "load", test.model)
          IN  /\ Sound(u, op, resident, us) /\ Waits(u, op) /\ u.m = t.m /\ i \in 0 .. RequestIds /\ i # 0
      BY <1>7, <1>11, <2>1, <2>2, <2>3, TestSends
    <2> HIDE DEF i
    <2>5. us \in Test /\ TestShape(us)
      BY <1>1, <1>11, <2>4 DEF Test, TestShape, us
    <2> QED BY <1>1, <1>3, <1>8, <1>9, <1>11, <2>4, <2>5, StaysLively DEF us, i
  <1> QED BY <1>10, <1>11

-----------------------------------------------------------------------------
(* The worker.                                                              *)

Read(s, w) == [s EXCEPT !.inbox = Tail(@), !.wire = w]

LEMMA ReadFields ==
    ASSUME NEW s, NEW o, NEW res, NEW ts, NEW w, Sound(s, o, res, ts), s.inbox # <<>>, w \in Seq(Answer)
    PROVE  LET t == Read(s, w)
               r == Head(s.inbox)
           IN  /\ t \in World /\ t.m = s.m /\ t.c = s.c /\ t.inbox = Tail(s.inbox) /\ t.wire = w
               /\ s.m.ready /\ s.m.proc # "none"
               /\ r \in Request /\ RequestSound(r, o)
               /\ ToSet(s.inbox) = {r} \cup ToSet(t.inbox)
               /\ Distinct(t.inbox)
               /\ r.id # 0 => \A q \in ToSet(t.inbox) : q.id # r.id
  <1> DEFINE t == Read(s, w)
  <1> DEFINE r == Head(s.inbox)
  <1>1. s \in World /\ s.inbox \in Seq(Request) /\ Distinct(s.inbox)
    BY DEF Sound, World, MessagesSound
  <1>2. /\ r \in Request /\ Tail(s.inbox) \in Seq(Request)
        /\ ToSet(s.inbox) = {r} \cup ToSet(Tail(s.inbox))
    BY <1>1, FirstMessage
  <1>3. Distinct(Tail(s.inbox)) /\ (r.id # 0 => \A q \in ToSet(Tail(s.inbox)) : q.id # r.id)
    BY <1>1, DistinctTail
  <1>4. t \in World /\ t.m = s.m /\ t.c = s.c /\ t.inbox = Tail(s.inbox) /\ t.wire = w
    BY <1>1, <1>2 DEF World, Read
  <1>5. s.m.ready /\ s.m.proc # "none" /\ RequestSound(r, o)
    BY <1>2 DEF Sound, ManagerSound, MessagesSound
  <1> HIDE DEF t, r
  <1> QED BY <1>2, <1>3, <1>4, <1>5 DEF t, r

\* The worker answers a request at once: it is asked what it can do, or it is busy.
LEMMA ReplyIsSound ==
    ASSUME NEW s, NEW o, NEW res, NEW ts, NEW e, Sound(s, o, res, ts), Waits(s, o), s.inbox # <<>>,
           e \in Answer, e.id = Head(s.inbox).id, e.type \in {"capabilities", "unavailable", "error"},
           (e.type \in {"capabilities", "unavailable"}) <=> (Head(s.inbox).type = "capabilities")
    PROVE  LET t == Read(s, Append(s.wire, e))
           IN  Sound(t, o, res, ts) /\ Waits(t, o) /\ t.m = s.m
  <1> DEFINE w == Append(s.wire, e)
  <1> DEFINE t == Read(s, w)
  <1> DEFINE r == Head(s.inbox)
  <1>1. s.wire \in Seq(Answer)
    BY DEF Sound, World
  <1>2. w \in Seq(Answer) /\ ToSet(w) = ToSet(s.wire) \cup {e}
    BY <1>1, AppendMessage
  <1> HIDE DEF w
  <1>3. /\ t \in World /\ t.m = s.m /\ t.c = s.c /\ t.inbox = Tail(s.inbox) /\ t.wire = w
        /\ s.m.ready /\ s.m.proc # "none"
        /\ r \in Request /\ RequestSound(r, o)
        /\ ToSet(s.inbox) = {r} \cup ToSet(t.inbox)
        /\ Distinct(t.inbox)
        /\ r.id # 0 => \A q \in ToSet(t.inbox) : q.id # r.id
    BY <1>2, ReadFields
  <1>4. r.id # 0
    BY Counts DEF Answer, Id
  <1> HIDE DEF t, r
  <1>5. Works(t.inbox, o) \subseteq Works(s.inbox, o)
    BY <1>3 DEF Works
  <1>6. e.id = r.id /\ ((e.type \in {"capabilities", "unavailable"}) <=> (r.type = "capabilities"))
    BY DEF r
  <1>7. MessagesSound(t.inbox, t.wire, o)
    <2>1. AnswerSound(e, t.inbox, o)
      BY <1>3, <1>4, <1>6 DEF AnswerSound, RequestSound
    <2>2. \A a \in ToSet(s.wire) : AnswerSound(a, t.inbox, o)
      BY <1>3 DEF Sound, MessagesSound, AnswerSound
    <2> QED BY <1>2, <1>3, <2>1, <2>2 DEF Sound, MessagesSound
  <1>8. Belongs(t.c, t.inbox, t.wire, o)
    <2>1. e.id = t.c.req.id => r.type = t.c.req.type
      BY ZenonT(60), <1>3, <1>4, <1>6 DEF Sound, Belongs
    <2> QED BY <1>2, <1>3, <1>6, <2>1 DEF Sound, Belongs
  <1>9. Calm(t.c, t.inbox, o)
    BY <1>3, <1>5 DEF Sound, Calm, JobFree
  <1>10. TestSound(t.m, t.c, t.inbox, o, ts)
    BY <1>3, <1>5 DEF Sound, TestSound
  <1>11. Remembered(t.c, t.inbox, t.wire, o, res)
    BY <1>2, <1>3, <1>5 DEF Sound, Remembered
  <1>12. Sound(t, o, res, ts)
    BY <1>3, <1>7, <1>8, <1>9, <1>10, <1>11 DEF Sound
  <1>13. \A i : Underway(i, s.inbox, s.wire, o) => Underway(i, t.inbox, t.wire, o)
    BY <1>2, <1>3, <1>6 DEF Underway
  <1>14. Waits(t, o)
    BY <1>3, <1>13 DEF Waits
  <1> QED BY <1>3, <1>12, <1>14 DEF t, w

\* An operation stands for a request if it is of its type, id, owner and model.
Stands(o, r) == o.type = r.type /\ o.id = r.id /\ o.for = r.for /\ o.model = r.model

LEMMA ClaimOperationIsSound ==
    ASSUME NEW s, NEW o, NEW res, NEW ts, NEW k, Sound(s, o, res, ts), Waits(s, o), s.inbox # <<>>,
           o.type = "none", Head(s.inbox).type \in RunsJob \cup {"unload"}, Stands(k, Head(s.inbox)),
           ~k.answered
    PROVE  LET t == Read(s, s.wire)
           IN  Sound(t, k, res, ts) /\ Waits(t, k) /\ t.m = s.m
  <1> DEFINE w == s.wire
  <1> DEFINE t == Read(s, w)
  <1> DEFINE r == Head(s.inbox)
  <1>0. w = s.wire
    OBVIOUS
  <1>1. w \in Seq(Answer)
    BY DEF Sound, World
  <1> HIDE DEF w
  <1>2. /\ t \in World /\ t.m = s.m /\ t.c = s.c /\ t.inbox = Tail(s.inbox) /\ t.wire = w
        /\ s.m.ready /\ s.m.proc # "none"
        /\ r \in Request /\ RequestSound(r, o)
        /\ ToSet(s.inbox) = {r} \cup ToSet(t.inbox)
        /\ Distinct(t.inbox)
        /\ r.id # 0 => \A q \in ToSet(t.inbox) : q.id # r.id
    BY <1>1, ReadFields
  <1>3. r.type \in RunsJob \cup {"unload"} /\ Stands(k, r)
    OBVIOUS
  <1> HIDE DEF t, r
  <1> USE <1>0
  <1>4. /\ r.id # 0 /\ r.type # "none" /\ r.type # "cancel" /\ r.for \in Job \cup {Tester}
        /\ k.type = r.type /\ k.id = r.id /\ k.for = r.for /\ k.model = r.model
        /\ (r.type = "unload" => r.for = Tester)
    BY <1>2, <1>3 DEF RequestSound, RunsJob, Stands
  <1>5. Works(s.inbox, o) = {r} \cup ToSet(t.inbox) /\ Works(t.inbox, k) = {k} \cup ToSet(t.inbox)
    BY <1>2, <1>4 DEF Works
  <1>6. (ForJob(k) <=> ForJob(r)) /\ (ForTester(k) <=> ForTester(r))
    BY <1>4 DEF ForJob, ForTester
  <1>7. MessagesSound(t.inbox, t.wire, k)
    <2>1. OperationSound(k)
      BY <1>4 DEF OperationSound
    <2>2. \A q \in ToSet(t.inbox) : RequestSound(q, k)
      BY <1>2, <1>4 DEF Sound, MessagesSound, RequestSound
    <2>3. \A a \in ToSet(t.wire) : AnswerSound(a, t.inbox, k)
      BY <1>2, <1>4 DEF Sound, MessagesSound, AnswerSound
    <2> QED BY <1>2, <2>1, <2>2, <2>3 DEF MessagesSound
  <1>8. Belongs(t.c, t.inbox, t.wire, k)
    BY <1>2, <1>4 DEF Sound, Belongs
  <1>9. Calm(t.c, t.inbox, k)
    BY <1>2, <1>4, <1>5, <1>6 DEF Sound, Calm, JobFree
  <1>10. TestSound(t.m, t.c, t.inbox, k, ts)
    BY <1>2, <1>4, <1>5, <1>6 DEF Sound, TestSound
  <1>11. Remembered(t.c, t.inbox, t.wire, k, res)
    BY <1>2, <1>4, <1>5, <1>6 DEF Sound, Remembered
  <1>12. Sound(t, k, res, ts)
    BY <1>2, <1>7, <1>8, <1>9, <1>10, <1>11 DEF Sound, FreshProcess
  <1>13. \A i : i # 0 /\ Underway(i, s.inbox, s.wire, o) => Underway(i, t.inbox, t.wire, k)
    <2>1. o.id = 0
      BY DEF Sound, MessagesSound, OperationSound, NoOp
    <2> QED BY <1>2, <1>3, <1>4, <2>1 DEF Underway
  <1>14. s.c.req.type \in RunsJob => s.c.req.id # 0
    BY DEF Sound, CoordinatorSound, RunsJob
  <1>15. Waits(t, k)
    BY <1>2, <1>13, <1>14 DEF Waits
  <1> QED BY <1>2, <1>12, <1>15 DEF t, w

\* A cancellation marks the operation at most.
LEMMA CancelReadIsSound ==
    ASSUME NEW s, NEW o, NEW res, NEW ts, NEW k, Sound(s, o, res, ts), Waits(s, o), s.inbox # <<>>,
           Head(s.inbox).type = "cancel",
           Stands(k, o), k.answered <=> o.answered, o = NoOp => k = NoOp
    PROVE  LET t == Read(s, s.wire)
           IN  Sound(t, k, res, ts) /\ Waits(t, k) /\ t.m = s.m
  <1> DEFINE w == s.wire
  <1> DEFINE t == Read(s, w)
  <1> DEFINE r == Head(s.inbox)
  <1>0. w = s.wire
    OBVIOUS
  <1>1. w \in Seq(Answer)
    BY DEF Sound, World
  <1> HIDE DEF w
  <1>2. /\ t \in World /\ t.m = s.m /\ t.c = s.c /\ t.inbox = Tail(s.inbox) /\ t.wire = w
        /\ s.m.ready /\ s.m.proc # "none"
        /\ r \in Request /\ RequestSound(r, o)
        /\ ToSet(s.inbox) = {r} \cup ToSet(t.inbox)
        /\ Distinct(t.inbox)
        /\ r.id # 0 => \A q \in ToSet(t.inbox) : q.id # r.id
    BY <1>1, ReadFields
  <1>3. r.type = "cancel"
    OBVIOUS
  <1> HIDE DEF t, r
  <1> USE <1>0
  <1>4. r.id = 0
    BY <1>2, <1>3 DEF RequestSound
  <1>5. k.type = o.type /\ k.id = o.id /\ k.for = o.for /\ k.model = o.model
    BY DEF Stands
  <1>6. \A q \in Works(t.inbox, k) : \E p \in Works(s.inbox, o) :
            p.type = q.type /\ p.id = q.id /\ p.for = q.for /\ p.model = q.model
    BY <1>2, <1>5 DEF Works
  <1>7. MessagesSound(t.inbox, t.wire, k)
    <2>1. OperationSound(k)
      BY <1>5 DEF Sound, MessagesSound, OperationSound
    <2>2. \A q \in ToSet(t.inbox) : RequestSound(q, k)
      BY <1>2, <1>5 DEF Sound, MessagesSound, RequestSound
    <2>3. \A a \in ToSet(t.wire) : AnswerSound(a, t.inbox, k)
      BY <1>2, <1>5 DEF Sound, MessagesSound, AnswerSound
    <2> QED BY <1>2, <2>1, <2>2, <2>3 DEF MessagesSound
  <1>8. Belongs(t.c, t.inbox, t.wire, k)
    BY <1>2, <1>5 DEF Sound, Belongs
  <1>9. Calm(t.c, t.inbox, k)
    BY <1>2, <1>6 DEF Sound, Calm, JobFree, ForJob
  <1>10. TestSound(t.m, t.c, t.inbox, k, ts)
    BY <1>2, <1>6 DEF Sound, TestSound, ForTester
  <1>11. Remembered(t.c, t.inbox, t.wire, k, res)
    BY <1>2, <1>6 DEF Sound, Remembered, ForJob
  <1>12. Sound(t, k, res, ts)
    BY <1>2, <1>7, <1>8, <1>9, <1>10, <1>11 DEF Sound, FreshProcess
  <1>13. \A i : i # 0 /\ Underway(i, s.inbox, s.wire, o) => Underway(i, t.inbox, t.wire, k)
    BY <1>2, <1>4, <1>5 DEF Underway
  <1>14. s.c.req.type \in RunsJob => s.c.req.id # 0
    BY DEF Sound, CoordinatorSound, RunsJob
  <1>15. Waits(t, k)
    BY <1>2, <1>13, <1>14 DEF Waits
  <1> QED BY <1>2, <1>12, <1>15 DEF t, w

\* A step of the worker leaves the application alone.
LEMMA WorkerStepKeeps ==
    ASSUME IInv, ~over, UNCHANGED Desktop, NEW d, d \in World, d.m = Here.m, d.c = Here.c,
           inbox' = d.inbox, wire' = d.wire, d.job = job, d.leased = leased,
           Sound(d, op', resident', test), Waits(d, op'),
           op' \in Operation, resident' \in Model \cup {None}
    PROVE  IInv'
  <1>1. Fenced(d.m) /\ test \in Test /\ TestShape(test) /\ over \in BOOLEAN
    BY LivelyHere DEF IInv, Frame
  <1>2. Go(d) /\ test' = test /\ over' = over
    BY HereFields DEF Desktop, Go
  <1> QED BY <1>1, <1>2, StaysLively

LEMMA ReadKeeps ==
    ASSUME IInv, ~over, UNCHANGED Desktop, resident' = resident, inbox # <<>>, inbox' = Tail(inbox),
           wire' \in Seq(Answer), op' \in Operation,
           LET t == Read(Here, wire') IN Sound(t, op', resident, test) /\ Waits(t, op')
    PROVE  IInv'
  <1>1. /\ Sound(Here, op, resident, test) /\ Here \in World /\ resident \in Model \cup {None}
    BY LivelyHere
  <1> DEFINE w == wire'
  <1> DEFINE d == Read(Here, w)
  <1>2. d.m = Here.m /\ d.c = Here.c /\ d.inbox = Tail(inbox) /\ d.wire = w /\ d.job = job /\ d.leased = leased
    BY <1>1, HereFields DEF Read, World
  <1>3. d \in World
    BY DEF Sound
  <1> HIDE DEF d
  <1>4. inbox' = d.inbox /\ wire' = d.wire
    BY <1>2
  <1>5. Sound(d, op', resident', test) /\ Waits(d, op')
    BY DEF d
  <1> HIDE DEF w
  <1> QED BY <1>1, <1>2, <1>3, <1>4, <1>5, WorkerStepKeeps

LEMMA WorkerReadsKeeps ==
    ASSUME IInv, ~over, WorkerReads
    PROVE  IInv'
  <1> DEFINE r == Head(inbox)
  <1>1. /\ Sound(Here, op, resident, test) /\ Waits(Here, op) /\ Here \in World
        /\ Here.inbox = inbox /\ Here.wire = wire /\ inbox \in Seq(Request) /\ wire \in Seq(Answer)
        /\ resident \in Model \cup {None} /\ op \in Operation
    BY LivelyHere, HereFields DEF World
  <1>2. /\ UNCHANGED Desktop /\ resident' = resident /\ inbox # <<>> /\ inbox' = Tail(inbox)
    BY DEF WorkerReads
  <1>3. r \in Request /\ RequestSound(r, op)
    BY <1>1, <1>2, FirstMessage DEF Sound, MessagesSound
  <1>4. \/ /\ r.type = "capabilities"
           /\ \E a \in {"capabilities", "unavailable"} : wire' = Append(wire, [type |-> a, id |-> r.id])
           /\ op' = op
        \/ /\ r.type \in RunsJob \cup {"unload"} /\ ~Running
           /\ op' = [type |-> r.type, id |-> r.id, for |-> r.for, model |-> r.model,
                     cancelled |-> FALSE, answered |-> FALSE]
           /\ wire' = wire
        \/ /\ r.type \in RunsJob \cup {"unload"} /\ Running
           /\ wire' = Append(wire, [type |-> "error", id |-> r.id])
           /\ op' = op
        \/ /\ r.type = "cancel"
           /\ op' = IF Running /\ (r.for = None \/ (op.type \in {"analyze", "transcribe"} /\ op.for = r.for))
                    THEN [op EXCEPT !.cancelled = TRUE] ELSE op
           /\ wire' = wire
    BY DEF WorkerReads
  <1>5. r.type # "cancel" => r.id \in Id
    BY <1>3, Counts DEF Request, RequestSound, Id
  <1>6. ASSUME NEW a \in {"capabilities", "unavailable", "error"}, wire' = Append(wire, [type |-> a, id |-> r.id]),
               op' = op, r.type \in RunsJob \cup {"unload", "capabilities"},
               (a \in {"capabilities", "unavailable"}) <=> (r.type = "capabilities")
        PROVE  IInv'
    <2> DEFINE e == [type |-> a, id |-> r.id]
    <2>1. e \in Answer /\ e.id = r.id /\ e.type = a
      BY <1>5, <1>6 DEF Answer, RunsJob
    <2>2. wire' = Append(wire, e)
      BY <1>6
    <2> HIDE DEF e
    <2>3. LET t == Read(Here, Append(Here.wire, e)) IN Sound(t, op, resident, test) /\ Waits(t, op)
      BY <1>1, <1>2, <1>6, <2>1, ReplyIsSound
    <2>4. wire' \in Seq(Answer)
      BY <1>1, <2>1, <2>2
    <2> QED BY <1>1, <1>2, <1>6, <2>2, <2>3, <2>4, ReadKeeps
  <1>7. CASE /\ r.type \in RunsJob \cup {"unload"} /\ ~Running
             /\ op' = [type |-> r.type, id |-> r.id, for |-> r.for, model |-> r.model,
                       cancelled |-> FALSE, answered |-> FALSE]
             /\ wire' = wire
    <2> DEFINE k == [type |-> r.type, id |-> r.id, for |-> r.for, model |-> r.model,
                     cancelled |-> FALSE, answered |-> FALSE]
    <2>1. k \in Operation /\ Stands(k, r) /\ ~k.answered
      BY <1>3, <1>7 DEF Operation, Request, Stands
    <2>2. op' = k /\ op.type = "none"
      BY <1>7 DEF Running
    <2> HIDE DEF k
    <2>3. LET t == Read(Here, Here.wire) IN Sound(t, k, resident, test) /\ Waits(t, k)
      BY <1>1, <1>2, <1>7, <2>1, <2>2, ClaimOperationIsSound
    <2> QED BY <1>1, <1>2, <1>7, <2>1, <2>2, <2>3, ReadKeeps
  <1>8. CASE /\ r.type = "cancel"
             /\ op' = IF Running /\ (r.for = None \/ (op.type \in {"analyze", "transcribe"} /\ op.for = r.for))
                      THEN [op EXCEPT !.cancelled = TRUE] ELSE op
             /\ wire' = wire
    <2> DEFINE k == op'
    <2>1. /\ k \in Operation /\ Stands(k, op) /\ (k.answered <=> op.answered) /\ (op = NoOp => k = NoOp)
      <3>1. CASE op' = op
        BY <1>1, <3>1 DEF Stands
      <3>2. CASE op' = [op EXCEPT !.cancelled = TRUE] /\ Running
        <4>1. op # NoOp
          BY <3>2 DEF Running, NoOp
        <4> QED BY <1>1, <3>2, <4>1 DEF Operation, Stands
      <3> QED BY <1>8, <3>1, <3>2
    <2> HIDE DEF k
    <2>2. LET t == Read(Here, Here.wire) IN Sound(t, k, resident, test) /\ Waits(t, k)
      BY <1>1, <1>2, <1>8, <2>1, CancelReadIsSound
    <2>3. op' = k /\ wire' = wire
      BY <1>8 DEF k
    <2> QED BY <1>1, <1>2, <2>1, <2>2, <2>3, ReadKeeps
  <1>9. CASE r.type = "capabilities"
    <2>1. r.type \notin RunsJob \cup {"unload"} /\ r.type # "cancel"
      BY <1>9 DEF RunsJob
    <2>2. (\E a \in {"capabilities", "unavailable"} : wire' = Append(wire, [type |-> a, id |-> r.id])) /\ op' = op
      BY <1>4, <2>1
    <2> QED BY <1>6, <1>9, <2>2
  <1>10. CASE /\ r.type \in RunsJob \cup {"unload"}
              /\ wire' = Append(wire, [type |-> "error", id |-> r.id])
              /\ op' = op
    <2>1. r.type # "capabilities"
      BY <1>10 DEF RunsJob
    <2> QED BY <1>6, <1>10, <2>1
  <1> HIDE DEF r
  <1> QED BY <1>4, <1>7, <1>8, <1>9, <1>10

Wired(s, w) == [s EXCEPT !.wire = w]

\* What the worker may answer to its operation o, and what it then holds.
Possible(o, a, before, after) ==
    /\ a \in {"loaded", "unloaded", "analyzed", "done", "cancelled", "error"}
    /\ a = "loaded" => o.type = "load" /\ after = o.model
    /\ a = "unloaded" => o.type = "unload"
    /\ a = "done" => o.type = "transcribe"
    /\ o.type \notin {"load", "unload"} => after = before

Replied(s, o, a) == IF s.m.ready THEN Append(s.wire, [type |-> a, id |-> o.id]) ELSE s.wire

LEMMA AnswerIsSound ==
    ASSUME NEW s, NEW o, NEW res, NEW ts, NEW k, NEW a, NEW after,
           Sound(s, o, res, ts), Waits(s, o), o \in Operation, o.type # "none", ~o.answered,
           Stands(k, o), k.answered, Possible(o, a, res, after),
           res \in Model \cup {None}, after \in Model \cup {None}
    PROVE  LET t == Wired(s, Replied(s, o, a))
           IN  /\ Sound(t, k, after, ts) /\ Waits(t, k) /\ t.m = s.m /\ t.c = s.c /\ t.inbox = s.inbox
               /\ t.wire = Replied(s, o, a) /\ t.job = s.job /\ t.leased = s.leased
  <1> DEFINE w == Replied(s, o, a)
  <1> DEFINE t == Wired(s, w)
  <1> DEFINE e == [type |-> a, id |-> o.id]
  <1>1. /\ s \in World /\ s.wire \in Seq(Answer) /\ OperationSound(o) /\ o.id \in 0 .. RequestIds
        /\ CoordinatorSound(s.c) /\ s.c \in Coordinator
    BY DEF Sound, World, MessagesSound, Operation
  <1>2. o.id # 0 /\ o.for \in Job \cup {Tester} /\ (o.type = "unload" => o.for = Tester) /\ o.id \in Id
    BY <1>1, Counts DEF OperationSound, Id
  <1>3. e \in Answer /\ e.type = a /\ e.id = o.id
    BY <1>2 DEF Answer, Possible
  <1>4. w = IF s.m.ready THEN Append(s.wire, e) ELSE s.wire
    BY DEF Replied
  <1> HIDE DEF e, w
  <1>5. w \in Seq(Answer) /\ ToSet(w) = ToSet(s.wire) \cup (IF s.m.ready THEN {e} ELSE {})
    <2>1. Append(s.wire, e) \in Seq(Answer) /\ ToSet(Append(s.wire, e)) = ToSet(s.wire) \cup {e}
      BY <1>1, <1>3, AppendMessage
    <2> QED BY <1>1, <1>4, <2>1
  <1>6. /\ t \in World /\ t.m = s.m /\ t.c = s.c /\ t.inbox = s.inbox /\ t.wire = w
        /\ t.job = s.job /\ t.leased = s.leased
    BY <1>1, <1>5 DEF World, Wired
  <1> HIDE DEF t
  <1>7. k.type = o.type /\ k.id = o.id /\ k.for = o.for /\ k.model = o.model
    BY DEF Stands
  <1>8. Works(t.inbox, k) \subseteq Works(s.inbox, o) /\ o \in Works(s.inbox, o)
    BY <1>6 DEF Works
  <1>9. MessagesSound(t.inbox, t.wire, k)
    <2>1. OperationSound(k)
      BY <1>2, <1>7 DEF OperationSound
    <2>2. \A q \in ToSet(t.inbox) : RequestSound(q, k)
      BY <1>6, <1>7 DEF Sound, MessagesSound, RequestSound
    <2>3. AnswerSound(e, t.inbox, k)
      BY <1>2, <1>3, <1>6 DEF Sound, MessagesSound, AnswerSound, RequestSound
    <2>4. \A b \in ToSet(s.wire) : AnswerSound(b, t.inbox, k)
      BY <1>6 DEF Sound, MessagesSound, AnswerSound
    <2> QED BY <1>5, <1>6, <2>1, <2>2, <2>3, <2>4 DEF Sound, MessagesSound
  <1>10. e.id = s.c.req.id => o.type = s.c.req.type /\ o.for = s.c.active /\ o.for \in Job
    BY <1>1, <1>2, <1>3, NamesAssumption DEF Sound, Belongs, Coordinator
  <1>11. Belongs(t.c, t.inbox, t.wire, k)
    <2>1. o.type # "capabilities"
      BY DEF Operation, RunsJob
    <2>2. e.id = s.c.req.id => /\ e.type # "unloaded"
                               /\ e.type = "loaded" => s.c.req.type = "load"
                               /\ e.type = "done" => s.c.req.type = "transcribe"
                               /\ e.type \notin {"capabilities", "unavailable"}
                               /\ s.c.req.type # "capabilities"
      BY <1>2, <1>3, <1>10, <2>1, NamesAssumption DEF Possible
    <2>3. \A b \in ToSet(t.wire) : b.id = s.c.req.id =>
              /\ b.type # "unloaded"
              /\ b.type = "loaded" => s.c.req.type = "load"
              /\ b.type = "done" => s.c.req.type = "transcribe"
              /\ (b.type \in {"capabilities", "unavailable"}) <=> (s.c.req.type = "capabilities")
      BY <1>5, <1>6, <2>2 DEF Sound, Belongs
    <2> QED BY <1>6, <1>7, <2>3 DEF Sound, Belongs
  <1>12. Calm(t.c, t.inbox, k)
    BY <1>6, <1>8 DEF Sound, Calm, JobFree
  <1>13. TestSound(t.m, t.c, t.inbox, k, ts)
    BY <1>6, <1>8 DEF Sound, TestSound
  <1>14. Remembered(t.c, t.inbox, t.wire, k, after)
    <2> SUFFICES ASSUME OneModelKept
                 PROVE  Remembered(t.c, t.inbox, t.wire, k, after)
      BY DEF Remembered, Kept
    <2>1. Kept(res) /\ ~CheckpointsMayFail
      BY DEF Kept, OneModelKept
    <2>2. /\ \A j \in Job : s.c.cache \in {None, ModelOf[j]}
          /\ s.c.cache # None => res = s.c.cache /\ \A r \in Works(s.inbox, o) : r.type \notin {"load", "unload"}
          /\ s.c.active # None /\ (s.c.next \/ s.c.req.type = "transcribe") => s.c.cache = ModelOf[s.c.active]
          /\ \A b \in ToSet(s.wire) : b.id = s.c.req.id /\ b.type = "loaded" => res = ModelOf[s.c.active]
          /\ \A r \in Works(s.inbox, o) : ForJob(r) => r.model = ModelOf[r.for]
      BY <2>1 DEF Sound, Remembered
    <2>3. s.c.cache # None => after = s.c.cache
      BY <1>8, <2>2 DEF Possible
    <2>4. ASSUME NEW b \in ToSet(s.wire), b.id = s.c.req.id PROVE after = res
      <3>1. s.m.ready
        BY NoMessage DEF Sound
      <3>2. b.id # 0 /\ b.id # o.id
        BY <1>1, AnswerHasId DEF Sound, MessagesSound, AnswerSound
      <3>3. s.c.active # None
        BY <1>1, <2>4, <3>2 DEF CoordinatorSound, LetGo, NoRequest
      <3>4. ~ForJob(o)
        BY <1>8, <2>1, <2>4, <3>2 DEF Sound, Calm
      <3>5. ~ForTester(o)
        <4>1. ts.phase = "idle"
          BY <3>3 DEF Sound, TestSound
        <4> QED BY <1>8, <3>1, <4>1 DEF Sound, TestSound
      <3>6. o.type \notin {"load", "unload"}
        BY <1>2, <3>4, <3>5 DEF ForJob, ForTester, RunsJob
      <3> QED BY <3>6 DEF Possible
    <2>5. e.id = s.c.req.id /\ e.type = "loaded" => after = ModelOf[s.c.active]
      BY <1>3, <1>8, <1>10, <2>2 DEF Possible, ForJob, RunsJob
    <2>6. \A b \in ToSet(t.wire) : b.id = s.c.req.id /\ b.type = "loaded" => after = ModelOf[s.c.active]
      BY <1>5, <1>6, <2>2, <2>4, <2>5
    <2> QED BY <1>6, <1>8, <2>2, <2>3, <2>6 DEF Remembered
  <1>15. Sound(t, k, after, ts)
    <2>1. FreshProcess(t.m, k)
      BY <1>6 DEF Sound, FreshProcess, NoOp
    <2>2. ~t.m.ready => t.wire = <<>>
      BY <1>4, <1>6 DEF Sound
    <2> QED BY <1>6, <1>9, <1>11, <1>12, <1>13, <1>14, <2>1, <2>2 DEF Sound
  <1>16. \A i : s.m.ready /\ Underway(i, s.inbox, s.wire, o) => Underway(i, t.inbox, t.wire, k)
    BY <1>3, <1>5, <1>6 DEF Underway
  <1>17. Waits(t, k)
    BY <1>6, <1>16 DEF Waits
  <1> QED BY <1>6, <1>15, <1>17 DEF t, w

LEMMA WorkerAnswersKeeps ==
    ASSUME IInv, ~over, WorkerAnswers
    PROVE  IInv'
  <1>1. /\ Sound(Here, op, resident, test) /\ Waits(Here, op) /\ Here \in World
        /\ Here.wire = wire /\ Here.m = manager
        /\ resident \in Model \cup {None} /\ op \in Operation
    BY LivelyHere, HereFields
  <1>2. PICK e \in Ends : /\ resident' = e.model
                          /\ wire' = IF manager.ready THEN Append(wire, [type |-> e.a, id |-> op.id]) ELSE wire
    BY DEF WorkerAnswers
  <1>3. /\ op.type # "none" /\ ~op.answered /\ op' = [op EXCEPT !.answered = TRUE]
        /\ UNCHANGED Desktop /\ inbox' = inbox
    BY DEF WorkerAnswers, Running
  <1>4. Possible(op, e.a, resident, e.model) /\ e.model \in Model \cup {None}
    <2>1. op.type \in {"load", "unload", "analyze", "transcribe"} /\ op.model \in Model \cup {None}
      BY <1>1, <1>3 DEF Operation, RunsJob
    <2>2. CASE op.type = "load"
      <3>1. e \in {[a |-> "loaded", model |-> op.model], [a |-> "error", model |-> None]}
        BY <2>2 DEF Ends
      <3> QED BY <2>1, <2>2, <3>1 DEF Possible
    <2>3. CASE op.type = "unload"
      <3>1. e = [a |-> "unloaded", model |-> None]
        BY <2>3 DEF Ends
      <3> QED BY <2>1, <2>3, <3>1 DEF Possible
    <2>4. CASE op.type = "analyze"
      <3>1. e.a \in {"analyzed", "error", "cancelled"} /\ e.model = resident
        BY <2>4 DEF Ends
      <3> QED BY <1>1, <2>4, <3>1 DEF Possible
    <2>5. CASE op.type = "transcribe"
      <3>1. e.a \in {"done", "error", "cancelled"} /\ e.model = resident
        BY <2>5 DEF Ends
      <3> QED BY <1>1, <2>5, <3>1 DEF Possible
    <2> QED BY <2>1, <2>2, <2>3, <2>4, <2>5
  <1> DEFINE k == op'
  <1>5. k \in Operation /\ Stands(k, op) /\ k.answered
    BY <1>1, <1>3 DEF Operation, Stands
  <1> HIDE DEF k
  <1> DEFINE a == e.a
  <1> DEFINE after == e.model
  <1> DEFINE w == Replied(Here, op, a)
  <1>6. wire' = w /\ resident' = after
    BY <1>1, <1>2 DEF Replied
  <1>41. Possible(op, a, resident, after) /\ after \in Model \cup {None}
    BY <1>4
  <1>31. op.type # "none" /\ ~op.answered
    BY <1>3
  <1> DEFINE d == Wired(Here, w)
  <1> HIDE DEF a, after
  <1>7. /\ Sound(d, k, after, test) /\ Waits(d, k) /\ d.m = Here.m /\ d.c = Here.c /\ d.inbox = Here.inbox
        /\ d.wire = w /\ d.job = Here.job /\ d.leased = Here.leased
    <2>1. Sound(Here, op, resident, test) /\ Waits(Here, op)
      BY <1>1
    <2>2. op \in Operation /\ op.type # "none" /\ ~op.answered
      BY <1>1, <1>31
    <2>3. Stands(k, op) /\ k.answered /\ Possible(op, a, resident, after)
      BY <1>5, <1>41
    <2>4. resident \in Model \cup {None} /\ after \in Model \cup {None}
      BY <1>1, <1>41
    <2> QED BY <2>1, <2>2, <2>3, <2>4, AnswerIsSound
  <1> HIDE DEF d, w
  <1>8. d \in World
    BY <1>7 DEF Sound
  <1>9. /\ inbox' = d.inbox /\ wire' = d.wire /\ d.job = job /\ d.leased = leased
        /\ Sound(d, op', resident', test) /\ Waits(d, op') /\ op' \in Operation
    BY <1>2, <1>3, <1>5, <1>6, <1>7, HereFields DEF k
  <1> QED BY <1>3, <1>6, <1>41, <1>7, <1>8, <1>9, WorkerStepKeeps

LEMMA WorkerFinishesKeeps ==
    ASSUME IInv, ~over, WorkerFinishes
    PROVE  IInv'
  <1>1. /\ Sound(Here, op, resident, test) /\ Waits(Here, op) /\ Here \in World
        /\ resident \in Model \cup {None} /\ op \in Operation /\ Here.wire \in Seq(Answer)
    BY LivelyHere DEF World
  <1>2. op.answered /\ op' = NoOp /\ UNCHANGED Desktop /\ inbox' = inbox /\ wire' = wire /\ resident' = resident
    BY DEF WorkerFinishes
  <1>3. Works(Here.inbox, NoOp) = Works(Here.inbox, op)
    BY <1>2 DEF Works, NoOp
  <1>4. MessagesSound(Here.inbox, Here.wire, NoOp)
    <2>1. OperationSound(NoOp)
      BY DEF OperationSound, NoOp
    <2>2. \A q \in ToSet(Here.inbox) : RequestSound(q, NoOp)
      BY <1>1 DEF Sound, MessagesSound, RequestSound, NoOp
    <2>3. \A a \in ToSet(Here.wire) : AnswerSound(a, Here.inbox, NoOp)
      BY <1>1, AnswerHasId DEF Sound, MessagesSound, AnswerSound, NoOp
    <2> QED BY <1>1, <2>1, <2>2, <2>3 DEF Sound, MessagesSound
  <1>5. Belongs(Here.c, Here.inbox, Here.wire, NoOp)
    BY <1>1 DEF Sound, Belongs, NoOp
  <1>6. /\ Calm(Here.c, Here.inbox, NoOp) /\ TestSound(Here.m, Here.c, Here.inbox, NoOp, test)
        /\ Remembered(Here.c, Here.inbox, Here.wire, NoOp, resident)
    BY <1>1, <1>3 DEF Sound, Calm, JobFree, TestSound, Remembered
  <1>7. Sound(Here, NoOp, resident, test)
    BY <1>1, <1>4, <1>5, <1>6 DEF Sound, FreshProcess
  <1>8. Waits(Here, NoOp)
    BY <1>1, <1>2 DEF Waits, Underway
  <1>9. NoOp \in Operation
    BY Counts DEF NoOp, Operation
  <1> QED BY <1>1, <1>2, <1>7, <1>8, <1>9, HereFields, WorkerStepKeeps

-----------------------------------------------------------------------------
(* The model test's steps.                                                  *)

LEMMA RetestIsSound ==
    ASSUME NEW s, NEW o, NEW res, NEW ts, NEW us, Sound(s, o, res, ts),
           us.phase # "idle" => s.c.active = None /\ s.c.cache = None,
           s.m.ready => \A r \in Works(s.inbox, o) : ~ForTester(r)
    PROVE  Sound(s, o, res, us)
  <1>1. TestSound(s.m, s.c, s.inbox, o, us)
    BY DEF TestSound
  <1> QED BY <1>1 DEF Sound

\* What a step of the model test finds.
LEMMA TestHere ==
    ASSUME IInv, ~over
    PROVE  /\ Sound(Here, op, resident, test) /\ Waits(Here, op) /\ Here \in World /\ Fenced(Here.m)
           /\ over \in BOOLEAN /\ test \in Test /\ TestShape(test)
           /\ op \in Operation /\ resident \in Model \cup {None}
           /\ test.model \in Model \cup {None}
           /\ test.phase # "idle" => Here.c.active = None /\ Here.c.cache = None
           /\ test.phase \notin {"loading", "transcribing", "unloading"} /\ Here.m.ready =>
                  \A r \in Works(Here.inbox, op) : ~ForTester(r)
           /\ Room => Roomy(Here)
  <1>1. /\ Sound(Here, op, resident, test) /\ Waits(Here, op) /\ Here \in World /\ Fenced(Here.m)
        /\ over \in BOOLEAN /\ test \in Test /\ TestShape(test)
        /\ op \in Operation /\ resident \in Model \cup {None} /\ (Room => Roomy(Here))
    BY LivelyHere DEF IInv, Frame
  <1>2. test.model \in Model \cup {None}
    BY <1>1 DEF Test
  <1> QED BY <1>1, <1>2 DEF Sound, TestSound

LEMMA StartTestKeeps ==
    ASSUME IInv, ~over, Room, NEW model \in Tested, StartTest(model)
    PROVE  IInv'
  <1> DEFINE s == [Here EXCEPT !.c.cache = None]
  <1> DEFINE i == FreshId(s)
  <1>1. /\ Sound(Here, op, resident, test) /\ Here \in World /\ Fenced(Here.m) /\ over \in BOOLEAN
        /\ op \in Operation /\ resident \in Model \cup {None} /\ Roomy(Here) /\ Here.m = manager
    BY TestHere, HereFields
  <1>2. /\ test.phase = "idle" /\ Here.c.active = None /\ model \in Model \cup {None}
        /\ op' = op /\ resident' = resident /\ over' = over
    BY HereFields, ModelAssumption DEF StartTest, WorkerReserved, Serving, TestOnly
  <1>3. \/ /\ manager.ready
           /\ Go(SendForTest(s, i, "load", model))
           /\ test' = [NoTest EXCEPT !.phase = "loading", !.model = model, !.id = i]
        \/ /\ ~manager.ready
           /\ \E x \in Ending :
                  LET t == [s EXCEPT !.m = Start(s.m, x.start)]
                  IN  /\ Go(t)
                      /\ test' = IF t.m.proc = "none" THEN NoTest
                                 ELSE [NoTest EXCEPT !.phase = "waiting", !.model = model]
    BY DEF StartTest
  <1>4. /\ Sound(s, op, resident, test) /\ s.m = Here.m /\ s.inbox = Here.inbox /\ s.wire = Here.wire
        /\ s.c.active = None /\ s.c.cache = None /\ s.c.req = Here.c.req
    BY <1>1, <1>2, ForgetIsSound
  <1> HIDE DEF s
  <1>5. Roomy(s)
    BY <1>1, <1>4, RoomStays
  <1>6. CASE /\ manager.ready
             /\ Go(SendForTest(s, i, "load", model))
             /\ test' = [NoTest EXCEPT !.phase = "loading", !.model = model, !.id = i]
    <2> DEFINE us == [NoTest EXCEPT !.phase = "loading", !.model = model, !.id = i]
    <2>1. us.id = i /\ us.phase = "loading"
      BY DEF NoTest
    <2> HIDE DEF us
    <2>2. LET u == SendForTest(s, i, "load", model)
          IN  /\ Sound(u, op, resident, us) /\ Waits(u, op) /\ u.m = s.m /\ i \in 0 .. RequestIds /\ i # 0
      BY <1>1, <1>2, <1>4, <1>5, <1>6, <2>1, TestSends
    <2> HIDE DEF i
    <2>3. NoTest \in Test /\ NoTest.attempts = 0
      BY NoTestTyped DEF NoTest
    <2>4. us \in Test /\ us.phase = "loading" /\ us.id = i /\ us.attempts = 0
      BY <1>2, <2>2, <2>3 DEF Test, us
    <2>5. TestShape(us)
      BY <2>2, <2>4 DEF TestShape
    <2> QED BY <1>1, <1>2, <1>4, <1>6, <2>2, <2>4, <2>5, StaysLively DEF us
  <1>7. ASSUME NEW x \in Ending, ~manager.ready, Go([s EXCEPT !.m = Start(s.m, x.start)]),
               test' \in {NoTest, [NoTest EXCEPT !.phase = "waiting", !.model = model]}
        PROVE  IInv'
    <2> DEFINE n == Start(s.m, x.start)
    <2> DEFINE t == [s EXCEPT !.m = n]
    <2>1. s.m \in Manager /\ ManagerSound(s.m) /\ x.start \in 0 .. Variants
      BY <1>4, EndingIsChoice, StartsVariant DEF Sound, World
    <2>2. /\ n \in Manager /\ ManagerSound(n) /\ (n.ready <=> s.m.ready) /\ n.forced = s.m.forced
          /\ n.proc \in {s.m.proc, "alive"} /\ (s.m.proc # "none" => n = s.m)
          /\ Fenceable(s.m) => Fenced(n)
      BY <2>1, StartedManager
    <2> HIDE DEF n
    <2>3. /\ Sound(t, op, resident, test)
          /\ t.m = n /\ t.c = s.c /\ t.inbox = s.inbox /\ t.wire = s.wire
      BY <1>4, <2>2, StartIsSound
    <2> HIDE DEF t
    <2>4. Sound(t, op, resident, test')
      BY <1>1, <1>4, <1>7, <2>2, <2>3, RetestIsSound
    <2>5. Fenced(t.m)
      BY <1>1, <1>4, <2>2, <2>3 DEF Fenced, Fenceable
    <2>6. Waits(t, op)
      BY <1>4, <2>3 DEF Waits
    <2>7. [NoTest EXCEPT !.phase = "waiting", !.model = model] \in Test
      BY <1>2, NoTestTyped DEF Test
    <2>8. TestShape([NoTest EXCEPT !.phase = "waiting", !.model = model])
      BY Counts DEF NoTest, TestShape
    <2>9. Go(t)
      BY <1>7 DEF t, n
    <2> QED BY <1>1, <1>2, <1>7, <2>4, <2>5, <2>6, <2>7, <2>8, <2>9, NoTestTyped, StaysLively
  <1> QED BY <1>3, <1>6, <1>7

LEMMA CancelTestKeeps ==
    ASSUME IInv, ~over, CancelTest
    PROVE  IInv'
  <1> DEFINE us == [test EXCEPT !.cancelled = TRUE]
  <1> DEFINE e == [type |-> "cancel", id |-> 0, for |-> Tester, model |-> None]
  <1>1. /\ Sound(Here, op, resident, test) /\ Here \in World /\ Fenced(Here.m) /\ over \in BOOLEAN
        /\ op \in Operation /\ resident \in Model \cup {None} /\ Here.m = manager
        /\ test \in Test /\ TestShape(test)
        /\ test.phase \notin {"loading", "transcribing", "unloading"} /\ Here.m.ready =>
               \A r \in Works(Here.inbox, op) : ~ForTester(r)
    BY TestHere, HereFields
  <1>2. /\ test.phase # "idle" /\ Here.c.active = None /\ Here.c.cache = None
        /\ op' = op /\ resident' = resident /\ over' = over
        /\ test' = IF test.phase = "waiting" THEN NoTest ELSE us
    BY TestHere DEF CancelTest, TestOnly
  <1>3. /\ test.phase = "transcribing" /\ manager.ready => Go(ForTest(Here, e))
        /\ ~(test.phase = "transcribing" /\ manager.ready) => Go(Here)
    BY DEF CancelTest, SendForTest, ForTest
  <1>4. us \in Test /\ us.phase = test.phase /\ us.id = test.id /\ TestShape(us)
    BY <1>1, <1>2 DEF Test, TestShape
  <1>5. ASSUME NEW s, Sound(s, op, resident, test)
        PROVE  Sound(s, op, resident, us)
    <2>1. TestSound(s.m, s.c, s.inbox, op, us)
      BY <1>4, <1>5 DEF Sound, TestSound
    <2> QED BY <1>5, <2>1 DEF Sound
  <1>6. CASE test.phase = "waiting"
    <2>1. Sound(Here, op, resident, NoTest)
      BY <1>1, <1>2, <1>6, RetestIsSound
    <2>2. Waits(Here, op)
      BY <1>2 DEF Waits
    <2> QED BY <1>1, <1>2, <1>3, <1>6, <2>1, <2>2, NoTestTyped, StaysLively
  <1>7. CASE test.phase # "waiting" /\ ~(test.phase = "transcribing" /\ manager.ready)
    <2>1. Sound(Here, op, resident, us) /\ Waits(Here, op)
      BY <1>1, <1>2, <1>5 DEF Waits
    <2> HIDE DEF us
    <2> QED BY <1>1, <1>2, <1>3, <1>4, <1>7, <2>1, StaysLively
  <1>8. CASE test.phase = "transcribing" /\ manager.ready
    <2> DEFINE t == ForTest(Here, e)
    <2>1. e \in Request /\ e.type = "cancel" /\ e.id = 0
      BY Counts DEF Request
    <2> HIDE DEF e
    <2>2. Append(Here.inbox, e) \in Seq(Request)
      BY <1>1, <2>1 DEF World
    <2>3. t \in World /\ t.m = Here.m /\ t.c = Here.c /\ t.wire = Here.wire /\ t.inbox = Append(Here.inbox, e)
      BY <1>1, <2>2 DEF World, ForTest
    <2> HIDE DEF t
    <2>4. ManagerSound(t.m) /\ Unforced(t.m, t.c)
      BY <1>1, <2>3 DEF Sound
    <2>5. Sound(t, op, resident, test)
      BY <1>1, <1>8, <2>1, <2>3, <2>4, CancelIsSound
    <2>6. Sound(t, op, resident, us) /\ Waits(t, op)
      BY <1>2, <1>5, <2>3, <2>5 DEF Waits
    <2>7. Go(t) /\ test' = us
      BY <1>2, <1>3, <1>8 DEF t
    <2> HIDE DEF us
    <2> QED BY <1>1, <1>2, <1>4, <2>3, <2>6, <2>7, StaysLively
  <1> QED BY <1>6, <1>7, <1>8

\* After an abort the worker is out of reach, and with it what it had of the test.
LEMMA AbortDisconnects ==
    ASSUME NEW s, NEW o, NEW res, NEW ts, NEW x, Sound(s, o, res, ts), x \in Choice
    PROVE  ~AbortImmediately(s, x).m.ready
  <1> DEFINE d == Disconnect(s)
  <1>1. s \in World /\ ManagerSound(s.m)
    BY DEF Sound
  <1>2. CASE s.m.proc = "none"
    <2>1. /\ d \in World /\ ManagerSound(d.m) /\ d.c = s.c /\ d.inbox = <<>> /\ d.wire = <<>>
          /\ ~d.m.ready /\ d.m.proc = "none" /\ d.m.forced = s.m.forced
      BY <1>1, <1>2, DisconnectFields
    <2> HIDE DEF d
    <2>2. o = NoOp
      BY <1>2 DEF Sound, FreshProcess
    <2>3. Sound(d, o, res, ts)
      BY <2>1, <2>2, CutIsSound DEF FreshProcess
    <2>4. JobFree(d.inbox, o)
      BY <2>1, <2>2, WorksOfNothing
    <2>5. SettleForcedCancellation(d, x).m.ready = d.m.ready
      BY <2>3, <2>4, SettleIsHandled
    <2> QED BY <1>2, <2>1, <2>5 DEF AbortImmediately, d
  <1>3. CASE s.m.proc # "none"
    <2> HIDE DEF d
    <2>1. ~Kill(Disconnect(s)).m.ready
      BY <1>1, CutFields
    <2> QED BY <1>3, <2>1 DEF AbortImmediately
  <1> QED BY <1>2, <1>3

\* Without a test, what is left of it in the worker must be out of reach.
LEMMA AbortKeeps ==
    ASSUME IInv, ~over, NEW s, Sound(s, op, resident, test), s.m = Here.m, s.c.active = None,
           AbortLoadedWorker(s), TestOnly
    PROVE  IInv'
  <1>1. PICK x \in Ending : Go(AbortImmediately(s, x))
    BY DEF AbortLoadedWorker
  <1>2. /\ x \in Choice /\ test' = NoTest /\ op' = op /\ resident' = resident /\ over' = over
    BY EndingIsChoice DEF AbortLoadedWorker, TestFails, TestOnly
  <1>3. Waits(s, op)
    BY DEF Waits
  <1> DEFINE t == AbortImmediately(s, x)
  <1>4. Handled(s, t, op, resident, test) /\ ~t.m.ready
    BY <1>2, <1>3, AbortIsHandled, AbortDisconnects
  <1> HIDE DEF t
  <1>5. Sound(t, op, resident, NoTest)
    BY <1>4, TestGone DEF Handled
  <1>6. Waits(t, op) /\ Fenced(t.m)
    BY <1>4, TestHere DEF Handled, ManagerKept
  <1>7. Go(t)
    BY <1>1 DEF t
  <1> QED BY <1>2, <1>5, <1>6, <1>7, TestHere, NoTestTyped, StaysLively

LEMMA TestTimeoutKeeps ==
    ASSUME IInv, ~over, TestTimeout
    PROVE  IInv'
  <1>1. Sound(Here, op, resident, test) /\ Here.c.active = None
    BY TestHere DEF TestTimeout
  <1>2. AbortLoadedWorker(Here) /\ TestOnly
    BY DEF TestTimeout
  <1> QED BY <1>1, <1>2, AbortKeeps

\* The desktop stays as it is, but for the test.
LEMMA TestFailsKeeps ==
    ASSUME IInv, ~over, Go(Here), TestFails, TestOnly, test.phase # "idle", ~Here.m.ready
    PROVE  IInv'
  <1>1. /\ Sound(Here, op, resident, test) /\ Waits(Here, op) /\ Fenced(Here.m)
        /\ op \in Operation /\ resident \in Model \cup {None} /\ over \in BOOLEAN
    BY TestHere
  <1>2. /\ test' = NoTest /\ op' = op /\ resident' = resident /\ over' = over
    BY DEF TestFails, TestOnly
  <1>3. Sound(Here, op, resident, NoTest)
    BY <1>1, TestGone
  <1> QED BY <1>1, <1>2, <1>3, NoTestTyped, StaysLively

LEMMA TestTranscribesKeeps ==
    ASSUME IInv, ~over, Room, TestTranscribes
    PROVE  IInv'
  <1> DEFINE i == FreshId(Here)
  <1> DEFINE us == [test EXCEPT !.phase = "transcribing", !.id = i]
  <1>1. /\ Sound(Here, op, resident, test) /\ Here \in World /\ Fenced(Here.m) /\ over \in BOOLEAN
        /\ op \in Operation /\ resident \in Model \cup {None} /\ Roomy(Here) /\ Here.m = manager
        /\ test \in Test /\ TestShape(test) /\ test.model \in Model \cup {None}
    BY TestHere, HereFields
  <1>2. /\ test.phase = "loaded" /\ Here.c.active = None /\ Here.c.cache = None /\ TestOnly
        /\ op' = op /\ resident' = resident /\ over' = over
    BY TestHere DEF TestTranscribes, TestOnly
  <1>3. /\ manager.ready => Go(SendForTest(Here, i, "transcribe", test.model)) /\ test' = us
        /\ ~manager.ready => Go(Here) /\ TestFails
    BY DEF TestTranscribes
  <1>4. CASE manager.ready
    <2>1. us.id = i /\ us.phase = "transcribing"
      BY <1>1 DEF Test
    <2> HIDE DEF us
    <2>2. LET u == SendForTest(Here, i, "transcribe", test.model)
          IN  /\ Sound(u, op, resident, us) /\ Waits(u, op) /\ u.m = Here.m /\ i \in 0 .. RequestIds /\ i # 0
      BY <1>1, <1>2, <1>4, <2>1, TestSends
    <2> HIDE DEF i
    <2>3. us \in Test /\ TestShape(us)
      BY <1>1, <1>2, <2>2 DEF Test, TestShape, us
    <2> QED BY <1>1, <1>2, <1>3, <1>4, <2>2, <2>3, StaysLively
  <1>5. CASE ~manager.ready
    BY <1>1, <1>2, <1>3, <1>5, TestFailsKeeps
  <1> QED BY <1>4, <1>5

LEMMA TestUnloadsKeeps ==
    ASSUME IInv, ~over, Room, TestUnloads
    PROVE  IInv'
  <1> DEFINE i == FreshId(Here)
  <1> DEFINE us == [test EXCEPT !.phase = "unloading", !.id = i, !.attempts = @ + 1]
  <1>1. /\ Sound(Here, op, resident, test) /\ Here \in World /\ Fenced(Here.m) /\ over \in BOOLEAN
        /\ op \in Operation /\ resident \in Model \cup {None} /\ Roomy(Here) /\ Here.m = manager
        /\ test \in Test /\ TestShape(test)
    BY TestHere, HereFields
  <1>2. /\ test.phase = "unloadDue" /\ Here.c.active = None /\ Here.c.cache = None /\ TestOnly
        /\ op' = op /\ resident' = resident /\ over' = over
    BY TestHere DEF TestUnloads, TestOnly
  <1>3. test.loaded /\ test.attempts < MaximumUnloads
    BY <1>1, <1>2 DEF TestShape
  <1>4. /\ manager.ready => Go(SendForTest(Here, i, "unload", None)) /\ test' = us
        /\ ~manager.ready => Go(Here) /\ TestFails
    BY <1>3 DEF TestUnloads
  <1>5. CASE manager.ready
    <2>1. us.id = i /\ us.phase = "unloading"
      BY <1>1 DEF Test
    <2> HIDE DEF us
    <2>2. LET u == SendForTest(Here, i, "unload", None)
          IN  /\ Sound(u, op, resident, us) /\ Waits(u, op) /\ u.m = Here.m /\ i \in 0 .. RequestIds /\ i # 0
      BY <1>1, <1>2, <1>5, <2>1, TestSends
    <2> HIDE DEF i
    <2>3. test.attempts + 1 \in 0 .. MaximumUnloads
      BY <1>1, <1>3, Counts DEF Test
    <2>4. us \in Test /\ TestShape(us)
      BY <1>1, <1>2, <1>3, <2>2, <2>3 DEF Test, TestShape, us
    <2> QED BY <1>1, <1>2, <1>4, <1>5, <2>2, <2>4, StaysLively
  <1>6. CASE ~manager.ready
    BY <1>1, <1>2, <1>4, <1>6, TestFailsKeeps
  <1> QED BY <1>5, <1>6

\* The answer to the test's request is the last the worker had of it.
LEMMA TestAnswered ==
    ASSUME NEW s, NEW o, NEW res, NEW ts, Sound(s, o, res, ts), s.wire # <<>>, Head(s.wire).id = ts.id
    PROVE  s.m.ready => \A r \in Works(s.inbox, o) : ~ForTester(r)
  <1>1. s.wire \in Seq(Answer) /\ Head(s.wire) \in ToSet(s.wire)
    <2>1. s.wire \in Seq(Answer)
      BY DEF Sound, World
    <2> QED BY <2>1, FirstMessage
  <1>2. AnswerSound(Head(s.wire), s.inbox, o)
    BY <1>1 DEF Sound, MessagesSound
  <1>3. \A r \in Works(s.inbox, o) : r.id # ts.id
    BY <1>2 DEF AnswerSound, Works
  <1> QED BY <1>3 DEF Sound, TestSound

LEMMA AnswerKeeps ==
    ASSUME IInv, ~over, NEW s, Sound(s, op, resident, test), s.m = Here.m, s.c = Here.c,
           s.m.ready => \A r \in Works(s.inbox, op) : ~ForTester(r),
           test.phase # "idle", Go(s), TestOnly, test' \in Test, TestShape(test')
    PROVE  IInv'
  <1>1. /\ op \in Operation /\ resident \in Model \cup {None} /\ over \in BOOLEAN /\ Fenced(s.m)
        /\ s.c.active = None /\ s.c.cache = None
    BY TestHere
  <1>2. op' = op /\ resident' = resident /\ over' = over
    BY DEF TestOnly
  <1> DEFINE us == test'
  <1>3. us \in Test /\ TestShape(us) /\ test' = us
    OBVIOUS
  <1> HIDE DEF us
  <1>4. Sound(s, op, resident, us) /\ Waits(s, op)
    BY <1>1, RetestIsSound DEF Waits
  <1> QED BY <1>1, <1>2, <1>3, <1>4, StaysLively

LEMMA ReadTestAnswerKeeps ==
    ASSUME IInv, ~over, ReadTestAnswer
    PROVE  IInv'
  <1> DEFINE a == Head(wire).type
  <1> DEFINE s == Popped(Here)
  <1> DEFINE unload == [test EXCEPT !.phase = "unloadDue"]
  <1>1. /\ Sound(Here, op, resident, test) /\ Here \in World /\ over \in BOOLEAN
        /\ test \in Test /\ TestShape(test) /\ Here.wire = wire /\ Here.m = manager
    BY TestHere, HereFields
  <1>2. manager.ready /\ wire # <<>> /\ Head(wire).id = test.id /\ TestOnly
    BY DEF ReadTestAnswer
  <1>3. \/ /\ a = "error" /\ test.phase = "unloading" /\ test.attempts >= MaximumUnloads
           /\ AbortLoadedWorker(s)
        \/ /\ a = "error" /\ (test.phase = "unloading" => test.attempts < MaximumUnloads)
           /\ Go(s)
           /\ test' = IF test.loaded THEN unload ELSE NoTest
        \/ /\ a = "loaded" /\ test.phase = "loading"
           /\ Go(s)
           /\ test' = [test EXCEPT !.loaded = TRUE,
                                   !.phase = IF test.cancelled THEN "unloadDue" ELSE "loaded"]
        \/ /\ a \in {"done", "cancelled"} /\ test.phase = "transcribing"
           /\ Go(s) /\ test' = [unload EXCEPT !.cancelled = @ \/ a = "cancelled"]
        \/ /\ a = "unloaded" /\ test.phase = "unloading"
           /\ Go(s) /\ test' = NoTest
    BY DEF ReadTestAnswer, Popped
  <1>4. /\ Sound(s, op, resident, test) /\ s.m = Here.m /\ s.c = Here.c /\ s.inbox = Here.inbox
        /\ Head(wire).id # 0
    BY <1>1, <1>2, PoppedIsSound
  <1> HIDE DEF s
  <1>5. test.phase \notin {"idle", "waiting"} /\ s.c.active = None
    BY <1>1, <1>2, <1>4, TestHere DEF TestShape
  <1>6. s.m.ready => \A r \in Works(s.inbox, op) : ~ForTester(r)
    BY <1>1, <1>2, <1>4, TestAnswered
  <1>7. CASE a = "error" /\ test.phase = "unloading" /\ AbortLoadedWorker(s)
    BY <1>2, <1>4, <1>5, <1>7, AbortKeeps
  <1>8. ASSUME Go(s), test' \in Test, TestShape(test')
        PROVE  IInv'
    BY <1>2, <1>4, <1>5, <1>6, <1>8, AnswerKeeps
  <1>9. unload \in Test /\ unload.phase = "unloadDue" /\ unload.id = test.id
        /\ unload.loaded = test.loaded /\ unload.attempts = test.attempts
    BY <1>1 DEF Test
  <1>10. test.id # 0
    BY <1>2, <1>4
  <1>11. CASE /\ a = "error" /\ (test.phase = "unloading" => test.attempts < MaximumUnloads)
              /\ Go(s)
              /\ test' = IF test.loaded THEN unload ELSE NoTest
    <2>1. test.attempts < MaximumUnloads
      BY <1>1, <1>5, <1>11, Counts DEF Test, TestShape
    <2>2. test.loaded => TestShape(unload)
      BY <1>9, <1>10, <2>1 DEF TestShape
    <2> HIDE DEF unload
    <2> QED BY <1>8, <1>9, <1>11, <2>2, NoTestTyped
  <1>12. CASE /\ test.phase = "loading" /\ Go(s)
              /\ test' = [test EXCEPT !.loaded = TRUE,
                                      !.phase = IF test.cancelled THEN "unloadDue" ELSE "loaded"]
    <2>1. test.attempts = 0
      BY <1>1, <1>12 DEF TestShape
    <2>2. /\ test' \in Test /\ test'.phase \in {"unloadDue", "loaded"} /\ test'.id = test.id
          /\ test'.loaded /\ test'.attempts = 0
      BY <1>1, <1>12, <2>1 DEF Test
    <2>3. TestShape(test')
      BY <1>10, <2>2, Counts DEF TestShape
    <2> QED BY <1>8, <1>12, <2>2, <2>3
  <1>13. CASE /\ test.phase = "transcribing" /\ Go(s)
              /\ test' = [unload EXCEPT !.cancelled = @ \/ a = "cancelled"]
    <2>1. test.attempts = 0 /\ test.loaded
      BY <1>1, <1>13 DEF TestShape
    <2> HIDE DEF unload
    <2>2. /\ test' \in Test /\ test'.phase = "unloadDue" /\ test'.id = test.id
          /\ test'.loaded = test.loaded /\ test'.attempts = 0
      BY <1>9, <1>13, <2>1 DEF Test
    <2>3. TestShape(test')
      BY <1>10, <2>1, <2>2, Counts DEF TestShape
    <2> QED BY <1>8, <1>13, <2>2, <2>3
  <1>14. CASE Go(s) /\ test' = NoTest
    BY <1>8, <1>14, NoTestTyped
  <1> HIDE DEF a, unload
  <1> QED BY <1>3, <1>7, <1>11, <1>12, <1>13, <1>14

-----------------------------------------------------------------------------
(* Start and end of the application.                                        *)

LEMMA StaysLeft ==
    ASSUME NEW d, Go(d), over' \in BOOLEAN, over', ~d.m.ready, test' = NoTest,
           op' = NoOp => Sound(d, NoOp, Nothing, NoTest),
           op' # NoOp => Sound(d, op', resident', NoTest),
           op' \in Operation, resident' \in Model \cup {None}
    PROVE  IInv'
  <1>1. d \in World
    BY DEF Sound
  <1>2. Here' = d /\ manager' = d.m
    BY <1>1, GoesHere
  <1>3. Left'
    BY <1>2 DEF Left, Held
  <1> QED BY <1>3, NoTestTyped DEF IInv, Frame

LEMMA NoOpTyped == NoOp \in Operation
  BY Counts DEF NoOp, Operation

\* What stop() leaves of the manager, with the process as it is in the end.
Stopped(s, p) == [s EXCEPT !.m = [s.m EXCEPT !.proc = p, !.ready = FALSE, !.timers = {}, !.restarts = 0],
                           !.inbox = <<>>, !.wire = <<>>]
LEMMA StoppedFields ==
    ASSUME NEW s, NEW p, s \in World, p \in {"none", "alive", "dying"}
    PROVE  LET t == Stopped(s, p)
           IN  /\ t \in World /\ t.c = s.c /\ t.inbox = <<>> /\ t.wire = <<>> /\ ~t.m.ready
               /\ t.m.proc = p /\ t.m.forced = s.m.forced /\ ManagerSound(t.m)
  <1> DEFINE n == [s.m EXCEPT !.proc = p, !.ready = FALSE, !.timers = {}, !.restarts = 0]
  <1> DEFINE t == Stopped(s, p)
  <1>1. {} \in SUBSET Timer /\ 0 \in 0 .. 2 * MaximumRestarts /\ s.m \in Manager
    BY Counts DEF World
  <1>2. /\ n \in Manager /\ n.proc = p /\ ~n.ready /\ n.timers = {} /\ n.restarts = 0
        /\ n.forced = s.m.forced /\ n.spent = s.m.spent
    BY <1>1 DEF Manager
  <1>3. n.spent \in Nat
    BY <1>1, <1>2, Counts DEF Manager
  <1>4. t = [s EXCEPT !.m = n, !.inbox = <<>>, !.wire = <<>>]
    BY DEF Stopped
  <1> HIDE DEF n, t
  <1>5. t \in World /\ t.m = n /\ t.c = s.c /\ t.inbox = <<>> /\ t.wire = <<>>
    <2>1. <<>> \in Seq(Request) /\ <<>> \in Seq(Answer) /\ n \in Manager
      BY <1>2
    <2> QED BY <1>4, <2>1 DEF World
  <1>6. ManagerSound(n)
    BY <1>2, <1>3, Counts DEF ManagerSound
  <1> QED BY <1>2, <1>5, <1>6 DEF t

LEMMA StopIsStopped ==
    ASSUME NEW s, s \in World
    PROVE  LET t == Disconnect([s EXCEPT !.m.timers = {}, !.m.restarts = 0])
           IN  /\ [t EXCEPT !.m.proc = "none"] = Stopped(s, "none")
               /\ Kill(t) = Stopped(s, IF s.m.proc = "none" THEN "none" ELSE "dying")
  <1> DEFINE a == [s EXCEPT !.m.timers = {}, !.m.restarts = 0]
  <1> DEFINE n == [s.m EXCEPT !.timers = {}, !.restarts = 0]
  <1> DEFINE t == Disconnect(a)
  <1>1. s.m \in Manager
    BY DEF World
  <1>2. a = [s EXCEPT !.m = n] /\ a.m = n /\ n.proc = s.m.proc /\ n.timers = {}
    BY <1>1 DEF World, Manager
  <1> DEFINE k == [s.m EXCEPT !.ready = FALSE, !.timers = {}, !.restarts = 0]
  <1>3. [n EXCEPT !.ready = FALSE, !.timers = @ \ {"grace"}] = k
    BY <1>1 DEF Manager
  <1> HIDE DEF n
  <1>4. t = [s EXCEPT !.m = k, !.inbox = <<>>, !.wire = <<>>]
    <2> HIDE DEF k, a
    <2>1. t = [a EXCEPT !.m = [n EXCEPT !.ready = FALSE, !.timers = @ \ {"grace"}], !.inbox = <<>>, !.wire = <<>>]
      BY <1>2 DEF Disconnect, World
    <2> QED BY <1>2, <1>3, <2>1 DEF World
  <1> HIDE DEF a, t
  <1>5. k.proc = s.m.proc
    BY <1>1 DEF Manager
  <1>6. \A p : [k EXCEPT !.proc = p] = [s.m EXCEPT !.proc = p, !.ready = FALSE, !.timers = {}, !.restarts = 0]
    BY <1>1 DEF Manager
  <1> HIDE DEF k
  <1>7. \A p : [t EXCEPT !.m.proc = p] = Stopped(s, p)
    BY <1>4, <1>6 DEF Stopped, World
  <1>8. t.m.proc = s.m.proc
    BY <1>4, <1>5 DEF World
  <1>9. Kill(t) = [t EXCEPT !.m.proc = IF s.m.proc = "none" THEN "none" ELSE "dying"]
    BY <1>8 DEF Kill
  <1> QED BY <1>7, <1>9 DEF t, a

LEMMA QuitKeeps ==
    ASSUME IInv, ~over, Quit
    PROVE  IInv'
  <1>1. /\ Sound(Here, op, resident, test) /\ Here \in World /\ Here.m = manager
        /\ op \in Operation /\ resident \in Model \cup {None}
    BY LivelyHere, HereFields
  <1>2. PICK x \in Ending, gone \in BOOLEAN :
            LET s == Shutdown(Here, x)
                t == Disconnect([s EXCEPT !.m.timers = {}, !.m.restarts = 0])
            IN  IF gone \/ manager.proc = "none"
                THEN /\ Go(SettleForcedCancellation([t EXCEPT !.m.proc = "none"], x))
                     /\ op' = NoOp /\ resident' = None
                ELSE Go(Kill(t)) /\ UNCHANGED <<op, resident>>
    BY DEF Quit
  <1> DEFINE s == Shutdown(Here, x)
  <1> DEFINE t == Disconnect([s EXCEPT !.m.timers = {}, !.m.restarts = 0])
  <1> DEFINE p == IF s.m.proc = "none" THEN "none" ELSE "dying"
  <1>3. test' = NoTest /\ over' /\ over' \in BOOLEAN /\ x \in Choice
    BY EndingIsChoice DEF Quit
  <1>4. Sound(s, op, resident, test)
    BY <1>1, <1>3, ShutdownIsSound
  <1>5. \/ /\ Go(SettleForcedCancellation([t EXCEPT !.m.proc = "none"], x))
           /\ op' = NoOp /\ resident' = None
        \/ Go(Kill(t)) /\ op' = op /\ resident' = resident
    BY <1>2
  <1> HIDE DEF s
  <1>6. s \in World
    BY <1>4 DEF Sound
  <1>7. [t EXCEPT !.m.proc = "none"] = Stopped(s, "none") /\ Kill(t) = Stopped(s, p)
    BY <1>6, StopIsStopped
  <1> HIDE DEF t
  <1>8. CASE /\ Go(SettleForcedCancellation([t EXCEPT !.m.proc = "none"], x))
             /\ op' = NoOp /\ resident' = None
    <2> DEFINE q == "none"
    <2> DEFINE k == Stopped(s, q)
    <2> DEFINE u == SettleForcedCancellation(k, x)
    <2>1. q \in {"none", "alive", "dying"} /\ q = "none"
      OBVIOUS
    <2>2. Go(u)
      BY <1>7, <1>8
    <2> HIDE DEF q
    <2>3. /\ k \in World /\ k.c = s.c /\ k.inbox = <<>> /\ k.wire = <<>> /\ ~k.m.ready
          /\ k.m.forced = s.m.forced /\ ManagerSound(k.m)
      BY <1>6, <2>1, StoppedFields
    <2> HIDE DEF k
    <2>4. Sound(s, op, Nothing, test)
      BY <1>4, HeldNothing
    <2>5. Sound(k, NoOp, Nothing, test)
      BY <2>3, <2>4, CutIsSound DEF FreshProcess
    <2>6. JobFree(k.inbox, NoOp)
      BY <2>3, WorksOfNothing
    <2>7. Sound(u, NoOp, Nothing, test) /\ u.m.ready = k.m.ready
      BY <1>3, <2>5, <2>6, SettleIsHandled
    <2> HIDE DEF u
    <2>8. Sound(u, NoOp, Nothing, NoTest)
      BY <2>3, <2>7, TestGone
    <2> QED BY <1>3, <1>8, <2>2, <2>3, <2>7, <2>8, NoOpTyped, StaysLeft
  <1>9. CASE Go(Kill(t)) /\ op' = op /\ resident' = resident
    <2> DEFINE u == Stopped(s, p)
    <2>1. p \in {"none", "alive", "dying"} /\ (p = "none" => op = NoOp) /\ p # "alive"
      BY <1>4 DEF Sound, FreshProcess
    <2> HIDE DEF p
    <2>2. Go(u)
      BY <1>7, <1>9
    <2>3. /\ u \in World /\ u.c = s.c /\ u.inbox = <<>> /\ u.wire = <<>> /\ ~u.m.ready
          /\ u.m.forced = s.m.forced /\ ManagerSound(u.m) /\ u.m.proc = p
      BY <1>6, <2>1, StoppedFields
    <2> HIDE DEF u
    <2>4. FreshProcess(u.m, op)
      BY <2>1, <2>3 DEF FreshProcess
    <2>5. Sound(u, op, resident, test)
      BY <1>4, <2>3, <2>4, CutIsSound
    <2>6. Sound(u, op, resident, NoTest)
      BY <2>3, <2>5, TestGone
    <2>7. Sound(u, op, Nothing, NoTest)
      BY <2>6, HeldNothing
    <2> QED BY <1>1, <1>3, <1>9, <2>2, <2>3, <2>6, <2>7, StaysLeft
  <1> QED BY <1>5, <1>8, <1>9

LEMMA OrphanExitsKeeps ==
    ASSUME IInv, OrphanExits
    PROVE  IInv'
  <1>1. /\ over /\ over \in BOOLEAN /\ Sound(Here, op, Held, test) /\ ~manager.ready /\ test = NoTest
        /\ Here.m = manager
    BY HereFields DEF OrphanExits, IInv, Frame, Left
  <1>2. over' = over /\ test' = test /\ op' = NoOp /\ resident' = None
    BY DEF OrphanExits
  <1> DEFINE n == [manager EXCEPT !.proc = "none"]
  <1> DEFINE t == [Here EXCEPT !.m.proc = "none"]
  <1>3. /\ Here \in World /\ manager \in Manager /\ ManagerSound(manager)
        /\ Here.inbox = <<>> /\ Here.wire = <<>>
    BY <1>1 DEF Sound, World
  <1>4. /\ n \in Manager /\ n.proc = "none" /\ (n.ready <=> manager.ready) /\ n.timers = manager.timers
        /\ n.restarts = manager.restarts /\ n.spent = manager.spent /\ n.forced = manager.forced
    BY <1>3 DEF Manager
  <1>5. t \in World /\ t.m = n /\ t.c = Here.c /\ t.inbox = <<>> /\ t.wire = <<>>
    BY <1>1, <1>3, <1>4 DEF World
  <1>6. Go(t)
    BY DEF OrphanExits
  <1> HIDE DEF n, t
  <1>7. ManagerSound(n)
    BY <1>1, <1>3, <1>4 DEF ManagerSound
  <1>8. Sound(Here, op, Nothing, NoTest)
    BY <1>1, HeldNothing
  <1>9. Sound(t, NoOp, Nothing, NoTest)
    BY <1>1, <1>4, <1>5, <1>7, <1>8, CutIsSound DEF FreshProcess
  <1> QED BY <1>1, <1>2, <1>4, <1>5, <1>6, <1>9, NoOpTyped, StaysLeft

LEMMA FreshManagerSound == FreshManager \in Manager /\ ManagerSound(FreshManager)
  <1>1. /\ {} \in SUBSET Variant /\ {} \in SUBSET Timer /\ 0 \in 0 .. Variants /\ 0 \in 0 .. MaximumRestarts
        /\ 0 \in 0 .. 2 * MaximumRestarts /\ 0 \in 0 .. RequestIds
    BY Counts
  <1>2. FreshManager \in Manager
    BY <1>1 DEF FreshManager, Manager
  <1>3. ManagerSound(FreshManager)
    BY Counts DEF FreshManager, ManagerSound
  <1> QED BY <1>2, <1>3

\* The application has just been started.
LEMMA LaunchedIsSound ==
    ASSUME NEW s, NEW v, NEW res, v \in 0 .. Variants, s.job \in [Job -> JobState],
           s = [job |-> s.job, leased |-> FALSE, m |-> Start(FreshManager, v), c |-> Vacant,
                inbox |-> <<>>, wire |-> <<>>]
    PROVE  Sound(s, NoOp, res, NoTest) /\ Waits(s, NoOp) /\ Fenced(s.m)
  <1> DEFINE n == Start(FreshManager, v)
  <1>1. /\ n \in Manager /\ ManagerSound(n) /\ ~n.ready /\ n.forced = 0
    BY FreshManagerSound, StartedManager DEF FreshManager
  <1>2. /\ s.leased = FALSE /\ s.m = n /\ s.c = Vacant /\ s.inbox = <<>> /\ s.wire = <<>>
    OBVIOUS
  <1> HIDE DEF n
  <1>3. Vacant \in Coordinator
    <2>1. NoRequest \in [id : 0 .. RequestIds, type : RunsJob \cup {"none", "capabilities"}]
      BY Counts DEF NoRequest
    <2>2. {} \in SUBSET (Cause \ {"abandon"}) /\ "none" \in Cause \cup {"none"}
      OBVIOUS
    <2> QED BY <2>1, <2>2 DEF Vacant, Coordinator
  <1>4. s \in World
    <2>1. <<>> \in Seq(Request) /\ <<>> \in Seq(Answer)
      OBVIOUS
    <2> QED BY <1>1, <1>2, <1>3, <2>1 DEF World
  <1>5. LetGo(Vacant) /\ Vacant.cache = None
    BY DEF LetGo, Vacant
  <1>6. CoordinatorSound(Vacant)
    BY <1>5 DEF CoordinatorSound, LetGo, Occupied, NoRequest
  <1>7. MessagesSound(<<>>, <<>>, NoOp)
    BY NoMessage DEF MessagesSound, Distinct, OperationSound, NoOp
  <1>8. Belongs(Vacant, <<>>, <<>>, NoOp)
    BY NoMessage DEF Belongs, NoOp
  <1>9. Works(<<>>, NoOp) = {}
    BY WorksOfNothing
  <1>10. /\ Calm(Vacant, <<>>, NoOp) /\ TestSound(n, Vacant, <<>>, NoOp, NoTest)
         /\ Remembered(Vacant, <<>>, <<>>, NoOp, res)
    BY <1>5, <1>9, NoMessage DEF Calm, LetGo, TestSound, NoTest, Remembered, JobFree
  <1>11. Unforced(n, Vacant)
    BY <1>5 DEF Unforced, LetGo, NoRequest
  <1>12. Sound(s, NoOp, res, NoTest)
    BY <1>1, <1>2, <1>4, <1>6, <1>7, <1>8, <1>10, <1>11 DEF Sound, FreshProcess
  <1>13. Waits(s, NoOp)
    BY <1>2, <1>5 DEF Waits, LetGo
  <1> QED BY <1>1, <1>2, <1>12, <1>13 DEF Fenced

LEMMA RelaunchKeeps ==
    ASSUME IInv, Relaunch
    PROVE  IInv'
  <1>1. /\ Sound(Here, op, Held, test) /\ test = NoTest /\ resident \in Model \cup {None}
        /\ Here.m = manager /\ Here.job = job
    BY HereFields DEF Relaunch, IInv, Frame, Left
  <1>2. PICK v \in 0 .. Variants :
            Go([job |-> [j \in Job |-> Recovered(j)], leased |-> FALSE,
                m |-> Start(FreshManager, v), c |-> Vacant, inbox |-> <<>>, wire |-> <<>>])
    BY DEF Relaunch
  <1>3. /\ op' = op /\ resident' = resident /\ test' = NoTest /\ ~over' /\ over' \in BOOLEAN
        /\ manager.proc = "none"
    BY <1>1 DEF Relaunch
  <1>4. op = NoOp
    BY <1>1, <1>3 DEF Sound, FreshProcess
  <1> DEFINE f == [j \in Job |-> Recovered(j)]
  <1>5. f \in [Job -> JobState]
    <2>1. job \in [Job -> JobState]
      BY <1>1 DEF Sound, World
    <2>2. \A j \in Job : Recovered(j) \in JobState
      BY <2>1 DEF Recovered, JobState
    <2> QED BY <2>2
  <1> HIDE DEF f
  <1> DEFINE s == [job |-> f, leased |-> FALSE, m |-> Start(FreshManager, v), c |-> Vacant,
                   inbox |-> <<>>, wire |-> <<>>]
  <1>6. s.job = f /\ Go(s)
    BY <1>2 DEF f
  <1>7. s = [job |-> s.job, leased |-> FALSE, m |-> Start(FreshManager, v), c |-> Vacant,
             inbox |-> <<>>, wire |-> <<>>]
    BY <1>6
  <1> HIDE DEF s
  <1>8. Sound(s, NoOp, resident, NoTest) /\ Waits(s, NoOp) /\ Fenced(s.m)
    BY <1>5, <1>6, <1>7, LaunchedIsSound
  <1> QED BY <1>1, <1>3, <1>4, <1>6, <1>8, NoOpTyped, NoTestTyped, StaysLively

LEMMA InitIsSound == Init => IInv
  <1> SUFFICES ASSUME Init PROVE IInv
    OBVIOUS
  <1>1. PICK v \in 0 .. Variants : manager = Start(FreshManager, v)
    BY DEF Init
  <1>2. /\ job \in [Job -> JobState] /\ leased = FALSE /\ coordinator = Vacant /\ inbox = <<>> /\ wire = <<>>
        /\ op = NoOp /\ resident = None /\ test = NoTest /\ over = FALSE
    BY DEF Init, JobState
  <1>3. Here.job = job
    BY HereFields
  <1>4. Here = [job |-> Here.job, leased |-> FALSE, m |-> Start(FreshManager, v), c |-> Vacant,
                inbox |-> <<>>, wire |-> <<>>]
    BY <1>1, <1>2, <1>3 DEF Here
  <1> DEFINE s == Here
  <1>5. s.job \in [Job -> JobState]
    BY <1>2, <1>3
  <1>6. s = [job |-> s.job, leased |-> FALSE, m |-> Start(FreshManager, v), c |-> Vacant,
             inbox |-> <<>>, wire |-> <<>>]
    BY <1>4
  <1> HIDE DEF s
  <1>7. Sound(s, NoOp, None, NoTest) /\ Waits(s, NoOp) /\ Fenced(s.m)
    BY <1>5, <1>6, LaunchedIsSound
  <1>8. Lively
    BY <1>2, <1>7, HereFields DEF Lively, s
  <1> QED BY <1>2, <1>8, NoOpTyped, NoTestTyped DEF IInv, Frame

-----------------------------------------------------------------------------
(* Every step.                                                              *)

LEMMA StutterKeeps ==
    ASSUME IInv, UNCHANGED vars
    PROVE  IInv'
  <1>1. /\ job' = job /\ leased' = leased /\ manager' = manager /\ coordinator' = coordinator
        /\ inbox' = inbox /\ wire' = wire /\ op' = op /\ resident' = resident
        /\ test' = test /\ over' = over
    BY DEF vars
  <1>2. Here' = Here /\ Held' = Held
    BY <1>1 DEF Here, Held
  <1>3. Frame'
    BY <1>1 DEF IInv, Frame
  <1>4. ~over => Lively'
    BY <1>1, <1>2 DEF IInv, Lively
  <1>5. over => Left'
    BY <1>1, <1>2 DEF IInv, Left
  <1> QED BY <1>1, <1>3, <1>4, <1>5 DEF IInv

LEMMA CoordinatorStepKeeps ==
    ASSUME IInv, ~over, Room, CoordinatorStep
    PROVE  IInv'
  <1>1. ASSUME NEW j \in Job, Claim(j) PROVE IInv'
    BY <1>1, ClaimKeeps
  <1>2. CASE Poll
    BY <1>2, PollKeeps
  <1>3. CASE GiveUpPolling
    BY <1>3, GiveUpPollingKeeps
  <1>4. CASE MediaStep
    BY <1>4, MediaStepKeeps
  <1>5. CASE PlanReady
    BY <1>5, PlanReadyKeeps
  <1>6. CASE PrepareAnalysis
    BY <1>6, PrepareAnalysisKeeps
  <1>7. CASE MediaStopped
    BY <1>7, MediaStoppedKeeps
  <1>8. CASE NextChunk
    BY <1>8, NextChunkKeeps
  <1>9. CASE RefuseProgress
    BY <1>9, RefuseProgressKeeps
  <1>10. CASE CapabilitiesTimeout
    BY <1>10, CapabilitiesTimeoutKeeps
  <1>11. CASE ReadAnswer
    BY <1>11, ReadAnswerKeeps
  <1>12. CASE Heartbeat
    BY <1>12, HeartbeatKeeps
  <1>13. ASSUME NEW p \in Cause, RetryCheckpoint(p) PROVE IInv'
    BY <1>13, RetryCheckpointKeeps
  <1> QED BY <1>1, <1>2, <1>3, <1>4, <1>5, <1>6, <1>7, <1>8, <1>9, <1>10, <1>11, <1>12, <1>13
          DEF CoordinatorStep

LEMMA TestStepKeeps ==
    ASSUME IInv, ~over, Room, TestStep
    PROVE  IInv'
  <1>1. ASSUME NEW model \in Tested, StartTest(model) PROVE IInv'
    BY <1>1, StartTestKeeps
  <1>2. CASE CancelTest
    BY <1>2, CancelTestKeeps
  <1>3. CASE TestTimeout
    BY <1>3, TestTimeoutKeeps
  <1>4. CASE TestTranscribes
    BY <1>4, TestTranscribesKeeps
  <1>5. CASE TestUnloads
    BY <1>5, TestUnloadsKeeps
  <1>6. CASE ReadTestAnswer
    BY <1>6, ReadTestAnswerKeeps
  <1> QED BY <1>1, <1>2, <1>3, <1>4, <1>5, <1>6 DEF TestStep

LEMMA UserStepKeeps ==
    ASSUME IInv, ~over, UserStep
    PROVE  IInv'
  <1>1. ASSUME NEW j \in Job, Cancel(j) PROVE IInv'
    BY <1>1, CancelKeeps
  <1>2. ASSUME NEW j \in Job, CancelElsewhere(j) PROVE IInv'
    BY <1>2, CancelElsewhereKeeps
  <1>3. ASSUME NEW j \in Job, Retry(j) PROVE IInv'
    BY <1>3, RetryKeeps
  <1>4. CASE LoseLease
    BY <1>4, LoseLeaseKeeps
  <1>5. CASE ChangeBackend
    BY <1>5, ChangeBackendKeeps
  <1> QED BY <1>1, <1>2, <1>3, <1>4, <1>5 DEF UserStep

LEMMA ManagerStepKeeps ==
    ASSUME IInv, ~over, ManagerStep
    PROVE  IInv'
  <1>1. CASE Connect
    BY <1>1, ConnectKeeps
  <1>2. CASE ConnectionRefused
    BY <1>2, ConnectionRefusedKeeps
  <1>3. CASE Crash
    BY <1>3, CrashKeeps
  <1>4. CASE ChannelFails
    BY <1>4, ChannelFailsKeeps
  <1>5. CASE GraceFires
    BY <1>5, GraceFiresKeeps
  <1>6. CASE Exit
    BY <1>6, ExitKeeps
  <1>7. CASE RestartFires
    BY <1>7, RestartFiresKeeps
  <1>8. CASE ForcedStartFires
    BY <1>8, ForcedStartFiresKeeps
  <1>9. CASE RecoveryFires
    BY <1>9, RecoveryFiresKeeps
  <1>10. CASE WindowPasses
    BY <1>10, WindowPassesKeeps
  <1> QED BY <1>1, <1>2, <1>3, <1>4, <1>5, <1>6, <1>7, <1>8, <1>9, <1>10 DEF ManagerStep

LEMMA AnyWorkerStepKeeps ==
    ASSUME IInv, ~over, WorkerStep
    PROVE  IInv'
  BY WorkerReadsKeeps, WorkerAnswersKeeps, WorkerFinishesKeeps DEF WorkerStep

LEMMA StepKeeps ==
    ASSUME IInv, [Next]_vars
    PROVE  IInv'
  <1>1. CASE UNCHANGED vars
    BY <1>1, StutterKeeps
  <1>2. CASE ~over /\ Room /\ CoordinatorStep
    BY <1>2, CoordinatorStepKeeps
  <1>3. CASE ~over /\ Room /\ TestStep
    BY <1>3, TestStepKeeps
  <1>4. CASE ~over /\ UserStep
    BY <1>4, UserStepKeeps
  <1>5. CASE ~over /\ ManagerStep
    BY <1>5, ManagerStepKeeps
  <1>6. CASE ~over /\ WorkerStep
    BY <1>6, AnyWorkerStepKeeps
  <1>7. CASE ~over /\ Quit
    BY <1>7, QuitKeeps
  <1>8. CASE OrphanExits
    BY <1>8, OrphanExitsKeeps
  <1>9. CASE Relaunch
    BY <1>9, RelaunchKeeps
  <1> QED BY <1>1, <1>2, <1>3, <1>4, <1>5, <1>6, <1>7, <1>8, <1>9 DEF Next

\* Between two steps of the event loop the desktop, the channel and the worker are in a
\* sound world, the fence has its waker and the active job waits for something.
THEOREM SessionIsSound == Spec => []IInv
  <1>1. Init => IInv
    BY InitIsSound
  <1>2. IInv /\ [Next]_vars => IInv'
    BY StepKeeps
  <1> QED BY <1>1, <1>2, PTL DEF Spec

-----------------------------------------------------------------------------
(* What the invariant says of the properties.                               *)

\* The resident model that the invariant speaks of.
Remaining == IF over THEN Held ELSE resident

LEMMA HereIsSound ==
    ASSUME IInv
    PROVE  /\ Sound(Here, op, Remaining, test) /\ Here \in World
           /\ op # NoOp => Remaining = resident
           /\ op \in Operation /\ resident \in Model \cup {None}
  <1>1. Sound(Here, op, Remaining, test)
    BY DEF IInv, Frame, Lively, Left, Remaining
  <1>2. op # NoOp => Remaining = resident
    BY DEF Remaining, Held
  <1> QED BY <1>1, <1>2 DEF Sound, IInv, Frame

LEMMA EngagedInWorks == Engaged = Works(inbox, op)
  BY DEF Engaged, Works, Running, ToSet

LEMMA TypesHold ==
    ASSUME IInv
    PROVE  SessionTypeOK
  <1>1. Here \in World
    BY HereIsSound
  <1>2. /\ job \in [Job -> JobState] /\ leased \in BOOLEAN /\ manager \in Manager
        /\ coordinator \in Coordinator /\ inbox \in Seq(Request) /\ wire \in Seq(Answer)
    BY <1>1, HereFields DEF World
  <1>3. /\ over \in BOOLEAN /\ op \in Operation /\ resident \in Model \cup {None}
        /\ test \in Test
    BY DEF IInv, Frame
  <1> QED BY <1>2, <1>3 DEF SessionTypeOK

LEMMA SomethingComes ==
    ASSUME IInv
    PROVE  NeverStranded
  <1> SUFFICES ASSUME ~over PROVE FenceHasWaker /\
               (Serving => \/ coordinator.polling \/ coordinator.media \/ coordinator.next
                           \/ coordinator.at = "media" \/ coordinator.retry # {}
                           \/ coordinator.req.type = "capabilities"
                           \/ coordinator.pending # "none" /\ coordinator.req.id = manager.forced
                           \/ coordinator.req.id # 0 /\ Comes(coordinator.req.id))
    BY DEF NeverStranded
  <1>1. Fenced(manager) /\ Waits(Here, op) /\ CoordinatorSound(Here.c)
    BY DEF IInv, Lively, Sound
  <1>2. FenceHasWaker
    BY <1>1 DEF Fenced, FenceHasWaker
  <1>3. coordinator.req.type \in RunsJob => coordinator.req.id # 0
    BY <1>1, HereFields DEF CoordinatorSound, RunsJob
  <1> DEFINE i == coordinator.req.id
  <1>4. Underway(i, inbox, wire, op) =>
            \/ i = op.id
            \/ \E k \in DOMAIN inbox : inbox[k].id = i
            \/ \E k \in DOMAIN wire : wire[k].id = i
    BY DEF Underway, ToSet
  <1>5. manager.proc = "dying" \/ (manager.ready /\ Underway(i, inbox, wire, op)) => Comes(i)
    BY <1>4 DEF Comes
  <1> QED BY <1>1, <1>2, <1>3, <1>5, HereFields DEF Waits, Serving

LEMMA NoWorkIsLeft ==
    ASSUME IInv, ~CheckpointsMayFail
    PROVE  SessionInv
  <1>1. Sound(Here, op, Remaining, test) /\ op \in Operation
    BY HereIsSound
  <1>2. Calm(coordinator, inbox, op) /\ OperationSound(op) /\ TestSound(manager, coordinator, inbox, op, test)
    BY <1>1, HereFields DEF Sound, MessagesSound
  <1>3. ~manager.ready => inbox = <<>>
    BY <1>1, HereFields DEF Sound
  <1>4. \A r \in Works(inbox, op) : ForJob(r) => r.for = coordinator.active /\ r.id = coordinator.req.id
    BY <1>2 DEF Calm
  <1>5. QuietWhenReleased
    BY <1>4, EngagedInWorks DEF QuietWhenReleased, ForJob
  <1>6. JobFindsWorkerFree
    <2> SUFFICES ASSUME NEW r \in Works(inbox, op), ForJob(r), Running, ~op.answered
                 PROVE  op.for = r.for
      BY EngagedInWorks DEF JobFindsWorkerFree, ForJob
    <2>1. op \in Works(inbox, op)
      BY DEF Works, Running
    <2>2. op.type \in RunsJob \cup {"unload"}
      BY <1>1 DEF Operation, Running
    <2>3. CASE op.for \in Job
      <3>1. op.type \in RunsJob
        BY <1>2, <2>2, <2>3, NamesAssumption, op.for # Tester DEF OperationSound, Running
      <3> QED BY <1>4, <2>1, <2>3, <3>1 DEF ForJob
    <2>4. CASE op.for = Tester /\ manager.ready
      <3>1. ForTester(op)
        BY <2>2, <2>4 DEF ForTester, RunsJob
      <3>2. test.phase # "idle"
        BY <1>2, <2>1, <2>4, <3>1 DEF TestSound
      <3>3. coordinator.active = None
        BY <1>2, <3>2 DEF TestSound
      <3> QED BY <1>4, <3>3, NamesAssumption DEF ForJob
    <2>5. CASE ~manager.ready
      <3>1. r = op
        BY <1>3, <2>5, NoMessage DEF Works
      <3> QED BY <3>1
    <2> QED BY <1>2, <2>3, <2>4, <2>5 DEF OperationSound, Running
  <1> QED BY <1>5, <1>6, TypesHold DEF SessionInv

LEMMA RightModel ==
    ASSUME IInv, OneModelKept
    PROVE  TranscribesWithItsModel
  <1> SUFFICES ASSUME Running, ~op.answered, op.type = "transcribe", op.for \in Job
               PROVE  resident = op.model
    BY DEF TranscribesWithItsModel
  <1>1. Sound(Here, op, Remaining, test) /\ op \in Operation /\ resident \in Model \cup {None}
    BY HereIsSound
  <1>2. Remaining = resident
    <2>1. op # NoOp
      BY DEF NoOp
    <2> QED BY <2>1, HereIsSound
  <1>3. /\ Calm(coordinator, inbox, op) /\ OperationSound(op)
        /\ Belongs(coordinator, inbox, wire, op)
        /\ Remembered(coordinator, inbox, wire, op, resident)
    BY <1>1, <1>2, HereFields DEF Sound, MessagesSound
  <1>4. op \in Works(inbox, op) /\ ForJob(op)
    BY DEF Works, Running, ForJob, RunsJob
  <1>5. op.for = coordinator.active /\ op.id = coordinator.req.id
    BY <1>3, <1>4 DEF Calm, OneModelKept
  <1>6. coordinator.req.type = "transcribe" /\ coordinator.active # None
    BY <1>3, <1>5, NamesAssumption DEF Belongs, OperationSound
  <1>7. Kept(resident)
    BY <1>1 DEF Kept
  <1>8. coordinator.cache = ModelOf[op.for]
    BY <1>3, <1>5, <1>6, <1>7 DEF Remembered
  <1>9. ModelOf[op.for] # None
    BY ModelAssumption, NamesAssumption
  <1>10. resident = coordinator.cache
    BY <1>3, <1>7, <1>8, <1>9 DEF Remembered
  <1>11. op.model = ModelOf[op.for]
    BY <1>3, <1>4, <1>7 DEF Remembered
  <1> QED BY <1>8, <1>10, <1>11

\* Handlers that call one another (exit, barrier, restart, test) never leave a counter, a
\* set of timers, a request or a message outside of its type.
THEOREM SessionTypes == Spec => []SessionTypeOK
  <1>1. IInv => SessionTypeOK
    BY TypesHold
  <1> QED BY <1>1, SessionIsSound, PTL

\* Whatever fails - a launch, the connection, the worker, a checkpoint, the lease -, the
\* fence of a forced cancellation and the active job always have a timer, a process, media
\* work or an answer that will move them on (ForceCancelAfterGrace, handleUnexpectedExit,
\* interruptActiveJob).
THEOREM NothingIsStranded == Spec => []NeverStranded
  <1>1. IInv => NeverStranded
    BY SomethingComes
  <1> QED BY <1>1, SessionIsSound, PTL

\* While checkpoints can be written, the barrier before every end of a job
\* (awaitWorkerQuiescence) leaves the worker nothing of a job that is let go of, and a
\* request of a job meets neither a model test nor another job in the worker.
THEOREM ReleasedJobsAreQuiet ==
    ASSUME ~CheckpointsMayFail
    PROVE  Spec => []SessionInv
  <1>1. IInv => SessionInv
    BY NoWorkIsLeft
  <1> QED BY <1>1, SessionIsSound, PTL

\* While checkpoints can be written and the jobs use one model, m_loadedModelPath is what
\* the worker holds: every chunk is transcribed by the model its job was queued with.
THEOREM ChunksUseTheirModel ==
    ASSUME OneModelKept
    PROVE  Spec => []TranscribesWithItsModel
  <1>1. IInv => TranscribesWithItsModel
    BY RightModel
  <1> QED BY <1>1, SessionIsSound, PTL
=============================================================================
