---------------------- MODULE TranscriptEditingProofs ----------------------
(***************************************************************************)
(* Proofs about the transcript editor: for any number of jobs, of writes   *)
(* by executions and of changes by the user.  The handlers of the view     *)
(* model call one another, so what each keeps and what it leaves behind is *)
(* proved of the handlers as functions first, then of the actions.         *)
(***************************************************************************)
EXTENDS TranscriptEditing, FiniteSetTheorems, TLAPS

Worlds == [ed : Editor, rows : [Job -> Text]]

\* The editor holds changes that are not stored.
Pending(e) == e.dirty \/ e.draft # 0

\* What the handlers rely on and keep, also halfway through an action that calls several of them: nothing
\* is typed under the lock; nothing is shown when nothing is open, and no changes without a transcript;
\* the editor shows every stored change; and what it would write is not behind what it writes over.
Sound(w) ==
    /\ w \in Worlds
    /\ w.ed.locked => w.ed.draft = 0
    /\ ~w.ed.open => w.ed.shown = None
    /\ w.ed.shown = None => ~Pending(w.ed) /\ w.ed.buffer = NoText
    /\ w.ed.shown # None => w.rows[w.ed.shown].edits \subseteq w.ed.buffer.edits
    /\ w.ed.shown # None /\ ~w.ed.stale /\ Pending(w.ed) =>
          w.rows[w.ed.shown].seen <= w.ed.buffer.seen

\* CleanIsStored of a world, when the rows of job j do not matter
CleanBut(w, j) ==
    w.ed.open /\ w.ed.shown \notin {None, j} /\ ~w.ed.dirty /\ ~w.ed.stale =>
        w.ed.buffer = w.rows[w.ed.shown]
Clean(w) == CleanBut(w, None)

\* Between w and v no change was lost, nothing stored was taken back, and nothing went out of date.
Kept(w, v) ==
    /\ \A e \in Edit : e \in Unsaved(w.ed) =>
          e \in Unsaved(v.ed) \/ \E j \in Job : e \in v.rows[j].edits
    /\ \A j \in Job : w.rows[j].edits \subseteq v.rows[j].edits
    /\ ~w.ed.stale => ~v.ed.stale /\ \A j \in Job : w.rows[j].seen <= v.rows[j].seen

\* Between w and v only the shown transcript was saved, and only j was shown instead.
Near(w, v, j) ==
    /\ v.ed.shown \in {w.ed.shown, j}
    /\ \A k \in Job : k # w.ed.shown => v.rows[k] = w.rows[k]

LEMMA KeptTrans ==
    ASSUME NEW u \in Worlds, NEW v \in Worlds, NEW w \in Worlds, Kept(u, v), Kept(v, w)
    PROVE  Kept(u, w)
  <1>1. \A j \in Job : u.rows[j].seen \in Nat /\ v.rows[j].seen \in Nat /\ w.rows[j].seen \in Nat
    BY EditingAssumption DEF Worlds, Text
  <1>2. ~u.ed.stale => ~w.ed.stale /\ \A j \in Job : u.rows[j].seen <= w.rows[j].seen
    BY <1>1 DEF Kept
  <1>3. \A j \in Job : u.rows[j].edits \subseteq w.rows[j].edits
    BY DEF Kept
  <1>4. ASSUME NEW e \in Edit, e \in Unsaved(u.ed)
        PROVE  e \in Unsaved(w.ed) \/ \E j \in Job : e \in w.rows[j].edits
    BY <1>4 DEF Kept
  <1> QED
    BY <1>2, <1>3, <1>4 DEF Kept

-----------------------------------------------------------------------------
(* The handlers. *)

\* Committing what is typed makes it a change of the shown segments.
LEMMA CommitFacts ==
    ASSUME NEW e \in Editor, ~CommitRefused(e)
    PROVE  LET c == Commit(e)
           IN  /\ c \in Editor /\ c.draft = 0
               /\ c.open = e.open /\ c.shown = e.shown /\ c.locked = e.locked
               /\ c.stale = e.stale /\ c.told = e.told
               /\ c.dirty <=> Pending(e)
               /\ c.buffer.seen = e.buffer.seen
               /\ c.buffer.edits = e.buffer.edits \cup ({e.draft} \ {0})
               /\ ~Pending(e) => c = e
  <1>1. CASE e.draft = 0
    <2>1. e.buffer.edits \cup ({e.draft} \ {0}) = e.buffer.edits
      BY <1>1, Zenon
    <2>2. Commit(e) = e
      BY <1>1 DEF Commit
    <2> QED
      BY <1>1, <2>1, <2>2 DEF Pending
  <1>2. CASE e.draft # 0
    <2> DEFINE b == Changed(e.buffer, e.draft)
               d == [e EXCEPT !.buffer = b, !.draft = 0]
    <2>1. b \in Text /\ b.seen = e.buffer.seen /\ b.edits = e.buffer.edits \cup {e.draft}
      BY <1>2, EditingAssumption DEF Editor, Text, Edit, Changed
    <2> HIDE DEF b
    <2>1a. 0 \in 0 .. MaxEdits /\ b \in Text
      BY <2>1, EditingAssumption
    <2>2. d \in Editor /\ d.draft = 0 /\ d.open = e.open /\ d.shown = e.shown /\ d.locked = e.locked
          /\ d.stale = e.stale /\ d.told = e.told /\ d.buffer = b /\ d.dirty = e.dirty
      BY <2>1a DEF Editor
    <2>3. Commit(e) = Touched(d)
      BY <1>2 DEF Commit, b
    <2> HIDE DEF d
    <2>4. Touched(d) \in Editor /\ Touched(d).dirty = TRUE /\ Touched(d).buffer = d.buffer
          /\ Touched(d).draft = d.draft /\ Touched(d).open = d.open /\ Touched(d).shown = d.shown
          /\ Touched(d).locked = d.locked /\ Touched(d).stale = d.stale /\ Touched(d).told = d.told
      BY <2>2 DEF Touched, Editor
    <2>5. {e.draft} \ {0} = {e.draft}
      BY <1>2
    <2>6. Pending(e)
      BY <1>2 DEF Pending
    <2> QED
      BY <2>1, <2>2, <2>3, <2>4, <2>5, <2>6
  <1> QED
    BY <1>1, <1>2

\* A save stores what is shown, or leaves everything as it is.
LEMMA SaveCases ==
    ASSUME NEW c \in Worlds, NEW st, NEW ok \in BOOLEAN
    PROVE  LET f == SaveIfDirty(c, st, ok)
           IN  /\ f \in Worlds
               /\ f.ed.open = c.ed.open /\ f.ed.shown = c.ed.shown /\ f.ed.buffer = c.ed.buffer
               /\ f.ed.draft = c.ed.draft /\ f.ed.locked = c.ed.locked /\ f.ed.stale = c.ed.stale
               /\ ~c.ed.dirty => f = c
               /\ \/ f.ed.dirty = c.ed.dirty /\ f.rows = c.rows
                  \/ /\ c.ed.dirty /\ ~f.ed.dirty /\ c.ed.shown \in Job
                     /\ f.rows = [c.rows EXCEPT ![c.ed.shown] = c.ed.buffer]
  <1> DEFINE s == [c.ed EXCEPT !.dirty = FALSE, !.told = FALSE]
             t == [c.ed EXCEPT !.told = TRUE]
             r == [c.rows EXCEPT ![c.ed.shown] = c.ed.buffer]
  <1>0. c.ed \in Editor /\ c.rows \in [Job -> Text] /\ c.ed.buffer \in Text /\ c.ed.shown \in Job \cup {None}
    BY DEF Worlds, Editor
  <1>1. s \in Editor /\ s.open = c.ed.open /\ s.shown = c.ed.shown /\ s.buffer = c.ed.buffer
        /\ s.draft = c.ed.draft /\ s.locked = c.ed.locked /\ s.stale = c.ed.stale /\ s.dirty = FALSE
    BY <1>0 DEF Editor
  <1>2. t \in Editor /\ t.open = c.ed.open /\ t.shown = c.ed.shown /\ t.buffer = c.ed.buffer
        /\ t.draft = c.ed.draft /\ t.locked = c.ed.locked /\ t.stale = c.ed.stale /\ t.dirty = c.ed.dirty
    BY <1>0 DEF Editor
  <1>3. r \in [Job -> Text]
    BY <1>0
  <1>4. CASE ~c.ed.dirty
    BY <1>4 DEF SaveIfDirty
  <1>5. CASE c.ed.dirty /\ ok /\ c.ed.shown # None /\ st[c.ed.shown] \in Editable
    <2>1. SaveIfDirty(c, st, ok) = [ed |-> s, rows |-> r]
      BY <1>5 DEF SaveIfDirty, SaveActive
    <2>4. r = [c.rows EXCEPT ![c.ed.shown] = c.ed.buffer]
      OBVIOUS
    <2> HIDE DEF s, r
    <2>5. /\ [ed |-> s, rows |-> r].ed = s
          /\ [ed |-> s, rows |-> r].rows = r
      OBVIOUS
    <2>2. [ed |-> s, rows |-> r] \in Worlds
      BY <1>1, <1>3 DEF Worlds
    <2>3. c.ed.shown \in Job
      BY <1>0, <1>5
    <2> QED
      BY <1>1, <1>5, <2>1, <2>2, <2>3, <2>4, <2>5
  <1>6. CASE c.ed.dirty /\ ~(ok /\ c.ed.shown # None /\ st[c.ed.shown] \in Editable)
    <2>1. SaveIfDirty(c, st, ok) = [c EXCEPT !.ed.told = TRUE]
      BY <1>6 DEF SaveIfDirty, SaveActive
    <2>4. [c EXCEPT !.ed.told = TRUE] = [c EXCEPT !.ed = t]
      OBVIOUS
    <2> HIDE DEF t
    <2>2. [c EXCEPT !.ed = t] = [ed |-> t, rows |-> c.rows]
      BY DEF Worlds
    <2>3. [ed |-> t, rows |-> c.rows] \in Worlds
      BY <1>0, <1>2 DEF Worlds
    <2> QED
      BY <1>2, <1>6, <2>1, <2>2, <2>3, <2>4
  <1> QED
    BY <1>4, <1>5, <1>6

\* All that is said of a world is about these fields of it.
Same(w, v) ==
    /\ v.ed.open = w.ed.open /\ v.ed.shown = w.ed.shown /\ v.ed.buffer = w.ed.buffer
    /\ v.ed.draft = w.ed.draft /\ v.ed.dirty = w.ed.dirty /\ v.ed.stale = w.ed.stale
    /\ v.rows = w.rows

\* Locks, timers and messages make no difference, as long as nothing typed is locked in.
LEMMA SameIsSound ==
    ASSUME NEW w, NEW v \in Worlds, Sound(w), Same(w, v), v.ed.locked => v.ed.draft = 0
    PROVE  Sound(v) /\ Kept(w, v) /\ \A j : CleanBut(w, j) <=> CleanBut(v, j)
  <1>1. Sound(v)
    BY DEF Sound, Same, Pending
  <1>2. Unsaved(v.ed) = Unsaved(w.ed)
    BY DEF Same, Unsaved
  <1>3. \A j \in Job : w.rows[j].seen \in Nat
    BY EditingAssumption DEF Sound, Worlds, Text
  <1>4. Kept(w, v)
    BY <1>2, <1>3 DEF Same, Kept
  <1>5. \A j : CleanBut(w, j) <=> CleanBut(v, j)
    BY DEF Same, CleanBut
  <1> QED
    BY <1>1, <1>4, <1>5

LEMMA SaveIsSound ==
    ASSUME NEW c, Sound(c), c.ed.draft = 0, NEW st, NEW ok \in BOOLEAN
    PROVE  LET f == SaveIfDirty(c, st, ok)
           IN  Sound(f) /\ Kept(c, f) /\ \A j : CleanBut(c, j) => CleanBut(f, j)
  <1> DEFINE f == SaveIfDirty(c, st, ok)
             k == c.ed.shown
  <1>0. c \in Worlds
    BY DEF Sound
  <1>1. /\ f \in Worlds
        /\ f.ed.open = c.ed.open /\ f.ed.shown = c.ed.shown /\ f.ed.buffer = c.ed.buffer
        /\ f.ed.draft = c.ed.draft /\ f.ed.locked = c.ed.locked /\ f.ed.stale = c.ed.stale
        /\ ~c.ed.dirty => f = c
        /\ \/ f.ed.dirty = c.ed.dirty /\ f.rows = c.rows
           \/ /\ c.ed.dirty /\ ~f.ed.dirty /\ c.ed.shown \in Job
              /\ f.rows = [c.rows EXCEPT ![c.ed.shown] = c.ed.buffer]
    BY <1>0, SaveCases
  <1> HIDE DEF f
  <1>2. CASE f.ed.dirty = c.ed.dirty /\ f.rows = c.rows
    <2>1. Same(c, f) /\ (f.ed.locked => f.ed.draft = 0)
      BY <1>1, <1>2 DEF Same
    <2>2. Sound(f) /\ Kept(c, f) /\ \A j : CleanBut(c, j) <=> CleanBut(f, j)
      BY <1>1, <2>1, SameIsSound
    <2> QED
      BY <2>2 DEF f
  <1>3. CASE /\ c.ed.dirty /\ ~f.ed.dirty /\ k \in Job
             /\ f.rows = [c.rows EXCEPT ![k] = c.ed.buffer]
    <2>1. f.rows[k] = c.ed.buffer /\ \A j \in Job : j # k => f.rows[j] = c.rows[j]
      BY <1>0, <1>3 DEF Worlds
    <2>2. k # None
      BY <1>3, EditingAssumption
    <2>3. Sound(f)
      BY <1>1, <1>3, <2>1, <2>2 DEF Sound, Pending
    <2>4. /\ \A j \in Job : c.rows[j].seen \in Nat /\ f.rows[j].seen \in Nat
          /\ c.ed.buffer.seen \in Nat
      BY <1>0, <1>1, EditingAssumption DEF Worlds, Editor, Text
    <2>5. ~c.ed.stale => c.rows[k].seen <= f.rows[k].seen
      BY <1>3, <2>1, <2>2, <2>4 DEF Sound, Pending
    <2>6. c.rows[k].edits \subseteq f.rows[k].edits
      BY <2>1, <2>2 DEF Sound
    <2>7. Unsaved(c.ed) = f.rows[k].edits
      BY <1>3, <2>1 DEF Unsaved
    <2>8. Kept(c, f)
      BY <1>1, <1>3, <2>1, <2>4, <2>5, <2>6, <2>7 DEF Kept
    <2>9. \A j : CleanBut(f, j)
      BY <1>1, <2>1 DEF CleanBut
    <2> QED
      BY <2>3, <2>8, <2>9 DEF f
  <1> QED
    BY <1>1, <1>2, <1>3

Committed(w) == [w EXCEPT !.ed = Commit(@)]
Flushed(w, st, ok) == SaveIfDirty(Committed(w), st, ok)

LEMMA CommitIsSound ==
    ASSUME NEW w, Sound(w), ~CommitRefused(w.ed)
    PROVE  LET c == Committed(w)
           IN  /\ c.ed = Commit(w.ed) /\ c.rows = w.rows
               /\ Sound(c) /\ Kept(w, c) /\ \A j : CleanBut(w, j) => CleanBut(c, j)
  <1> DEFINE c == Committed(w)
  <1>0. w \in Worlds /\ w.ed \in Editor
    BY DEF Sound, Worlds
  <1>1. c.ed = Commit(w.ed) /\ c.rows = w.rows /\ (Commit(w.ed) \in Editor => c \in Worlds)
    BY <1>0 DEF Committed, Worlds
  <1> HIDE DEF c
  <1>2. /\ c.ed \in Editor /\ c.ed.draft = 0
        /\ c.ed.open = w.ed.open /\ c.ed.shown = w.ed.shown /\ c.ed.locked = w.ed.locked
        /\ c.ed.stale = w.ed.stale
        /\ c.ed.dirty <=> Pending(w.ed)
        /\ c.ed.buffer.seen = w.ed.buffer.seen
        /\ c.ed.buffer.edits = w.ed.buffer.edits \cup ({w.ed.draft} \ {0})
        /\ ~Pending(w.ed) => c.ed = w.ed
    BY <1>0, <1>1, CommitFacts
  <1>3. Sound(c)
    BY <1>1, <1>2 DEF Sound, Pending
  <1>4. Unsaved(w.ed) \subseteq Unsaved(c.ed)
    BY <1>2 DEF Unsaved, Pending
  <1>5. \A j \in Job : w.rows[j].seen \in Nat
    BY <1>0, EditingAssumption DEF Worlds, Text
  <1>6. Kept(w, c)
    BY <1>1, <1>2, <1>4, <1>5 DEF Kept
  <1>7. \A j : CleanBut(w, j) => CleanBut(c, j)
    BY <1>1, <1>2 DEF CleanBut, Pending
  <1> QED
    BY <1>1, <1>3, <1>6, <1>7 DEF c

\* What is typed is committed, then what has changed is saved if it can be.
LEMMA FlushIsSound ==
    ASSUME NEW w, Sound(w), ~CommitRefused(w.ed), NEW st, NEW ok \in BOOLEAN
    PROVE  LET f == Flushed(w, st, ok)
           IN  /\ Sound(f) /\ Kept(w, f) /\ \A j : CleanBut(w, j) => CleanBut(f, j)
               /\ f.ed.open = w.ed.open /\ f.ed.shown = w.ed.shown /\ f.ed.draft = 0
               /\ f.ed.locked = w.ed.locked /\ f.ed.stale = w.ed.stale
               /\ f.ed.dirty => Pending(w.ed)
               /\ ~Pending(w.ed) => f.ed = w.ed /\ f.rows = w.rows
               /\ \A k \in Job : k # w.ed.shown => f.rows[k] = w.rows[k]
  <1> DEFINE c == Committed(w)
             f == Flushed(w, st, ok)
  <1>1. /\ c.ed = Commit(w.ed) /\ c.rows = w.rows
        /\ Sound(c) /\ Kept(w, c) /\ \A j : CleanBut(w, j) => CleanBut(c, j)
    BY CommitIsSound
  <1>2. w \in Worlds /\ w.ed \in Editor /\ c \in Worlds
    BY <1>1 DEF Sound, Worlds
  <1>3. /\ c.ed.draft = 0
        /\ c.ed.open = w.ed.open /\ c.ed.shown = w.ed.shown /\ c.ed.locked = w.ed.locked
        /\ c.ed.stale = w.ed.stale
        /\ c.ed.dirty <=> Pending(w.ed)
        /\ ~Pending(w.ed) => c.ed = w.ed
    BY <1>1, <1>2, CommitFacts
  <1>4. f = SaveIfDirty(c, st, ok)
    BY DEF Flushed
  <1> HIDE DEF c
  <1>5. /\ f \in Worlds
        /\ f.ed.open = c.ed.open /\ f.ed.shown = c.ed.shown /\ f.ed.buffer = c.ed.buffer
        /\ f.ed.draft = c.ed.draft /\ f.ed.locked = c.ed.locked /\ f.ed.stale = c.ed.stale
        /\ ~c.ed.dirty => f = c
        /\ \/ f.ed.dirty = c.ed.dirty /\ f.rows = c.rows
           \/ /\ c.ed.dirty /\ ~f.ed.dirty /\ c.ed.shown \in Job
              /\ f.rows = [c.rows EXCEPT ![c.ed.shown] = c.ed.buffer]
    BY <1>2, SaveCases DEF Flushed, c
  <1> HIDE DEF f
  <1>8. f.ed.dirty => c.ed.dirty
    BY <1>5
  <1>6. Sound(f) /\ Kept(c, f) /\ \A j : CleanBut(c, j) => CleanBut(f, j)
    BY <1>1, <1>3, <1>4, SaveIsSound
  <1>7. Kept(w, f)
    BY <1>1, <1>2, <1>5, <1>6, KeptTrans
  <1>9. \A k \in Job : k # w.ed.shown => f.rows[k] = w.rows[k]
    BY <1>1, <1>2, <1>3, <1>5 DEF Worlds
  <1> QED
    BY <1>1, <1>3, <1>5, <1>6, <1>7, <1>8, <1>9 DEF f

\* Locking, unlocking and saying something are cosmetic.
LEMMA Cosmetic ==
    ASSUME NEW w \in Worlds, NEW b \in BOOLEAN
    PROVE  /\ [w EXCEPT !.ed.locked = b] \in Worlds /\ Same(w, [w EXCEPT !.ed.locked = b])
           /\ [w EXCEPT !.ed.locked = b].ed.locked = b
           /\ [w EXCEPT !.ed.told = b] \in Worlds /\ Same(w, [w EXCEPT !.ed.told = b])
           /\ [w EXCEPT !.ed.told = b].ed.locked = w.ed.locked
           /\ [w EXCEPT !.ed.timer = b] \in Worlds /\ Same(w, [w EXCEPT !.ed.timer = b])
           /\ [w EXCEPT !.ed.timer = b].ed.locked = w.ed.locked
  <1>0. w.ed \in Editor
    BY DEF Worlds
  <1>1. [w EXCEPT !.ed.locked = b] \in Worlds /\ Same(w, [w EXCEPT !.ed.locked = b])
        /\ [w EXCEPT !.ed.locked = b].ed.locked = b
    BY <1>0 DEF Worlds, Editor, Same
  <1>2. [w EXCEPT !.ed.told = b] \in Worlds /\ Same(w, [w EXCEPT !.ed.told = b])
        /\ [w EXCEPT !.ed.told = b].ed.locked = w.ed.locked
    BY <1>0 DEF Worlds, Editor, Same
  <1>3. [w EXCEPT !.ed.timer = b] \in Worlds /\ Same(w, [w EXCEPT !.ed.timer = b])
        /\ [w EXCEPT !.ed.timer = b].ed.locked = w.ed.locked
    BY <1>0 DEF Worlds, Editor, Same
  <1> QED
    BY <1>1, <1>2, <1>3

\* What is read again is what is stored.
LEMMA ShowFacts ==
    ASSUME NEW e \in Editor, NEW r \in [Job -> Text], NEW j \in Job \cup {None}
    PROVE  LET s == Show(e, j, r)
           IN  /\ s \in Editor /\ s.shown = j /\ s.buffer = (IF j = None THEN NoText ELSE r[j])
               /\ s.draft = 0 /\ ~s.dirty /\ ~s.stale /\ s.open = e.open /\ s.locked = e.locked
  <1> DEFINE b == IF j = None THEN NoText ELSE r[j]
  <1>1. b \in Text
    BY EditingAssumption DEF NoText, Text
  <1>2. 0 \in 0 .. MaxEdits
    BY EditingAssumption
  <1>3. Show(e, j, r) = [e EXCEPT !.shown = j, !.buffer = b, !.draft = 0, !.dirty = FALSE,
                                  !.told = FALSE, !.stale = FALSE]
    BY DEF Show
  <1> HIDE DEF b
  <1>4. Show(e, j, r) \in Editor
    BY <1>1, <1>2, <1>3 DEF Editor
  <1>5. Show(e, j, r).shown = j /\ Show(e, j, r).buffer = b /\ Show(e, j, r).draft = 0
        /\ Show(e, j, r).open = e.open /\ Show(e, j, r).locked = e.locked
    BY <1>3 DEF Editor
  <1>6. ~Show(e, j, r).dirty /\ ~Show(e, j, r).stale
    BY <1>3 DEF Editor
  <1> QED
    BY <1>4, <1>5, <1>6 DEF b

\* A transcript is shown in place of one without changes.
LEMMA ShownIsSound ==
    ASSUME NEW w, Sound(w), ~Pending(w.ed), NEW e \in Editor, NEW j \in Job \cup {None},
           e.open \/ j = None
    PROVE  LET v == [w EXCEPT !.ed = Show(e, j, w.rows)]
           IN  /\ Sound(v) /\ Kept(w, v) /\ Clean(v)
               /\ v.ed.shown = j /\ ~Pending(v.ed) /\ v.ed.open = e.open /\ v.ed.locked = e.locked
               /\ v.rows = w.rows
  <1> DEFINE v == [w EXCEPT !.ed = Show(e, j, w.rows)]
  <1>0. w \in Worlds /\ w.rows \in [Job -> Text]
    BY DEF Sound, Worlds
  <1>1. /\ v.ed \in Editor /\ v.ed.shown = j /\ v.ed.buffer = (IF j = None THEN NoText ELSE w.rows[j])
        /\ v.ed.draft = 0 /\ ~v.ed.dirty /\ ~v.ed.stale /\ v.ed.open = e.open /\ v.ed.locked = e.locked
    <2>1. v.ed = Show(e, j, w.rows)
      BY <1>0 DEF Worlds
    <2> QED
      BY <1>0, <2>1, ShowFacts
  <1>2. v.rows = w.rows /\ v \in Worlds
    BY <1>0, <1>1 DEF Worlds
  <1> HIDE DEF v
  <1>3. ~Pending(v.ed)
    BY <1>1 DEF Pending
  <1>4. Sound(v)
    BY <1>1, <1>2, <1>3 DEF Sound
  <1>5. Clean(v)
    BY <1>1, <1>2 DEF Clean, CleanBut
  <1>6. Unsaved(w.ed) = {}
    BY DEF Unsaved, Pending
  <1>7. \A i \in Job : w.rows[i].seen \in Nat
    BY <1>0, EditingAssumption DEF Text
  <1>8. Kept(w, v)
    BY <1>1, <1>2, <1>6, <1>7 DEF Kept
  <1> QED
    BY <1>1, <1>2, <1>3, <1>4, <1>5, <1>8 DEF v

\* An executed job asks for its rows to be shown: another transcript stays, and so do changes of this one.
LEMMA ReloadIsSound ==
    ASSUME NEW w, Sound(w), NEW st, NEW ok \in BOOLEAN, NEW j \in Job, NEW lock \in BOOLEAN
    PROVE  LET v == ReloadForJob(w, st, ok, j, lock)
           IN  /\ Sound(v) /\ Kept(w, v) /\ (CleanBut(w, j) => Clean(v))
               /\ v.ed.open = w.ed.open /\ Near(w, v, j)
               /\ \/ /\ v.ed.shown = w.ed.shown /\ w.ed.shown # j
                     /\ v.ed.stale = w.ed.stale /\ (Pending(v.ed) => Pending(w.ed))
                  \/ /\ v.ed.shown = j /\ w.ed.shown = j /\ v.ed.stale = w.ed.stale
                     /\ Pending(w.ed)
                  \/ v.ed.shown = j /\ ~Pending(v.ed) /\ v.ed.locked = lock
  <1> DEFINE c == Committed(w)
             f == Flushed(w, st, ok)
             v == ReloadForJob(w, st, ok, j, lock)
             l == [f EXCEPT !.ed.locked = lock]
             t == [c EXCEPT !.ed.told = TRUE]
             e == [c.ed EXCEPT !.locked = lock]
             s == [c EXCEPT !.ed = Show(e, j, c.rows)]
  <1>0. w \in Worlds /\ w.ed \in Editor /\ ~CommitRefused(w.ed) /\ j # None
    BY EditingAssumption DEF Sound, Worlds, CommitRefused
  <1>1. v = IF ~w.ed.open THEN w
            ELSE IF c.ed.shown \notin {None, j} THEN (IF f.ed.dirty THEN f ELSE l)
            ELSE IF c.ed.dirty THEN t ELSE s
    BY <1>0 DEF ReloadForJob, Committed, Flushed
  <1>2. /\ c.ed = Commit(w.ed) /\ c.rows = w.rows
        /\ Sound(c) /\ Kept(w, c) /\ \A i : CleanBut(w, i) => CleanBut(c, i)
    BY <1>0, CommitIsSound
  <1>3. /\ c.ed \in Editor /\ c.ed.draft = 0
        /\ c.ed.open = w.ed.open /\ c.ed.shown = w.ed.shown /\ c.ed.locked = w.ed.locked
        /\ c.ed.stale = w.ed.stale
        /\ c.ed.dirty <=> Pending(w.ed)
    BY <1>0, <1>2, CommitFacts
  <1>4. /\ Sound(f) /\ Kept(w, f) /\ \A i : CleanBut(w, i) => CleanBut(f, i)
        /\ f.ed.open = w.ed.open /\ f.ed.shown = w.ed.shown /\ f.ed.draft = 0
        /\ f.ed.locked = w.ed.locked /\ f.ed.stale = w.ed.stale
        /\ f.ed.dirty => Pending(w.ed)
        /\ \A k \in Job : k # w.ed.shown => f.rows[k] = w.rows[k]
    BY <1>0, FlushIsSound
  <1>5. c \in Worlds /\ f \in Worlds
    BY <1>2, <1>4 DEF Sound
  <1>6. l \in Worlds /\ Same(f, l)
    BY <1>5, Cosmetic
  <1>7. t \in Worlds /\ Same(c, t) /\ t.ed.locked = c.ed.locked
    BY <1>5, Cosmetic
  <1>8. e \in Editor /\ e.open = c.ed.open /\ e.locked = lock
    BY <1>3 DEF Editor
  <1>9. ~c.ed.dirty /\ w.ed.open =>
            /\ Sound(s) /\ Kept(c, s) /\ Clean(s)
            /\ s.ed.shown = j /\ ~Pending(s.ed) /\ s.ed.open = e.open /\ s.ed.locked = e.locked
            /\ s.rows = c.rows
    <2> SUFFICES ASSUME ~c.ed.dirty, w.ed.open
                 PROVE  /\ Sound(s) /\ Kept(c, s) /\ Clean(s)
                        /\ s.ed.shown = j /\ ~Pending(s.ed) /\ s.ed.open = e.open /\ s.ed.locked = e.locked
                        /\ s.rows = c.rows
      OBVIOUS
    <2> HIDE DEF e, c
    <2>1. ~Pending(c.ed) /\ e.open /\ j \in Job \cup {None} /\ Sound(c) /\ e \in Editor
      BY <1>2, <1>3, <1>8 DEF Pending
    <2> QED
      BY <2>1, ShownIsSound
  <1> HIDE DEF c, f, v, l, t, e, s
  <1>10. CASE ~w.ed.open
    <2>1. v = w
      BY <1>1, <1>10
    <2>2. w.ed.shown = None
      BY <1>10 DEF Sound
    <2>3. Same(w, w) /\ (w.ed.locked => w.ed.draft = 0)
      BY DEF Same, Sound
    <2>4. Kept(w, w)
      BY <1>0, <2>3, SameIsSound
    <2>5. Clean(w)
      BY <1>10 DEF Clean, CleanBut
    <2>20. Near(w, w, j)
      BY <1>0 DEF Near, Same
    <2> QED
      BY <1>0, <2>1, <2>2, <2>4, <2>5, <2>20 DEF v
  <1>11. CASE w.ed.open /\ w.ed.shown \notin {None, j} /\ f.ed.dirty
    <2>1. v = f
      BY <1>1, <1>3, <1>11
    <2>2. Clean(f)
      BY <1>11 DEF Clean, CleanBut
    <2>3. Pending(f.ed) => Pending(w.ed)
      BY <1>4 DEF Pending
    <2>20. Near(w, f, j)
      BY <1>4 DEF Near, Same
    <2> QED
      BY <1>4, <1>11, <2>1, <2>2, <2>3, <2>20 DEF v
  <1>12. CASE w.ed.open /\ w.ed.shown \notin {None, j} /\ ~f.ed.dirty
    <2>1. v = l
      BY <1>1, <1>3, <1>12
    <2>2. l.ed.draft = 0
      BY <1>4, <1>6 DEF Same
    <2>3. Sound(l) /\ Kept(f, l) /\ \A i : CleanBut(f, i) <=> CleanBut(l, i)
      BY <1>4, <1>6, <2>2, SameIsSound
    <2>4. Kept(w, l)
      BY <1>0, <1>4, <1>5, <1>6, <2>3, KeptTrans
    <2>5. CleanBut(w, j) => Clean(l)
      BY <1>4, <1>6, <1>12, <2>3 DEF Clean, CleanBut, Same
    <2>6. ~Pending(l.ed)
      BY <1>6, <1>12, <2>2 DEF Same, Pending
    <2>7. l.ed.open = w.ed.open /\ l.ed.shown = w.ed.shown /\ l.ed.stale = w.ed.stale
      BY <1>4, <1>6 DEF Same
    <2>20. Near(w, l, j)
      BY <1>4, <1>6 DEF Near, Same
    <2> QED
      BY <1>12, <2>1, <2>3, <2>4, <2>5, <2>6, <2>7, <2>20 DEF v
  <1>13. CASE w.ed.open /\ w.ed.shown \in {None, j} /\ c.ed.dirty
    <2>1. v = t
      BY <1>1, <1>3, <1>13
    <2>2. Sound(t) /\ Kept(c, t) /\ t.ed.dirty
      <3>1. c.ed.locked => t.ed.draft = 0
        BY <1>3, <1>7 DEF Same
      <3>2. t.ed.dirty
        BY <1>7, <1>13 DEF Same
      <3> QED
        BY <1>2, <1>7, <3>1, <3>2, SameIsSound
    <2>3. Kept(w, t)
      BY <1>0, <1>2, <1>5, <1>7, <2>2, KeptTrans
    <2>4. Clean(t)
      BY <2>2 DEF Clean, CleanBut
    <2>5. Pending(w.ed) /\ w.ed.shown = j
      BY <1>3, <1>13 DEF Sound
    <2>6. t.ed.open = w.ed.open /\ t.ed.shown = w.ed.shown /\ t.ed.stale = w.ed.stale
      BY <1>3, <1>7 DEF Same
    <2>20. Near(w, t, j)
      BY <1>2, <1>3, <1>7 DEF Near, Same
    <2> QED
      BY <2>1, <2>2, <2>3, <2>4, <2>5, <2>6, <2>20 DEF v
  <1>14. CASE w.ed.open /\ w.ed.shown \in {None, j} /\ ~c.ed.dirty
    <2>1. v = s
      BY <1>1, <1>3, <1>14
    <2>2. /\ Sound(s) /\ Kept(c, s) /\ Clean(s)
          /\ s.ed.shown = j /\ ~Pending(s.ed) /\ s.ed.open = w.ed.open /\ s.ed.locked = lock
          /\ s.rows = w.rows
      BY <1>2, <1>3, <1>8, <1>9, <1>14
    <2>3. s \in Worlds
      BY <2>2 DEF Sound
    <2>4. Kept(w, s)
      BY <1>0, <1>2, <1>5, <2>2, <2>3, KeptTrans
    <2>20. Near(w, s, j)
      BY <2>2 DEF Near, Same
    <2> QED
      BY <2>1, <2>2, <2>4, <2>20 DEF v
  <1> QED
    BY <1>10, <1>11, <1>12, <1>13, <1>14

\* A live transcript ends: what has been changed is saved or stays, everything else is read again.
LEMMA FinishIsSound ==
    ASSUME NEW w, Sound(w), NEW st, NEW ok \in BOOLEAN, NEW j \in Job, NEW succeeded \in BOOLEAN,
           known \in Job \cup {None}
    PROVE  LET v == FinishLive(w, st, ok, j, succeeded)
           IN  /\ Sound(v) /\ Kept(w, v) /\ Clean(v) /\ v.ed.open = w.ed.open
               /\ Near(w, v, IF succeeded THEN j ELSE known)
               /\ ~Pending(w.ed) =>
                     v.ed.shown \in {None, IF succeeded THEN j ELSE known} /\ v.rows = w.rows
               /\ v.ed.shown # None /\ ~v.ed.stale =>
                     \/ v.ed.shown = w.ed.shown /\ ~w.ed.stale /\ Pending(w.ed)
                     \/ v.ed.shown = IF succeeded THEN j ELSE known
  <1> DEFINE c == Committed(w)
             f == Flushed(w, st, ok)
             v == FinishLive(w, st, ok, j, succeeded)
             u == [c EXCEPT !.ed.locked = FALSE]
             t == [u EXCEPT !.ed.told = TRUE]
             l == [f EXCEPT !.ed.locked = FALSE]
             e == [f.ed EXCEPT !.timer = FALSE, !.locked = FALSE]
             i == IF succeeded THEN j ELSE known
             s == [f EXCEPT !.ed = Show(e, i, f.rows)]
  <1>0. w \in Worlds /\ w.ed \in Editor /\ ~CommitRefused(w.ed) /\ i \in Job \cup {None}
    BY DEF Sound, Worlds, CommitRefused
  <1>2. /\ c.ed = Commit(w.ed) /\ c.rows = w.rows
        /\ Sound(c) /\ Kept(w, c)
    BY <1>0, CommitIsSound
  <1>3. /\ c.ed \in Editor /\ c.ed.draft = 0
        /\ c.ed.open = w.ed.open /\ c.ed.shown = w.ed.shown
        /\ c.ed.stale = w.ed.stale
        /\ c.ed.dirty <=> Pending(w.ed)
    BY <1>0, <1>2, CommitFacts
  <1>4. /\ Sound(f) /\ Kept(w, f)
        /\ f.ed.open = w.ed.open /\ f.ed.shown = w.ed.shown /\ f.ed.draft = 0
        /\ f.ed.stale = w.ed.stale
        /\ f.ed.dirty => Pending(w.ed)
        /\ \A k \in Job : k # w.ed.shown => f.rows[k] = w.rows[k]
        /\ ~Pending(w.ed) => f.rows = w.rows
    BY <1>0, FlushIsSound
  <1>5. c \in Worlds /\ f \in Worlds /\ c.ed \in Editor /\ f.ed \in Editor
    BY <1>2, <1>4 DEF Sound, Worlds
  <1>1. v = IF ~w.ed.open THEN w
            ELSE IF c.ed.dirty /\ c.ed.shown = j THEN t
            ELSE IF f.ed.dirty THEN l ELSE s
    <2>1. [c EXCEPT !.ed.locked = FALSE, !.ed.told = TRUE] = t
      BY <1>5 DEF Worlds, Editor
    <2> QED
      BY <1>0, <2>1 DEF FinishLive, Committed, Flushed
  <1>6. l \in Worlds /\ Same(f, l)
    BY <1>5, Cosmetic
  <1>7. t \in Worlds /\ Same(c, t)
    <2>1. u \in Worlds /\ Same(c, u)
      BY <1>5, Cosmetic
    <2> HIDE DEF u, c
    <2>2. t \in Worlds /\ Same(u, t)
      BY <2>1, Cosmetic
    <2> HIDE DEF t
    <2> QED
      BY <2>1, <2>2 DEF Same
  <1>8. e \in Editor /\ e.open = f.ed.open
    BY <1>5 DEF Editor
  <1>9. ~f.ed.dirty /\ w.ed.open =>
            /\ Sound(s) /\ Kept(f, s) /\ Clean(s) /\ s.ed.shown = i /\ s.ed.open = e.open
            /\ s.rows = f.rows
    <2> SUFFICES ASSUME ~f.ed.dirty, w.ed.open
                 PROVE  Sound(s) /\ Kept(f, s) /\ Clean(s) /\ s.ed.shown = i /\ s.ed.open = e.open
                        /\ s.rows = f.rows
      OBVIOUS
    <2> HIDE DEF e, f, i
    <2>1. ~Pending(f.ed) /\ e.open /\ i \in Job \cup {None} /\ Sound(f) /\ e \in Editor
      BY <1>0, <1>4, <1>8 DEF Pending
    <2> QED
      BY <2>1, ShownIsSound
  <1> HIDE DEF c, f, v, u, l, t, e, s
  <1>10. CASE ~w.ed.open
    <2>1. v = w
      BY <1>1, <1>10
    <2>2. w.ed.shown = None
      BY <1>10 DEF Sound
    <2>3. Same(w, w) /\ (w.ed.locked => w.ed.draft = 0)
      BY DEF Same, Sound
    <2>4. Kept(w, w)
      BY <1>0, <2>3, SameIsSound
    <2>5. Clean(w)
      BY <1>10 DEF Clean, CleanBut
    <2>20. Near(w, w, i)
      BY <1>0 DEF Near, Same
    <2> QED
      BY <2>1, <2>2, <2>4, <2>5, <2>20 DEF v
  <1>11. CASE w.ed.open /\ c.ed.dirty /\ c.ed.shown = j
    <2>1. v = t
      BY <1>1, <1>11
    <2>2. t.ed.draft = 0 /\ t.ed.dirty /\ t.ed.open = w.ed.open /\ t.ed.shown = w.ed.shown
          /\ t.ed.stale = w.ed.stale
      BY <1>3, <1>7, <1>11 DEF Same
    <2>3. Sound(t) /\ Kept(c, t)
      BY <1>2, <1>7, <2>2, SameIsSound
    <2>4. Kept(w, t)
      BY <1>0, <1>2, <1>5, <1>7, <2>3, KeptTrans
    <2>5. Clean(t)
      BY <2>2 DEF Clean, CleanBut
    <2>20. Near(w, t, i)
      BY <1>2, <1>3, <1>7 DEF Near, Same
    <2> QED
      BY <1>3, <1>11, <2>1, <2>2, <2>3, <2>4, <2>5, <2>20 DEF v
  <1>12. CASE w.ed.open /\ ~(c.ed.dirty /\ c.ed.shown = j) /\ f.ed.dirty
    <2>1. v = l
      BY <1>1, <1>12
    <2>2. l.ed.draft = 0 /\ l.ed.dirty /\ l.ed.open = w.ed.open /\ l.ed.shown = w.ed.shown
          /\ l.ed.stale = w.ed.stale
      BY <1>4, <1>6, <1>12 DEF Same
    <2>3. Sound(l) /\ Kept(f, l)
      BY <1>4, <1>6, <2>2, SameIsSound
    <2>4. Kept(w, l)
      BY <1>0, <1>4, <1>5, <1>6, <2>3, KeptTrans
    <2>5. Clean(l)
      BY <2>2 DEF Clean, CleanBut
    <2>20. Near(w, l, i)
      BY <1>4, <1>6 DEF Near, Same
    <2> QED
      BY <1>4, <1>12, <2>1, <2>2, <2>3, <2>4, <2>5, <2>20 DEF v
  <1>13. CASE w.ed.open /\ ~(c.ed.dirty /\ c.ed.shown = j) /\ ~f.ed.dirty
    <2>1. v = s
      BY <1>1, <1>13
    <2>2. Sound(s) /\ Kept(f, s) /\ Clean(s) /\ s.ed.shown = i /\ s.ed.open = w.ed.open
          /\ s.rows = f.rows
      BY <1>4, <1>8, <1>9, <1>13
    <2>3. s \in Worlds
      BY <2>2 DEF Sound
    <2>4. Kept(w, s)
      BY <1>0, <1>4, <1>5, <2>2, <2>3, KeptTrans
    <2>20. Near(w, s, i)
      BY <1>4, <2>2 DEF Near, Same
    <2> QED
      BY <1>4, <2>1, <2>2, <2>4, <2>20 DEF v
  <1> QED
    BY <1>10, <1>11, <1>12, <1>13

\* Opening a recording keeps what could not be saved, or shows what is stored.
LEMMA OpenIsSound ==
    ASSUME NEW w, Sound(w), NEW st, NEW ok \in BOOLEAN, NEW entry \in Job \cup {None},
           NEW lock \in BOOLEAN
    PROVE  LET v == Open(w, st, ok, entry, lock)
           IN  /\ Sound(v) /\ Kept(w, v) /\ Clean(v) /\ Near(w, v, entry)
               /\ v.ed.shown # None /\ ~v.ed.stale =>
                     \/ v.ed.shown = w.ed.shown /\ ~w.ed.stale /\ Pending(w.ed)
                     \/ v.ed.shown = entry
  <1> DEFINE f == Flushed(w, st, ok)
             v == Open(w, st, ok, entry, lock)
             e == [f.ed EXCEPT !.open = TRUE, !.locked = lock]
             s == [f EXCEPT !.ed = Show(e, entry, f.rows)]
  <1>0. w \in Worlds /\ w.ed \in Editor /\ ~CommitRefused(w.ed)
    BY DEF Sound, Worlds, CommitRefused
  <1>1. v = IF f.ed.dirty THEN f ELSE s
    BY <1>0 DEF Open, Committed, Flushed
  <1>2. /\ Sound(f) /\ Kept(w, f)
        /\ f.ed.shown = w.ed.shown /\ f.ed.draft = 0 /\ f.ed.stale = w.ed.stale
        /\ f.ed.dirty => Pending(w.ed)
        /\ \A k \in Job : k # w.ed.shown => f.rows[k] = w.rows[k]
    BY <1>0, FlushIsSound
  <1>3. f \in Worlds /\ f.ed \in Editor
    BY <1>2 DEF Sound, Worlds
  <1>4. e \in Editor /\ e.open
    BY <1>3 DEF Editor
  <1>5. ~f.ed.dirty => Sound(s) /\ Kept(f, s) /\ Clean(s) /\ s.ed.shown = entry /\ s.rows = f.rows
    <2> SUFFICES ASSUME ~f.ed.dirty
                 PROVE  Sound(s) /\ Kept(f, s) /\ Clean(s) /\ s.ed.shown = entry /\ s.rows = f.rows
      OBVIOUS
    <2> HIDE DEF e, f
    <2>1. ~Pending(f.ed) /\ e.open /\ Sound(f) /\ e \in Editor
      BY <1>2, <1>4 DEF Pending
    <2> QED
      BY <2>1, ShownIsSound
  <1> HIDE DEF f, v, e, s
  <1>6. CASE f.ed.dirty
    <2>1. Clean(f)
      BY <1>6 DEF Clean, CleanBut
    <2> QED
      BY <1>1, <1>2, <1>6, <2>1 DEF v, Near
  <1>7. CASE ~f.ed.dirty
    <2>1. s \in Worlds
      BY <1>5, <1>7 DEF Sound
    <2>2. Kept(w, s)
      BY <1>0, <1>2, <1>3, <1>5, <1>7, <2>1, KeptTrans
    <2> QED
      BY <1>1, <1>2, <1>5, <1>7, <2>2 DEF v, Near
  <1> QED
    BY <1>6, <1>7

-----------------------------------------------------------------------------
(* The inductive invariant. *)

Typed ==
    /\ state \in [Job -> {"none", "queued", "running", "completed", "stopped"}]
    /\ by \in {"here", "elsewhere"} /\ reported \in BOOLEAN
    /\ handedOff \in Job \cup {None} /\ published \in Job \cup {None} /\ known \in Job \cup {None}
    /\ edits \in 0 .. MaxEdits

\* The gate: one job runs at a time.
OneRuns == \A j, k \in Job : state[j] = "running" /\ state[k] = "running" => j = k

\* What is published, and what the library list says is published, has been completed.
PublishedHasEnded == \A j \in {published, known} \ {None} : state[j] = "completed"

\* What is shown and up to date is a completed transcript, or that of the job this application runs: then
\* the editor is locked and holds no changes.
Steady(e, st, owner) ==
    e.shown # None /\ ~e.stale =>
        \/ st[e.shown] = "completed"
        \/ st[e.shown] = "running" /\ owner = "here" /\ e.locked /\ ~e.dirty

\* A transcript that is shown is one of a job; a job that is not there has no rows.
Backed(w, st) ==
    /\ w.ed.shown # None => st[w.ed.shown] # "none"
    /\ \A j \in Job : st[j] = "none" => w.rows[j] = NoText

EditingIInv ==
    /\ Typed /\ OneRuns /\ PublishedHasEnded
    /\ Sound(World) /\ Clean(World) /\ Steady(ed, state, by) /\ Backed(World, state)

\* The inductive invariant gives what the editor shows at any time.
LEMMA IInvIsEnough == EditingIInv => EditingInv
  <1> SUFFICES ASSUME EditingIInv PROVE EditingInv
    OBVIOUS
  <1>1. Cardinality(Running) <= 1
    <2>1. CASE Running = {}
      BY <2>1, FS_EmptySet
    <2>2. CASE Running # {}
      <3>1. PICK j \in Running : TRUE
        BY <2>2
      <3>2. Running = {j}
        BY <3>1 DEF Running, EditingIInv, OneRuns
      <3> QED
        BY <3>2, FS_Singleton
    <2> QED
      BY <2>1, <2>2
  <1>2. EditingTypeOK
    BY <1>1 DEF EditingTypeOK, EditingIInv, Typed, Sound, World, Worlds
  <1>3. LockedHasNoDraft
    BY DEF LockedHasNoDraft, EditingIInv, Sound, World
  <1>4. CleanIsStored
    <2>1. ed.shown # None /\ ed.open /\ ~ed.dirty /\ ~ed.stale => ed.buffer = rows[ed.shown]
      BY DEF EditingIInv, Clean, CleanBut, World
    <2> QED
      BY <2>1 DEF CleanIsStored
  <1> QED
    BY <1>2, <1>3, <1>4 DEF EditingInv

LEMMA EditingStarts == EditingInit => EditingIInv
  <1> SUFFICES ASSUME EditingInit PROVE EditingIInv
    OBVIOUS
  <1>1. NoText \in Text /\ 0 \in 0 .. MaxEdits
    BY EditingAssumption DEF NoText, Text
  <1>2. Closed \in Editor
    BY <1>1 DEF Closed, Editor
  <1>3. Typed /\ OneRuns /\ PublishedHasEnded
    BY <1>1 DEF EditingInit, Typed, OneRuns, PublishedHasEnded
  <1>4. Sound(World)
    BY <1>1, <1>2 DEF EditingInit, Sound, World, Worlds, Closed, Pending
  <1>5. Clean(World) /\ Steady(ed, state, by) /\ Backed(World, state)
    BY DEF EditingInit, Clean, CleanBut, World, Closed, Steady, Backed
  <1> QED
    BY <1>3, <1>4, <1>5 DEF EditingIInv

\* What a step may do to changes, and to what has been recognized
ChangesStep    == \A e \in Edit : e \in Unsaved(ed) /\ e \notin Unsaved(ed') => Stored(e) \/ Removal
RecognizedStep == \A j \in Job : rows'[j].seen < rows[j].seen =>
                     Removal \/ ed.stale \/ \E k \in Job : state[k] = "running" /\ state'[k] = "completed"
GoodStep == EditingIInv' /\ ChangesStep /\ RecognizedStep

\* A handler ends in v.
LEMMA Becoming ==
    ASSUME EditingIInv, NEW v, Sound(v), Clean(v), Become(v), Typed', OneRuns', PublishedHasEnded',
           Steady(v.ed, state', by'), Backed(v, state')
    PROVE  EditingIInv'
  <1>1. World' = v
    BY DEF Sound, Worlds, World, Become
  <1>2. Sound(World)' /\ Clean(World)'
    BY <1>1
  <1>3. Steady(ed, state, by)'
    BY DEF Become
  <1>4. Backed(World, state)'
    BY <1>1
  <1> QED
    BY <1>2, <1>3, <1>4 DEF EditingIInv

\* Saving and showing transcripts that are there
LEMMA NearIsBacked ==
    ASSUME NEW w, NEW v, NEW st, NEW j, Backed(w, st), Near(w, v, j), j = None \/ st[j] # "none"
    PROVE  Backed(v, st)
  <1>1. \A k \in Job : st[k] = "none" => k # w.ed.shown
    BY EditingAssumption DEF Backed
  <1> QED
    BY <1>1 DEF Backed, Near

\* Nothing is lost from the present world to v.
LEMMA KeepingIsGood ==
    ASSUME EditingIInv, NEW v, Sound(v), Kept(World, v), Become(v)
    PROVE  ChangesStep /\ RecognizedStep
  <1>1. ed' = v.ed /\ rows' = v.rows /\ World.ed = ed /\ World.rows = rows
    BY DEF Become, World
  <1>2. ChangesStep
    BY <1>1 DEF Kept, ChangesStep, Stored
  <1>3. \A j \in Job : rows[j].seen \in Nat /\ rows'[j].seen \in Nat
    BY <1>1, EditingAssumption DEF EditingIInv, Sound, Worlds, Text
  <1>4. RecognizedStep
    BY <1>1, <1>3 DEF Kept, RecognizedStep
  <1> QED
    BY <1>2, <1>4

-----------------------------------------------------------------------------
(* The user. *)

\* The world of a state of the invariant
LEMMA PresentWorld ==
    ASSUME EditingIInv
    PROVE  /\ World \in Worlds /\ World.ed = ed /\ World.rows = rows
           /\ ed \in Editor /\ rows \in [Job -> Text]
           /\ Sound(World) /\ Clean(World) /\ ~CommitRefused(ed)
           /\ ed.shown \in Job \cup {None} /\ Backed(World, state)
  <1>1. World.ed = ed /\ World.rows = rows
    BY DEF World
  <1>2. Sound(World) /\ Clean(World) /\ Backed(World, state)
    BY DEF EditingIInv
  <1>3. World \in Worlds /\ ed \in Editor /\ rows \in [Job -> Text]
    BY <1>1, <1>2 DEF Sound, Worlds
  <1>4. ~CommitRefused(ed)
    BY <1>1, <1>2 DEF Sound, CommitRefused
  <1>5. ed.shown \in Job \cup {None}
    BY <1>3 DEF Editor
  <1> QED
    BY <1>1, <1>2, <1>3, <1>4, <1>5

\* No job has moved.
LEMMA JobsStand ==
    ASSUME EditingIInv, UNCHANGED <<state, by, reported, handedOff, published, known>>,
           edits' \in 0 .. MaxEdits
    PROVE  Typed' /\ OneRuns' /\ PublishedHasEnded'
  BY DEF EditingIInv, Typed, OneRuns, PublishedHasEnded

\* What is shown while it is executed here has no changes to flush.
LEMMA FlushKeepsInvariant ==
    ASSUME NEW w, Sound(w), Clean(w), NEW st, Steady(w.ed, st, by), NEW ok \in BOOLEAN
    PROVE  LET f == Flushed(w, st, ok)
           IN  /\ Sound(f) /\ Clean(f) /\ Kept(w, f) /\ Steady(f.ed, st, by)
               /\ f.ed.open = w.ed.open /\ f.ed.shown = w.ed.shown /\ f.ed.draft = 0
               /\ f.ed.locked = w.ed.locked /\ f.ed.stale = w.ed.stale
               /\ Near(w, f, None)
  <1> DEFINE f == Flushed(w, st, ok)
  <1>0. ~CommitRefused(w.ed)
    BY DEF Sound, CommitRefused
  <1>1. /\ Sound(f) /\ Kept(w, f) /\ \A j : CleanBut(w, j) => CleanBut(f, j)
        /\ f.ed.open = w.ed.open /\ f.ed.shown = w.ed.shown /\ f.ed.draft = 0
        /\ f.ed.locked = w.ed.locked /\ f.ed.stale = w.ed.stale
        /\ ~Pending(w.ed) => f.ed = w.ed /\ f.rows = w.rows
        /\ \A k \in Job : k # w.ed.shown => f.rows[k] = w.rows[k]
    BY <1>0, FlushIsSound
  <1> HIDE DEF f
  <1>2. Clean(f)
    BY <1>1 DEF Clean
  <1>3. Steady(f.ed, st, by)
    <2>1. CASE Pending(w.ed)
      <3>1. w.ed.shown # None /\ ~w.ed.stale => st[w.ed.shown] = "completed"
        BY <2>1 DEF Steady, Pending, Sound
      <3> QED
        BY <1>1, <3>1 DEF Steady
    <2>2. CASE ~Pending(w.ed)
      BY <1>1, <2>2
    <2> QED
      BY <2>1, <2>2
  <1> QED
    BY <1>1, <1>2, <1>3 DEF f, Near

\* A text of the user is a change like any other, and a change is made of what is up to date.
LEMMA EditIsGood ==
    ASSUME EditingIInv, ed.open, ~ed.locked, ed.buffer # NoText, NEW v \in Worlds, v.rows = rows,
           v.ed.open = ed.open, v.ed.shown = ed.shown, v.ed.stale = ed.stale, v.ed.locked = ed.locked,
           v.ed.buffer.seen = ed.buffer.seen, ed.buffer.edits \subseteq v.ed.buffer.edits,
           Unsaved(ed) \subseteq Unsaved(v.ed), ed.dirty => v.ed.dirty,
           ~v.ed.dirty => v.ed.buffer = ed.buffer, Become(v),
           UNCHANGED <<state, by, reported, handedOff, published, known>>, edits' \in 0 .. MaxEdits
    PROVE  GoodStep
  <1>0. /\ World \in Worlds /\ World.ed = ed /\ World.rows = rows
        /\ ed \in Editor /\ rows \in [Job -> Text]
        /\ Sound(World) /\ Clean(World) /\ ~CommitRefused(ed)
        /\ ed.shown \in Job \cup {None}
    BY PresentWorld
  <1>1. ed.shown # None
    BY <1>0 DEF Sound
  <1>2. ~ed.stale => rows[ed.shown].seen <= ed.buffer.seen
    <2>1. CASE Pending(ed)
      BY <1>0, <1>1, <2>1 DEF Sound
    <2>2. CASE ~Pending(ed)
      <3>1. ~ed.stale => ed.buffer = rows[ed.shown]
        BY <1>0, <1>1, <2>2 DEF Clean, CleanBut, Pending
      <3>2. ed.shown \in Job /\ rows[ed.shown].seen \in Nat
        BY <1>0, <1>1, EditingAssumption DEF Text
      <3> QED
        BY <3>1, <3>2
    <2> QED
      BY <2>1, <2>2
  <1>3. rows[ed.shown].edits \subseteq v.ed.buffer.edits
    BY <1>0, <1>1 DEF Sound
  <1>4. Sound(v)
    BY <1>0, <1>1, <1>2, <1>3 DEF Sound
  <1>5. Clean(v)
    BY <1>0, <1>1 DEF Clean, CleanBut
  <1>6. \A j \in Job : rows[j].seen \in Nat
    BY <1>0, EditingAssumption DEF Text
  <1>7. Kept(World, v)
    BY <1>0, <1>6 DEF Kept
  <1>8. Steady(v.ed, state', by')
    BY DEF EditingIInv, Steady
  <1>9. Backed(v, state')
    BY <1>0 DEF EditingIInv, Backed
  <1> QED
    BY <1>4, <1>5, <1>7, <1>8, <1>9, JobsStand, Becoming, KeepingIsGood DEF GoodStep

\* Operations on segments.
LEMMA ChangeIsGood == ASSUME EditingIInv, Change PROVE GoodStep
  <1> DEFINE b == Changed(ed.buffer, edits + 1)
             d == [ed EXCEPT !.buffer = b]
             v == [ed |-> Touched(d), rows |-> rows]
  <1>1. edits \in 0 .. MaxEdits /\ edits < MaxEdits
    BY DEF EditingIInv, Typed, Change
  <1>2. edits + 1 \in Edit /\ edits' \in 0 .. MaxEdits
    BY <1>1, EditingAssumption DEF Edit, Change
  <1>3. ed \in Editor /\ rows \in [Job -> Text] /\ ed.buffer \in Text
    BY PresentWorld DEF Editor
  <1>4. b \in Text /\ b.seen = ed.buffer.seen /\ b.edits = ed.buffer.edits \cup {edits + 1}
    BY <1>2, <1>3 DEF Changed, Text
  <1> HIDE DEF b
  <1>5. d \in Editor /\ d.buffer = b /\ d.open = ed.open /\ d.shown = ed.shown /\ d.stale = ed.stale
        /\ d.locked = ed.locked /\ d.draft = ed.draft
    BY <1>3, <1>4 DEF Editor
  <1>6. ed' = Touched(d)
    BY DEF Change, b
  <1> HIDE DEF d
  <1>7. Touched(d) \in Editor /\ Touched(d).dirty /\ Touched(d).buffer = b
        /\ Touched(d).open = ed.open /\ Touched(d).shown = ed.shown /\ Touched(d).stale = ed.stale
        /\ Touched(d).locked = ed.locked /\ Touched(d).draft = ed.draft
    BY <1>5 DEF Touched, Editor
  <1>8. Unsaved(ed) \subseteq Unsaved(Touched(d))
    BY <1>4, <1>7 DEF Unsaved
  <1>9. v \in Worlds /\ v.ed = Touched(d) /\ v.rows = rows
    BY <1>3, <1>7 DEF Worlds
  <1>10. Become(v)
    BY <1>6, <1>9 DEF Become, Change
  <1>11. UNCHANGED <<state, by, reported, handedOff, published, known>> /\ ed.open /\ ~ed.locked
         /\ ed.buffer # NoText
    BY DEF Change
  <1> HIDE DEF v
  <1> QED
    BY <1>2, <1>4, <1>7, <1>8, <1>9, <1>10, <1>11, EditIsGood

LEMMA TypeIsGood == ASSUME EditingIInv, Type PROVE GoodStep
  <1> DEFINE d == [ed EXCEPT !.draft = edits + 1, !.timer = TRUE]
             v == [ed |-> d, rows |-> rows]
  <1>1. edits \in 0 .. MaxEdits /\ edits < MaxEdits /\ ed.draft = 0
    BY DEF EditingIInv, Typed, Type
  <1>2. edits + 1 \in 0 .. MaxEdits /\ edits' \in 0 .. MaxEdits
    BY <1>1, EditingAssumption DEF Type
  <1>3. ed \in Editor /\ rows \in [Job -> Text]
    BY PresentWorld
  <1>4. d \in Editor /\ d.buffer = ed.buffer /\ d.open = ed.open /\ d.shown = ed.shown
        /\ d.stale = ed.stale /\ d.locked = ed.locked
    BY <1>2, <1>3 DEF Editor
  <1>5. d.dirty = ed.dirty
    BY <1>3 DEF Editor
  <1>6. ed' = d
    BY DEF Type
  <1> HIDE DEF d
  <1>7. Unsaved(ed) \subseteq Unsaved(d)
    BY <1>1, <1>4, <1>5 DEF Unsaved
  <1>8. v \in Worlds /\ v.ed = d /\ v.rows = rows
    BY <1>3, <1>4 DEF Worlds
  <1>9. Become(v)
    BY <1>6, <1>8 DEF Become, Type
  <1>10. UNCHANGED <<state, by, reported, handedOff, published, known>> /\ ed.open /\ ~ed.locked
         /\ ed.buffer # NoText
    BY DEF Type
  <1>11. ed.buffer.edits \subseteq d.buffer.edits /\ (ed.dirty => d.dirty)
    BY <1>4, <1>5
  <1> HIDE DEF v
  <1> QED
    BY <1>2, <1>4, <1>7, <1>8, <1>9, <1>10, <1>11, EditIsGood

\* An action that only flushes, and then may touch the timer or say something, is good.
LEMMA FlushIsGood ==
    ASSUME EditingIInv, NEW w, Same(World, w), w \in Worlds, w.ed.locked = ed.locked,
           NEW ok \in BOOLEAN, NEW v \in Worlds, Same(Flushed(w, state, ok), v),
           v.ed.locked = Flushed(w, state, ok).ed.locked, Become(v),
           UNCHANGED <<state, by, reported, handedOff, published, known, edits>>
    PROVE  GoodStep
  <1> DEFINE f == Flushed(w, state, ok)
  <1>0. World \in Worlds /\ World.ed = ed /\ World.rows = rows /\ Sound(World) /\ Clean(World)
    BY PresentWorld
  <1>1. w.ed.locked => w.ed.draft = 0
    BY <1>0 DEF Sound, Same
  <1>2. Sound(w) /\ Kept(World, w) /\ Clean(w)
    BY <1>0, <1>1, SameIsSound DEF Clean
  <1>3. Steady(w.ed, state, by)
    BY <1>0 DEF EditingIInv, Steady, Same
  <1>4. Sound(f) /\ Clean(f) /\ Kept(w, f) /\ Steady(f.ed, state, by)
        /\ f.ed.draft = 0 /\ Near(w, f, None)
    BY <1>2, <1>3, FlushKeepsInvariant
  <1> HIDE DEF f
  <1>5. Same(f, v) /\ v.ed.locked = f.ed.locked
    BY DEF f
  <1>6. v.ed.locked => v.ed.draft = 0
    BY <1>4, <1>5 DEF Same
  <1>7. Sound(v) /\ Kept(f, v) /\ Clean(v)
    BY <1>4, <1>5, <1>6, SameIsSound DEF Clean
  <1>8. Steady(v.ed, state, by)
    BY <1>4, <1>5 DEF Steady, Same
  <1>9. Kept(World, v)
    <2>1. f \in Worlds
      BY <1>4 DEF Sound
    <2>2. Kept(World, f)
      BY <1>0, <1>2, <1>4, <2>1, KeptTrans
    <2> QED
      BY <1>0, <1>7, <2>1, <2>2, KeptTrans
  <1>10. Typed' /\ OneRuns' /\ PublishedHasEnded'
    BY JobsStand DEF EditingIInv, Typed
  <1>11. Steady(v.ed, state', by')
    BY <1>8
  <1>12. Backed(v, state')
    <2>1. Near(World, v, None)
      BY <1>4, <1>5 DEF Near, Same
    <2> QED
      BY <2>1, NearIsBacked, PresentWorld
  <1> QED
    BY <1>7, <1>9, <1>10, <1>11, <1>12, Becoming, KeepingIsGood DEF GoodStep

LEMMA SaveNowIsGood == ASSUME EditingIInv, SaveNow PROVE GoodStep
  <1>0. World \in Worlds /\ World.ed = ed /\ Sound(World) /\ Same(World, World)
        /\ ed \in Editor /\ ~CommitRefused(ed)
    BY PresentWorld DEF Same
  <1>1. PICK ok \in BOOLEAN :
            LET c == Committed(World)
                f == Flushed(World, state, ok)
            IN  Become([f EXCEPT !.ed.timer = IF c.ed.dirty /\ ~f.ed.dirty THEN FALSE ELSE @])
    BY DEF SaveNow, Committed, Flushed
  <1> DEFINE c == Committed(World)
             f == Flushed(World, state, ok)
             b == IF c.ed.dirty /\ ~f.ed.dirty THEN FALSE ELSE f.ed.timer
             v == [f EXCEPT !.ed.timer = b]
  <1>2. Sound(f)
    BY <1>0, FlushIsSound
  <1>3. f \in Worlds /\ b \in BOOLEAN
    BY <1>2 DEF Sound, Worlds, Editor
  <1>4. v \in Worlds /\ Same(f, v) /\ v.ed.locked = f.ed.locked
    <2> HIDE DEF b, f
    <2> QED
      BY <1>3, Cosmetic
  <1>5. Become(v)
    BY <1>1
  <1> HIDE DEF v
  <1> QED
    BY <1>0, <1>4, <1>5, FlushIsGood DEF SaveNow

LEMMA AutosaveIsGood == ASSUME EditingIInv, AutosaveFires PROVE GoodStep
  <1> DEFINE s == [World EXCEPT !.ed.timer = FALSE]
  <1>0. World \in Worlds /\ World.ed = ed /\ ed \in Editor /\ ~CommitRefused(ed)
    BY PresentWorld
  <1>1. s \in Worlds /\ Same(World, s) /\ s.ed.locked = ed.locked
    BY <1>0, Cosmetic
  <1>2. PICK ok \in BOOLEAN :
            LET f == Flushed(s, state, ok)
            IN  Become([f EXCEPT !.ed.timer = IF f.ed.dirty THEN @ ELSE FALSE])
    BY <1>0 DEF AutosaveFires, Committed, Flushed
  <1> HIDE DEF s
  <1> DEFINE f == Flushed(s, state, ok)
             b == IF f.ed.dirty THEN f.ed.timer ELSE FALSE
             v == [f EXCEPT !.ed.timer = b]
  <1>3. Sound(s)
    BY <1>0, <1>1, PresentWorld, SameIsSound DEF Sound, Same
  <1>4. ~CommitRefused(s.ed)
    BY <1>3 DEF Sound, CommitRefused
  <1>5. Sound(f)
    BY <1>3, <1>4, FlushIsSound
  <1>6. f \in Worlds /\ b \in BOOLEAN
    BY <1>5 DEF Sound, Worlds, Editor
  <1>7. v \in Worlds /\ Same(f, v) /\ v.ed.locked = f.ed.locked
    <2> HIDE DEF b, f
    <2> QED
      BY <1>6, Cosmetic
  <1>8. Become(v)
    BY <1>2
  <1> HIDE DEF v
  <1> QED
    BY <1>1, <1>7, <1>8, FlushIsGood DEF AutosaveFires

\* Changes are kept of completed transcripts, or of what may be out of date.
LEMMA PendingHasEnded ==
    ASSUME EditingIInv, ed.shown # None, ~ed.stale, Pending(ed)
    PROVE  state[ed.shown] = "completed"
  BY PresentWorld DEF EditingIInv, Steady, Sound, Pending

\* The editor with nothing open.
LEMMA ClosedIsSound ==
    ASSUME NEW r \in [Job -> Text]
    PROVE  LET v == [ed |-> Closed, rows |-> r]
           IN  Sound(v) /\ Clean(v) /\ v.ed.shown = None /\ Unsaved(v.ed) = {}
  <1>1. NoText \in Text /\ 0 \in 0 .. MaxEdits
    BY EditingAssumption DEF NoText, Text
  <1>2. Closed \in Editor /\ Closed.shown = None /\ Closed.draft = 0 /\ Closed.buffer = NoText
        /\ ~Closed.dirty /\ ~Closed.open /\ ~Closed.locked
    BY <1>1 DEF Closed, Editor
  <1> HIDE DEF Closed
  <1>3. Unsaved(Closed) = {}
    BY <1>2 DEF Unsaved
  <1>4. Sound([ed |-> Closed, rows |-> r])
    BY <1>2 DEF Sound, Worlds, Pending
  <1>5. Clean([ed |-> Closed, rows |-> r])
    BY <1>2 DEF Clean, CleanBut
  <1> QED
    BY <1>2, <1>3, <1>4, <1>5

LEMMA OpenRecordingIsGood == ASSUME EditingIInv, OpenRecording PROVE GoodStep
  <1>0. World \in Worlds /\ World.ed = ed /\ Sound(World) /\ Backed(World, state)
    BY PresentWorld
  <1>1. MayLock(state, by) \subseteq BOOLEAN /\ known \in Job \cup {None}
    BY DEF MayLock, EditingIInv, Typed
  <1>2. PICK ok \in BOOLEAN, lock \in BOOLEAN : Become(Open(World, state, ok, known, lock))
    BY <1>1 DEF OpenRecording
  <1> DEFINE v == Open(World, state, ok, known, lock)
  <1>3. /\ Sound(v) /\ Kept(World, v) /\ Clean(v) /\ Near(World, v, known)
        /\ v.ed.shown # None /\ ~v.ed.stale =>
              \/ v.ed.shown = World.ed.shown /\ ~World.ed.stale /\ Pending(World.ed)
              \/ v.ed.shown = known
    BY <1>0, <1>1, OpenIsSound
  <1>4. Become(v)
    BY <1>2
  <1> HIDE DEF v
  <1>5. known = None \/ state[known] = "completed"
    BY DEF EditingIInv, PublishedHasEnded
  <1>6. Backed(v, state)
    BY <1>0, <1>3, <1>5, NearIsBacked
  <1>7. Steady(v.ed, state, by)
    BY <1>0, <1>3, <1>5, PendingHasEnded DEF Steady
  <1>8. UNCHANGED <<state, by, reported, handedOff, published, known, edits>>
    BY DEF OpenRecording
  <1>9. Typed' /\ OneRuns' /\ PublishedHasEnded'
    BY <1>8, JobsStand DEF EditingIInv, Typed
  <1>10. Steady(v.ed, state', by') /\ Backed(v, state')
    BY <1>6, <1>7, <1>8
  <1> QED
    BY <1>3, <1>4, <1>9, <1>10, Becoming, KeepingIsGood DEF GoodStep

LEMMA OpenOtherIsGood == ASSUME EditingIInv, OpenOther PROVE GoodStep
  <1>0. World \in Worlds /\ World.ed = ed /\ Sound(World) /\ Backed(World, state)
    BY PresentWorld
  <1>1. PICK ok \in BOOLEAN :
            LET w == Open(World, state, ok, None, FALSE)
            IN  Become(IF w.ed.shown = None /\ ~w.ed.dirty THEN [w EXCEPT !.ed = Closed] ELSE w)
    BY DEF OpenOther
  <1> DEFINE w == Open(World, state, ok, None, FALSE)
             c == [ed |-> Closed, rows |-> w.rows]
             v == IF w.ed.shown = None /\ ~w.ed.dirty THEN [w EXCEPT !.ed = Closed] ELSE w
  <1>2. /\ Sound(w) /\ Kept(World, w) /\ Clean(w) /\ Near(World, w, None)
        /\ w.ed.shown # None /\ ~w.ed.stale =>
              \/ w.ed.shown = World.ed.shown /\ ~World.ed.stale /\ Pending(World.ed)
              \/ w.ed.shown = None
    BY <1>0, OpenIsSound
  <1>3. Become(v)
    BY <1>1
  <1> HIDE DEF w
  <1>4. w \in Worlds /\ w.rows \in [Job -> Text] /\ [w EXCEPT !.ed = Closed] = c
    BY <1>2 DEF Sound, Worlds
  <1>5. UNCHANGED <<state, by, reported, handedOff, published, known, edits>>
    BY DEF OpenOther
  <1>6. Typed' /\ OneRuns' /\ PublishedHasEnded'
    BY <1>5, JobsStand DEF EditingIInv, Typed
  <1>7. Sound(c) /\ Clean(c) /\ c.ed.shown = None /\ Unsaved(c.ed) = {} /\ c.rows = w.rows
        /\ c.ed.stale = FALSE
    <2>1. Sound(c) /\ Clean(c) /\ c.ed.shown = None /\ Unsaved(c.ed) = {}
      BY <1>4, ClosedIsSound
    <2>2. c.rows = w.rows /\ c.ed.stale = FALSE
      BY DEF Closed
    <2> QED
      BY <2>1, <2>2
  <1> HIDE DEF c
  <1>8. CASE w.ed.shown = None /\ ~w.ed.dirty
    <2>1. v = c
      BY <1>4, <1>8
    <2>2. Unsaved(w.ed) = {}
      BY <1>2, <1>8 DEF Sound, Unsaved, Pending
    <2>3. \A j \in Job : w.rows[j].seen \in Nat
      BY <1>4, EditingAssumption DEF Text
    <2>4. Kept(w, c)
      BY <1>7, <2>2, <2>3 DEF Kept
    <2>5. c \in Worlds
      BY <1>7 DEF Sound
    <2>6. Kept(World, c)
      BY <1>0, <1>2, <1>4, <2>4, <2>5, KeptTrans
    <2>7. Near(World, c, None)
      BY <1>2, <1>7 DEF Near
    <2>8. Backed(c, state')
      BY <1>0, <1>5, <2>7, NearIsBacked
    <2>9. Steady(c.ed, state', by')
      BY <1>7 DEF Steady
    <2> HIDE DEF v
    <2>10. Become(c)
      BY <1>3, <2>1
    <2> QED
      BY <1>6, <1>7, <2>6, <2>8, <2>9, <2>10, Becoming, KeepingIsGood DEF GoodStep
  <1>9. CASE ~(w.ed.shown = None /\ ~w.ed.dirty)
    <2>1. v = w
      BY <1>9
    <2>2. Backed(w, state')
      BY <1>0, <1>2, <1>5, NearIsBacked
    <2>3. Steady(w.ed, state', by')
      BY <1>0, <1>2, <1>5, PendingHasEnded DEF Steady
    <2> HIDE DEF v
    <2>4. Become(w)
      BY <1>3, <2>1
    <2> QED
      BY <1>2, <1>6, <2>2, <2>3, <2>4, Becoming, KeepingIsGood DEF GoodStep
  <1> QED
    BY <1>8, <1>9

\* A job that has not run, or has been stopped, is queued.
LEMMA QueueingIsQuiet ==
    ASSUME EditingIInv, NEW j \in Job, state[j] \in {"none", "stopped"},
           state' \in {state, [state EXCEPT ![j] = "queued"]},
           UNCHANGED <<by, reported, handedOff, published, known, edits>>
    PROVE  /\ Typed' /\ OneRuns' /\ PublishedHasEnded'
           /\ \A v \in Worlds : /\ Steady(v.ed, state, by) => Steady(v.ed, state', by')
                                /\ Backed(v, state) => Backed(v, state')
  <1>1. Typed /\ OneRuns /\ PublishedHasEnded
    BY DEF EditingIInv
  <1>2. Typed'
    BY <1>1 DEF Typed
  <1>3. /\ \A k \in Job : state'[k] = "running" <=> state[k] = "running"
        /\ \A k \in Job : state'[k] = "completed" <=> state[k] = "completed"
        /\ \A k \in Job : state'[k] = "none" => state[k] = "none"
    BY <1>1 DEF Typed
  <1>4. OneRuns' /\ PublishedHasEnded'
    BY <1>1, <1>3 DEF OneRuns, PublishedHasEnded, Typed
  <1>5. ASSUME NEW v \in Worlds, Steady(v.ed, state, by) PROVE Steady(v.ed, state', by')
    <2>1. v.ed.shown \in Job \cup {None}
      BY DEF Worlds, Editor
    <2> QED
      BY <1>3, <1>5, <2>1 DEF Steady
  <1>6. ASSUME NEW v \in Worlds, Backed(v, state) PROVE Backed(v, state')
    <2>1. v.ed.shown \in Job \cup {None}
      BY DEF Worlds, Editor
    <2> QED
      BY <1>3, <1>6, <2>1 DEF Backed
  <1> QED
    BY <1>2, <1>4, <1>5, <1>6

LEMMA EnqueueIsGood == ASSUME EditingIInv, NEW j \in Job, Enqueue(j) PROVE GoodStep
  <1>0. World \in Worlds /\ World.ed = ed /\ Sound(World) /\ Clean(World) /\ Backed(World, state)
        /\ ~CommitRefused(ed) /\ Steady(World.ed, state, by)
    BY PresentWorld DEF EditingIInv
  <1>1. PICK ok \in BOOLEAN :
            LET f == Flushed(World, state, ok)
            IN  Become(f) /\ state' = IF f.ed.dirty THEN state ELSE [state EXCEPT ![j] = "queued"]
    BY <1>0 DEF Enqueue, Committed, Flushed
  <1> DEFINE f == Flushed(World, state, ok)
  <1>2. /\ Sound(f) /\ Clean(f) /\ Kept(World, f) /\ Steady(f.ed, state, by) /\ Near(World, f, None)
    BY <1>0, FlushKeepsInvariant
  <1>3. Become(f) /\ state' \in {state, [state EXCEPT ![j] = "queued"]}
    BY <1>1
  <1> HIDE DEF f
  <1>4. f \in Worlds /\ Backed(f, state)
    BY <1>0, <1>2, NearIsBacked DEF Sound
  <1>5. state[j] \in {"none", "stopped"} /\ UNCHANGED <<by, reported, handedOff, published, known, edits>>
    BY DEF Enqueue
  <1>6. /\ Typed' /\ OneRuns' /\ PublishedHasEnded'
        /\ Steady(f.ed, state', by') /\ Backed(f, state')
    BY <1>2, <1>3, <1>4, <1>5, QueueingIsQuiet
  <1> QED
    BY <1>2, <1>3, <1>6, Becoming, KeepingIsGood DEF GoodStep

LEMMA RetryIsGood == ASSUME EditingIInv, NEW j \in Job, Retry(j) PROVE GoodStep
  <1>0. World \in Worlds /\ World.ed = ed /\ World.rows = rows /\ Sound(World) /\ Clean(World)
        /\ Backed(World, state) /\ ~CommitRefused(ed) /\ Steady(World.ed, state, by)
    BY PresentWorld DEF EditingIInv
  <1>1. state[j] \in {"none", "stopped"} /\ UNCHANGED <<by, reported, handedOff, published, known, edits>>
    BY DEF Retry
  <1>2. PICK ok \in BOOLEAN :
            LET f == Flushed(World, state, ok)
            IN  IF ed.shown # j THEN state' = [state EXCEPT ![j] = "queued"] /\ UNCHANGED <<ed, rows>>
                ELSE IF f.ed.dirty THEN Become(f) /\ UNCHANGED state
                ELSE /\ Become([f EXCEPT !.ed.locked = TRUE])
                     /\ state' = [state EXCEPT ![j] = "queued"]
    BY <1>0 DEF Retry, Committed, Flushed
  <1> DEFINE f == Flushed(World, state, ok)
             l == [f EXCEPT !.ed.locked = TRUE]
  <1>3. /\ Sound(f) /\ Clean(f) /\ Kept(World, f) /\ Steady(f.ed, state, by) /\ Near(World, f, None)
        /\ f.ed.draft = 0
    BY <1>0, FlushKeepsInvariant
  <1>4. \/ state' = [state EXCEPT ![j] = "queued"] /\ UNCHANGED <<ed, rows>>
        \/ Become(f) /\ UNCHANGED state
        \/ Become(l) /\ state' = [state EXCEPT ![j] = "queued"]
    BY <1>2
  <1>5. f \in Worlds /\ Backed(f, state)
    BY <1>0, <1>3, NearIsBacked DEF Sound
  <1>6. l \in Worlds /\ Same(f, l) /\ l.ed.locked = TRUE
    <2> HIDE DEF f
    <2> QED
      BY <1>5, Cosmetic
  <1> HIDE DEF f, l
  <1>7. CASE state' = [state EXCEPT ![j] = "queued"] /\ UNCHANGED <<ed, rows>>
    <2>1. /\ Typed' /\ OneRuns' /\ PublishedHasEnded'
          /\ Steady(World.ed, state', by') /\ Backed(World, state')
      BY <1>0, <1>1, <1>7, QueueingIsQuiet
    <2>2. Become(World)
      BY <1>7 DEF Become, World
    <2>3. Same(World, World)
      BY DEF Same
    <2>4. Kept(World, World)
      BY <1>0, <2>3, SameIsSound DEF Sound
    <2> QED
      BY <1>0, <2>1, <2>2, <2>4, Becoming, KeepingIsGood DEF GoodStep
  <1>8. CASE Become(f) /\ UNCHANGED state
    <2>1. /\ Typed' /\ OneRuns' /\ PublishedHasEnded'
          /\ Steady(f.ed, state', by') /\ Backed(f, state')
      BY <1>1, <1>3, <1>5, <1>8, QueueingIsQuiet
    <2> QED
      BY <1>3, <1>8, <2>1, Becoming, KeepingIsGood DEF GoodStep
  <1>9. CASE Become(l) /\ state' = [state EXCEPT ![j] = "queued"]
    <2>1. l.ed.draft = 0
      BY <1>3, <1>6 DEF Same
    <2>2. Sound(l) /\ Kept(f, l) /\ Clean(l)
      BY <1>3, <1>6, <2>1, SameIsSound DEF Clean
    <2>3. Kept(World, l)
      BY <1>0, <1>3, <1>5, <1>6, <2>2, KeptTrans
    <2>4. Steady(l.ed, state, by) /\ Backed(l, state)
      BY <1>3, <1>5, <1>6 DEF Same, Steady, Backed
    <2>5. /\ Typed' /\ OneRuns' /\ PublishedHasEnded'
          /\ Steady(l.ed, state', by') /\ Backed(l, state')
      BY <1>1, <1>6, <1>9, <2>4, QueueingIsQuiet
    <2> QED
      BY <1>9, <2>2, <2>3, <2>5, Becoming, KeepingIsGood DEF GoodStep
  <1> QED
    BY <1>4, <1>7, <1>8, <1>9

\* What is shown of rows just read
LEMMA FreshIsSound ==
    ASSUME NEW e \in Editor, NEW r \in [Job -> Text], NEW j \in Job \cup {None}, e.open \/ j = None
    PROVE  LET v == [ed |-> Show(e, j, r), rows |-> r]
           IN  Sound(v) /\ Clean(v) /\ v.ed.shown = j
  <1> DEFINE s == Show(e, j, r)
  <1>1. /\ s \in Editor /\ s.shown = j /\ s.buffer = (IF j = None THEN NoText ELSE r[j])
        /\ s.draft = 0 /\ ~s.dirty /\ ~s.stale /\ s.open = e.open /\ s.locked = e.locked
    BY ShowFacts
  <1> HIDE DEF s
  <1>2. ~Pending(s)
    BY <1>1 DEF Pending
  <1>3. Sound([ed |-> s, rows |-> r])
    BY <1>1, <1>2 DEF Sound, Worlds
  <1>4. Clean([ed |-> s, rows |-> r])
    BY <1>1 DEF Clean, CleanBut
  <1> QED
    BY <1>1, <1>3, <1>4 DEF s

\* A removal excuses what is lost.
LEMMA RemovalExcuses == Removal => ChangesStep /\ RecognizedStep
  BY DEF ChangesStep, RecognizedStep

LEMMA RemoveJobsIsGood == ASSUME EditingIInv, NEW S \in SUBSET Job, RemoveJobs(S) PROVE GoodStep
  <1>0. World \in Worlds /\ World.ed = ed /\ World.rows = rows /\ Sound(World) /\ Clean(World)
        /\ Backed(World, state) /\ Steady(ed, state, by) /\ ed \in Editor /\ rows \in [Job -> Text]
        /\ ed.shown \in Job \cup {None}
    BY PresentWorld DEF EditingIInv
  <1>1. Typed /\ OneRuns /\ PublishedHasEnded
    BY DEF EditingIInv
  <1>2. /\ S # {} /\ \A j \in S : state[j] \in {"completed", "stopped"}
        /\ state' = [j \in Job |-> IF j \in S THEN "none" ELSE state[j]]
        /\ rows' = [j \in Job |-> IF j \in S THEN NoText ELSE rows[j]]
        /\ published' = (IF published \in S THEN None ELSE published)
        /\ known' = published'
        /\ UNCHANGED <<by, reported, handedOff, edits>>
    BY DEF RemoveJobs
  <1>3. NoText \in Text
    BY EditingAssumption DEF NoText, Text
  <1>4. rows' \in [Job -> Text]
    BY <1>0, <1>2, <1>3
  <1>5. Typed'
    BY <1>1, <1>2 DEF Typed
  <1>6. OneRuns'
    BY <1>1, <1>2 DEF OneRuns
  <1>7. published' # None => published' = published /\ published \in Job \ S /\ state[published] = "completed"
    BY <1>1, <1>2 DEF PublishedHasEnded, Typed
  <1>8. PublishedHasEnded'
    BY <1>2, <1>7 DEF PublishedHasEnded
  <1>9. published' \in Job \cup {None}
    BY <1>5 DEF Typed
  <1>10. Removal
    BY <1>2 DEF Removal
  <1>11. PICK removed \in S \cup {None} : ed' = AfterRemoval(ed, removed, published', rows')
    BY DEF RemoveJobs
  <1> DEFINE v == [ed |-> ed', rows |-> rows']
  <1>12. Become(v)
    BY DEF Become
  <1>13. CASE ~ed.open \/ (removed # ed.shown /\ published' = ed.shown)
    <2>1. ed' = ed
      BY <1>11, <1>13 DEF AfterRemoval
    <2>2. ed.shown = published' \/ ed.shown = None
      BY <1>0, <1>13 DEF Sound
    <2>3. ed.shown # None => /\ ed.shown \in Job \ S /\ state[ed.shown] = "completed"
                             /\ rows'[ed.shown] = rows[ed.shown] /\ state'[ed.shown] = "completed"
      BY <1>2, <1>7, <2>2
    <2>4. v.ed = ed /\ v.rows = rows' /\ v \in Worlds
      BY <1>0, <1>4, <2>1 DEF Worlds
    <2> HIDE DEF v
    <2>5. Sound(v) /\ Clean(v)
      BY <1>0, <2>3, <2>4 DEF Sound, Clean, CleanBut
    <2>6. Steady(v.ed, state', by')
      BY <2>3, <2>4 DEF Steady
    <2>7. Backed(v, state')
      BY <1>0, <1>2, <2>3, <2>4 DEF Backed
    <2> QED
      BY <1>5, <1>6, <1>8, <1>10, <1>12, <2>5, <2>6, <2>7, Becoming, RemovalExcuses DEF GoodStep
  <1>14. CASE ~(~ed.open \/ (removed # ed.shown /\ published' = ed.shown))
    <2> DEFINE e == [ed EXCEPT !.timer = FALSE, !.locked = FALSE]
    <2>1. e \in Editor /\ e.open
      BY <1>0, <1>14 DEF Editor
    <2>2. ed' = Show(e, published', rows')
      BY <1>11, <1>14 DEF AfterRemoval
    <2> HIDE DEF e
    <2>3. Sound(v) /\ Clean(v) /\ v.ed.shown = published'
      BY <1>4, <1>9, <2>1, <2>2, FreshIsSound
    <2>4. v.rows = rows'
      OBVIOUS
    <2> HIDE DEF v
    <2>5. published' # None => state'[published'] = "completed"
      BY <1>2, <1>7
    <2>6. Steady(v.ed, state', by')
      BY <2>3, <2>5 DEF Steady
    <2>7. Backed(v, state')
      BY <1>0, <1>2, <2>3, <2>4, <2>5 DEF Backed
    <2> QED
      BY <1>5, <1>6, <1>8, <1>10, <1>12, <2>3, <2>6, <2>7, Becoming, RemovalExcuses DEF GoodStep
  <1> QED
    BY <1>13, <1>14

LEMMA DeletePermanentlyIsGood == ASSUME EditingIInv, DeletePermanently PROVE GoodStep
  <1>0. World \in Worlds /\ World.ed = ed /\ World.rows = rows /\ Sound(World) /\ Clean(World)
        /\ Backed(World, state) /\ Steady(ed, state, by) /\ ed \in Editor /\ rows \in [Job -> Text]
    BY PresentWorld DEF EditingIInv
  <1>1. Typed /\ OneRuns /\ PublishedHasEnded
    BY DEF EditingIInv
  <1>2. UNCHANGED <<by, reported, handedOff, edits>>
    BY DEF DeletePermanently
  <1> DEFINE v == [ed |-> ed', rows |-> rows']
  <1>3. Become(v)
    BY DEF Become
  <1>4. CASE /\ Running = {}
             /\ state' = [j \in Job |-> "none"] /\ rows' = [j \in Job |-> NoText]
             /\ published' = None /\ known' = None /\ ed' = Closed
    <2>1. NoText \in Text
      BY EditingAssumption DEF NoText, Text
    <2>2. rows' \in [Job -> Text]
      BY <1>4, <2>1
    <2>3. Typed' /\ OneRuns' /\ PublishedHasEnded'
      BY <1>1, <1>2, <1>4 DEF Typed, OneRuns, PublishedHasEnded
    <2>4. Sound(v) /\ Clean(v) /\ v.ed.shown = None /\ v.rows = rows'
      BY <1>4, <2>2, ClosedIsSound
    <2> HIDE DEF v
    <2>5. Steady(v.ed, state', by') /\ Backed(v, state')
      BY <1>4, <2>4 DEF Steady, Backed
    <2>6. EditingIInv'
      BY <1>3, <2>3, <2>4, <2>5, Becoming
    <2>7. CASE \E j \in Job : state[j] # "none"
      <3>1. Removal
        BY <1>4, <2>7 DEF Removal
      <3> QED
        BY <2>6, <3>1, RemovalExcuses DEF GoodStep
    <2>8. CASE ~\E j \in Job : state[j] # "none"
      <3>1. ed.shown = None
        BY <1>0, <2>8, PresentWorld DEF Backed
      <3>2. Unsaved(ed) = {}
        BY <1>0, <3>1 DEF Sound, Pending, Unsaved
      <3>3. rows' = rows
        BY <1>0, <1>4, <2>8 DEF Backed
      <3>4. \A j \in Job : ~(rows'[j].seen < rows[j].seen)
        BY <1>0, <3>3, EditingAssumption DEF Text
      <3> QED
        BY <2>6, <3>2, <3>4 DEF GoodStep, ChangesStep, RecognizedStep
    <2> QED
      BY <2>7, <2>8
  <1>5. CASE /\ ed.open /\ ed' = [ed EXCEPT !.timer = FALSE, !.told = @ \/ ed.dirty \/ ed.draft # 0]
             /\ UNCHANGED <<state, rows, published, known>>
    <2> DEFINE b == ed.told \/ ed.dirty \/ ed.draft # 0
    <2>1. b \in BOOLEAN /\ ed' = [ed EXCEPT !.timer = FALSE, !.told = b]
      BY <1>5
    <2> HIDE DEF b
    <2>2. ed' \in Editor /\ ed'.locked = ed.locked /\ Same(World, v)
      BY <1>0, <1>5, <2>1 DEF Editor, Same
    <2>3. v \in Worlds /\ v.ed.locked = ed.locked /\ v.rows = rows
      BY <1>0, <1>5, <2>2 DEF Worlds
    <2> HIDE DEF v
    <2>4. v.ed.locked => v.ed.draft = 0
      BY <1>0, <2>2, <2>3 DEF Sound, Same
    <2>5. Sound(v) /\ Kept(World, v) /\ Clean(v)
      BY <1>0, <2>2, <2>3, <2>4, SameIsSound DEF Clean
    <2>6. Steady(v.ed, state', by') /\ Backed(v, state')
      BY <1>0, <1>2, <1>5, <2>2, <2>3 DEF Same, Steady, Backed
    <2>7. Typed' /\ OneRuns' /\ PublishedHasEnded'
      BY <1>2, <1>5, JobsStand DEF EditingIInv, Typed
    <2> QED
      BY <1>3, <2>5, <2>6, <2>7, Becoming, KeepingIsGood DEF GoodStep
  <1> QED
    BY <1>4, <1>5 DEF DeletePermanently

-----------------------------------------------------------------------------
(* The coordinator of this application. *)

\* Halfway: what is shown and up to date is completed, or holds no changes; rows are there for the jobs
\* that are there.
Tame(w, st) ==
    /\ w.ed.shown # None /\ ~w.ed.stale => st[w.ed.shown] = "completed" \/ ~Pending(w.ed)
    /\ w.ed.shown # None /\ Pending(w.ed) => st[w.ed.shown] # "none"
    /\ \A j \in Job : st[j] = "none" => w.rows[j] = NoText

Settled(w, st) == w.ed.shown # None /\ ~w.ed.stale => st[w.ed.shown] = "completed"

LEMMA ReloadIsTame ==
    ASSUME NEW w, Sound(w), NEW st, NEW ok \in BOOLEAN, NEW j \in Job, NEW lock \in BOOLEAN,
           Tame(w, st), Backed(w, st)
    PROVE  LET v == ReloadForJob(w, st, ok, j, lock)
           IN  Sound(v) /\ Kept(w, v) /\ Tame(v, st)
  <1> DEFINE v == ReloadForJob(w, st, ok, j, lock)
  <1>1. /\ Sound(v) /\ Kept(w, v) /\ Near(w, v, j)
        /\ \/ /\ v.ed.shown = w.ed.shown /\ w.ed.shown # j
              /\ v.ed.stale = w.ed.stale /\ (Pending(v.ed) => Pending(w.ed))
           \/ /\ v.ed.shown = j /\ w.ed.shown = j /\ v.ed.stale = w.ed.stale
              /\ Pending(w.ed)
           \/ v.ed.shown = j /\ ~Pending(v.ed) /\ v.ed.locked = lock
    BY ReloadIsSound
  <1> HIDE DEF v
  <1>2. \A k \in Job : st[k] = "none" => v.rows[k] = NoText
    <2>1. \A k \in Job : st[k] = "none" => k # w.ed.shown
      BY EditingAssumption DEF Backed
    <2> QED
      BY <1>1, <2>1 DEF Backed, Near
  <1>3. v.ed.shown # None /\ ~v.ed.stale => st[v.ed.shown] = "completed" \/ ~Pending(v.ed)
    BY <1>1 DEF Tame
  <1>4. v.ed.shown # None /\ Pending(v.ed) => st[v.ed.shown] # "none"
    BY <1>1 DEF Backed
  <1>5. Tame(v, st)
    BY <1>2, <1>3, <1>4 DEF Tame
  <1> QED
    BY <1>1, <1>5 DEF v

LEMMA FinishSettles ==
    ASSUME NEW w, Sound(w), NEW st, NEW ok \in BOOLEAN, NEW j \in Job, NEW succeeded \in BOOLEAN,
           Tame(w, st), known \in Job \cup {None}, succeeded => st[j] = "completed",
           known # None => st[known] = "completed"
    PROVE  LET v == FinishLive(w, st, ok, j, succeeded)
           IN  Sound(v) /\ Kept(w, v) /\ Clean(v) /\ Settled(v, st) /\ Backed(v, st)
  <1> DEFINE v == FinishLive(w, st, ok, j, succeeded)
             i == IF succeeded THEN j ELSE known
  <1>1. /\ Sound(v) /\ Kept(w, v) /\ Clean(v) /\ Near(w, v, i)
        /\ ~Pending(w.ed) => v.ed.shown \in {None, i} /\ v.rows = w.rows
        /\ v.ed.shown # None /\ ~v.ed.stale =>
              \/ v.ed.shown = w.ed.shown /\ ~w.ed.stale /\ Pending(w.ed)
              \/ v.ed.shown = i
    BY FinishIsSound
  <1>2. i # None => st[i] = "completed"
    OBVIOUS
  <1> HIDE DEF v, i
  <1>3. Settled(v, st)
    BY <1>1, <1>2 DEF Settled, Tame
  <1>4. Backed(v, st)
    <2>1. CASE Pending(w.ed)
      <3>1. Backed(w, st)
        BY <2>1 DEF Tame, Backed
      <3> QED
        BY <1>1, <1>2, <3>1, NearIsBacked
    <2>2. CASE ~Pending(w.ed)
      BY <1>1, <1>2, <2>2 DEF Tame, Backed
    <2> QED
      BY <2>1, <2>2
  <1> QED
    BY <1>1, <1>3, <1>4 DEF v

LEMMA OpenSettles ==
    ASSUME NEW w, Sound(w), NEW st, NEW ok \in BOOLEAN, NEW entry \in Job \cup {None},
           NEW lock \in BOOLEAN, Settled(w, st), Backed(w, st), entry # None => st[entry] = "completed"
    PROVE  LET v == Open(w, st, ok, entry, lock)
           IN  Sound(v) /\ Kept(w, v) /\ Clean(v) /\ Settled(v, st) /\ Backed(v, st)
  <1> DEFINE v == Open(w, st, ok, entry, lock)
  <1>1. /\ Sound(v) /\ Kept(w, v) /\ Clean(v) /\ Near(w, v, entry)
        /\ v.ed.shown # None /\ ~v.ed.stale =>
              \/ v.ed.shown = w.ed.shown /\ ~w.ed.stale /\ Pending(w.ed)
              \/ v.ed.shown = entry
    BY OpenIsSound
  <1> HIDE DEF v
  <1>2. Settled(v, st)
    BY <1>1 DEF Settled
  <1>3. Backed(v, st)
    BY <1>1, NearIsBacked
  <1> QED
    BY <1>1, <1>2, <1>3 DEF v

LEMMA SettledIsSteady ==
    ASSUME NEW w, NEW st, NEW owner, Settled(w, st)
    PROVE  Steady(w.ed, st, owner)
  BY DEF Settled, Steady

\* The world in an action that stops or completes at most the job that runs.
LEMMA PresentIsTame ==
    ASSUME EditingIInv, NEW st, \A k \in Job : state[k] = "completed" => st[k] = "completed",
           \A k \in Job : st[k] = "none" => state[k] = "none"
    PROVE  Tame(World, st) /\ Backed(World, st)
  <1>1. World.ed = ed /\ ed.shown \in Job \cup {None} /\ Backed(World, state) /\ Sound(World)
    BY PresentWorld
  <1>2. ed.shown # None /\ ~ed.stale => st[ed.shown] = "completed" \/ ~Pending(ed)
    BY <1>1, PendingHasEnded
  <1>3. Backed(World, st)
    BY <1>1 DEF Backed
  <1> QED
    BY <1>1, <1>2, <1>3 DEF Tame, Backed

\* What a job's step leaves of the editor and of the rows when it touches neither
LEMMA StandingIsGood ==
    ASSUME EditingIInv, UNCHANGED <<ed, rows>>, Typed', OneRuns', PublishedHasEnded',
           Steady(ed, state', by'), Backed(World, state')
    PROVE  GoodStep
  <1>1. World \in Worlds /\ World.ed = ed /\ World.rows = rows /\ Sound(World) /\ Clean(World)
    BY PresentWorld
  <1>2. Become(World)
    BY <1>1 DEF Become
  <1>3. Same(World, World)
    BY DEF Same
  <1>4. Kept(World, World)
    BY <1>1, <1>3, SameIsSound DEF Sound
  <1>5. Steady(World.ed, state', by')
    BY <1>1
  <1> QED
    BY <1>1, <1>2, <1>4, <1>5, Becoming, KeepingIsGood DEF GoodStep

LEMMA BeginIsGood == ASSUME EditingIInv, NEW j \in Job, Begin(j) PROVE GoodStep
  <1>1. Typed /\ OneRuns /\ PublishedHasEnded /\ Steady(ed, state, by) /\ Backed(World, state)
        /\ World.ed = ed /\ ed.shown \in Job \cup {None}
    BY PresentWorld DEF EditingIInv
  <1>2. /\ state[j] = "queued" /\ \A k \in Job : state[k] # "running"
        /\ state' = [state EXCEPT ![j] = "running"] /\ by' = "here" /\ reported' = FALSE
        /\ UNCHANGED <<handedOff, published, known, rows, ed, edits>>
    BY DEF Begin, Running
  <1>3. Typed'
    BY <1>1, <1>2 DEF Typed
  <1>4. \A k \in Job : k # j => state'[k] = state[k]
    BY <1>1, <1>2 DEF Typed
  <1>5. OneRuns' /\ PublishedHasEnded'
    BY <1>1, <1>2, <1>4 DEF OneRuns, PublishedHasEnded, Typed
  <1>6. Steady(ed, state', by')
    BY <1>1, <1>2, <1>4 DEF Steady
  <1>7. Backed(World, state')
    BY <1>1, <1>2, <1>4 DEF Backed, Typed
  <1> QED
    BY <1>2, <1>3, <1>5, <1>6, <1>7, StandingIsGood

\* A job that runs is not published, and no other runs.
LEMMA RunningJob ==
    ASSUME EditingIInv, NEW j \in Job, state[j] = "running"
    PROVE  /\ j # None /\ published # j /\ known # j
           /\ \A k \in Job : k # j => state[k] # "running"
           /\ state \in [Job -> {"none", "queued", "running", "completed", "stopped"}]
  BY EditingAssumption DEF EditingIInv, OneRuns, PublishedHasEnded, Typed

LEMMA WriteRowsIsGood == ASSUME EditingIInv, NEW j \in Job, WriteRows(j) PROVE GoodStep
  <1>0. World \in Worlds /\ World.ed = ed /\ World.rows = rows /\ Sound(World) /\ Clean(World)
        /\ Backed(World, state) /\ Steady(ed, state, by) /\ ed \in Editor /\ rows \in [Job -> Text]
        /\ ed.shown \in Job \cup {None}
    BY PresentWorld DEF EditingIInv
  <1>1. /\ state[j] = "running" /\ by = "here" /\ rows[j].seen < MaxWrites /\ reported' = TRUE
        /\ UNCHANGED <<state, by, handedOff, published, known, edits>>
    BY DEF WriteRows, Here
  <1>2. j # None /\ \A k \in Job : k # j => state[k] # "running"
    BY <1>1, RunningJob
  <1> DEFINE t == [rows[j] EXCEPT !.seen = @ + 1]
             r == [rows EXCEPT ![j] = t]
             w == [ed |-> ed, rows |-> r]
  <1>3. rows[j].seen \in Nat /\ rows[j] \in Text
    BY <1>0, EditingAssumption DEF Text
  <1>4. t \in Text /\ t.edits = rows[j].edits /\ t.seen = rows[j].seen + 1
    BY <1>0, <1>1, <1>3, EditingAssumption DEF Text
  <1>a. PICK lock \in BOOLEAN : lock = TRUE
    OBVIOUS
  <1>5. PICK ok \in BOOLEAN : Become(ReloadForJob(w, state, ok, j, lock))
    BY <1>a DEF WriteRows
  <1> HIDE DEF t
  <1>6. r \in [Job -> Text] /\ r[j] = t /\ \A k \in Job : k # j => r[k] = rows[k]
    BY <1>0, <1>4
  <1> HIDE DEF r
  <1>7. w \in Worlds /\ w.ed = ed /\ w.rows = r
    BY <1>0, <1>6 DEF Worlds
  <1> HIDE DEF w
  <1>8. ed.shown = j => ed.stale \/ ~Pending(ed)
    BY <1>1, <1>2, PendingHasEnded
  <1>9. Sound(w)
    BY <1>0, <1>2, <1>4, <1>6, <1>7, <1>8 DEF Sound
  <1>10. CleanBut(w, j)
    BY <1>0, <1>6, <1>7 DEF Clean, CleanBut
  <1>11. Backed(w, state)
    BY <1>0, <1>1, <1>6, <1>7 DEF Backed
  <1>12. Kept(World, w)
    <2>1. \A k \in Job : rows[k].seen \in Nat /\ rows[k].seen <= r[k].seen /\ r[k].edits = rows[k].edits
      <3>1. \A k \in Job : rows[k].seen \in Nat
        BY <1>0, EditingAssumption DEF Text
      <3> QED
        BY <1>4, <1>6, <3>1
    <2> QED
      BY <1>0, <1>7, <2>1 DEF Kept
  <1> DEFINE v == ReloadForJob(w, state, ok, j, lock)
  <1>13. /\ Sound(v) /\ Kept(w, v) /\ (CleanBut(w, j) => Clean(v)) /\ Near(w, v, j)
         /\ \/ /\ v.ed.shown = w.ed.shown /\ w.ed.shown # j
               /\ v.ed.stale = w.ed.stale /\ (Pending(v.ed) => Pending(w.ed))
            \/ /\ v.ed.shown = j /\ w.ed.shown = j /\ v.ed.stale = w.ed.stale
               /\ Pending(w.ed)
            \/ v.ed.shown = j /\ ~Pending(v.ed) /\ v.ed.locked = lock
    BY <1>9, ReloadIsSound
  <1>14. Become(v)
    BY <1>5
  <1> HIDE DEF v
  <1>15. v \in Worlds
    BY <1>13 DEF Sound
  <1>16. Kept(World, v)
    BY <1>0, <1>7, <1>12, <1>13, <1>15, KeptTrans
  <1>17. Backed(v, state)
    BY <1>1, <1>11, <1>13, NearIsBacked
  <1>18. Steady(v.ed, state, by)
    <2>1. CASE v.ed.shown = w.ed.shown /\ w.ed.shown # j /\ v.ed.stale = w.ed.stale
      BY <1>0, <1>2, <1>7, <2>1 DEF Steady
    <2>2. CASE v.ed.shown = j /\ w.ed.shown = j /\ v.ed.stale = w.ed.stale /\ Pending(w.ed)
      BY <1>7, <1>8, <2>2 DEF Steady
    <2>3. CASE v.ed.shown = j /\ ~Pending(v.ed) /\ v.ed.locked = TRUE
      BY <1>1, <2>3 DEF Steady, Pending
    <2> QED
      BY <1>a, <1>13, <2>1, <2>2, <2>3
  <1>19. Typed' /\ OneRuns' /\ PublishedHasEnded'
    BY <1>1 DEF EditingIInv, Typed, OneRuns, PublishedHasEnded
  <1>20. Steady(v.ed, state', by') /\ Backed(v, state')
    BY <1>1, <1>17, <1>18
  <1> QED
    BY <1>10, <1>13, <1>14, <1>16, <1>19, <1>20, Becoming, KeepingIsGood DEF GoodStep

\* The running job leaves its state for another in which there may be rows.
LEMMA RunningJobEnds ==
    ASSUME EditingIInv, NEW j \in Job, state[j] = "running", NEW end \in {"completed", "stopped"},
           state' = [state EXCEPT ![j] = end]
    PROVE  /\ state'[j] = end /\ \A k \in Job : k # j => state'[k] = state[k]
           /\ \A k \in Job : state[k] = "completed" => state'[k] = "completed"
           /\ \A k \in Job : state'[k] = "none" => state[k] = "none"
           /\ OneRuns'
  <1>1. state'[j] = end /\ \A k \in Job : k # j => state'[k] = state[k]
    BY RunningJob
  <1>2. OneRuns'
    BY <1>1 DEF EditingIInv, OneRuns
  <1> QED
    BY <1>1, <1>2

LEMMA CompleteIsGood == ASSUME EditingIInv, NEW j \in Job, Complete(j) PROVE GoodStep
  <1>0. World \in Worlds /\ World.ed = ed /\ World.rows = rows /\ Sound(World) /\ Clean(World)
        /\ ed \in Editor /\ rows \in [Job -> Text] /\ ed.shown \in Job \cup {None} /\ Typed
    BY PresentWorld DEF EditingIInv
  <1>1. /\ state[j] = "running" /\ state' = [state EXCEPT ![j] = "completed"]
        /\ published' = j /\ known' = j
        /\ UNCHANGED <<by, reported, handedOff, edits>>
    BY DEF Complete, Here
  <1>2. /\ state'[j] = "completed" /\ \A k \in Job : k # j => state'[k] = state[k]
        /\ \A k \in Job : state[k] = "completed" => state'[k] = "completed"
        /\ \A k \in Job : state'[k] = "none" => state[k] = "none"
        /\ OneRuns'
    BY <1>1, RunningJobEnds
  <1>3. Typed' /\ PublishedHasEnded'
    BY <1>0, <1>1, <1>2 DEF Typed, PublishedHasEnded
  <1>a. PICK no \in BOOLEAN, yes \in BOOLEAN : no = FALSE /\ yes = TRUE
    OBVIOUS
  <1> DEFINE r == Superseded(j)
             w == [ed |-> ed, rows |-> r]
  <1>4. NoText \in Text
    BY EditingAssumption DEF NoText, Text
  <1>5. r \in [Job -> Text] /\ r[j] = rows[j] /\ \A k \in Job : k # j => r[k] = NoText
    BY <1>0, <1>4 DEF Superseded
  <1>6. PICK ok1 \in BOOLEAN, ok2 \in BOOLEAN :
            LET a == ReloadForJob(w, state', ok1, j, no)
                b == FinishLive(a, state', ok2, j, yes)
            IN  Become(IF b.ed.open THEN Open(b, state', ok2, j, no) ELSE b)
    BY <1>a DEF Complete
  <1> HIDE DEF r
  <1>7. w \in Worlds /\ w.ed = ed /\ w.rows = r
    BY <1>0, <1>5 DEF Worlds
  <1> HIDE DEF w
  <1>8. Sound(w)
    <2>1. ed.shown # None => r[ed.shown].edits \subseteq ed.buffer.edits
      BY <1>0, <1>5 DEF Sound, NoText
    <2>2. ed.shown # None /\ ~ed.stale /\ Pending(ed) => r[ed.shown].seen <= ed.buffer.seen
      <3>1. ed.buffer.seen \in Nat
        BY <1>0, EditingAssumption DEF Editor, Text
      <3> QED
        BY <1>0, <1>5, <3>1 DEF Sound, NoText
    <2> QED
      BY <1>0, <1>7, <2>1, <2>2 DEF Sound
  <1>9. Tame(World, state') /\ Backed(World, state')
    BY <1>2, PresentIsTame
  <1>10. Tame(w, state') /\ Backed(w, state')
    BY <1>0, <1>2, <1>5, <1>7, <1>9 DEF Tame, Backed
  <1> DEFINE a == ReloadForJob(w, state', ok1, j, no)
             b == FinishLive(a, state', ok2, j, yes)
             o == Open(b, state', ok2, j, no)
             v == IF b.ed.open THEN o ELSE b
  <1>11. Sound(a) /\ Kept(w, a) /\ Tame(a, state')
    BY <1>8, <1>10, ReloadIsTame
  <1>12. Become(v)
    BY <1>6
  <1> HIDE DEF a
  <1>13. known \in Job \cup {None} /\ (known # None => state'[known] = "completed")
    BY <1>0, <1>2 DEF EditingIInv, PublishedHasEnded, Typed
  <1>14. Sound(b) /\ Kept(a, b) /\ Clean(b) /\ Settled(b, state') /\ Backed(b, state')
    BY <1>2, <1>11, <1>13, FinishSettles
  <1> HIDE DEF b
  <1>15. Sound(o) /\ Kept(b, o) /\ Clean(o) /\ Settled(o, state') /\ Backed(o, state')
    BY <1>2, <1>14, OpenSettles
  <1> HIDE DEF o
  <1>16. a \in Worlds /\ b \in Worlds /\ o \in Worlds
    BY <1>11, <1>14, <1>15 DEF Sound
  <1>17. Kept(w, b) /\ Kept(w, o)
    BY <1>7, <1>11, <1>14, <1>15, <1>16, KeptTrans
  <1>18. Sound(v) /\ Kept(w, v) /\ Clean(v) /\ Settled(v, state') /\ Backed(v, state')
    BY <1>14, <1>15, <1>17
  <1> HIDE DEF v
  <1>19. Steady(v.ed, state', by')
    BY <1>18, SettledIsSteady
  <1>20. EditingIInv'
    BY <1>2, <1>3, <1>12, <1>18, <1>19, Becoming
  <1>21. ChangesStep
    BY <1>7, <1>12, <1>18 DEF ChangesStep, Become, Kept, Stored
  <1>22. RecognizedStep
    BY <1>1, <1>2 DEF RecognizedStep
  <1> QED
    BY <1>20, <1>21, <1>22 DEF GoodStep

LEMMA StopIsGood == ASSUME EditingIInv, NEW j \in Job, Stop(j) PROVE GoodStep
  <1>0. World \in Worlds /\ Sound(World) /\ Typed /\ PublishedHasEnded
    BY PresentWorld DEF EditingIInv
  <1>1. /\ state[j] = "running" /\ state' = [state EXCEPT ![j] = "stopped"]
        /\ UNCHANGED <<by, reported, handedOff, published, known, edits>>
    BY DEF Stop, Here
  <1>2. /\ state'[j] = "stopped" /\ \A k \in Job : k # j => state'[k] = state[k]
        /\ \A k \in Job : state[k] = "completed" => state'[k] = "completed"
        /\ \A k \in Job : state'[k] = "none" => state[k] = "none"
        /\ OneRuns'
    BY <1>1, RunningJobEnds
  <1>3. Typed' /\ PublishedHasEnded'
    BY <1>0, <1>1, <1>2 DEF Typed, PublishedHasEnded
  <1>a. PICK no \in BOOLEAN : no = FALSE
    OBVIOUS
  <1>4. PICK ok \in BOOLEAN :
            LET a == IF reported THEN ReloadForJob(World, state', ok, j, no) ELSE World
            IN  Become(FinishLive(a, state', ok, j, no))
    BY <1>a DEF Stop
  <1> DEFINE l == ReloadForJob(World, state', ok, j, no)
             a == IF reported THEN l ELSE World
             v == FinishLive(a, state', ok, j, no)
  <1>5. Tame(World, state') /\ Backed(World, state')
    BY <1>2, PresentIsTame
  <1>6. Sound(l) /\ Kept(World, l) /\ Tame(l, state')
    BY <1>0, <1>5, ReloadIsTame
  <1>7. Become(v)
    BY <1>4
  <1> HIDE DEF l
  <1>8. Kept(World, World)
    <2>1. Same(World, World)
      BY DEF Same
    <2> QED
      BY <1>0, <2>1, SameIsSound DEF Sound
  <1>9. Sound(a) /\ Kept(World, a) /\ Tame(a, state')
    BY <1>0, <1>5, <1>6, <1>8
  <1> HIDE DEF a
  <1>10. known \in Job \cup {None} /\ (known # None => state'[known] = "completed")
    BY <1>0, <1>2 DEF PublishedHasEnded, Typed
  <1>11. Sound(v) /\ Kept(a, v) /\ Clean(v) /\ Settled(v, state') /\ Backed(v, state')
    BY <1>a, <1>9, <1>10, FinishSettles
  <1> HIDE DEF v
  <1>12. Kept(World, v)
    BY <1>0, <1>9, <1>11, KeptTrans DEF Sound
  <1>13. Steady(v.ed, state', by')
    BY <1>11, SettledIsSteady
  <1> QED
    BY <1>2, <1>3, <1>7, <1>11, <1>12, <1>13, Becoming, KeepingIsGood DEF GoodStep

\* What is shown is marked as possibly out of date.
LEMMA OutdatedIsSound ==
    ASSUME NEW w, Sound(w), Clean(w), NEW b \in BOOLEAN, w.ed.stale => b
    PROVE  LET v == [w EXCEPT !.ed.stale = b]
           IN  /\ Sound(v) /\ Clean(v) /\ v.rows = w.rows /\ Unsaved(v.ed) = Unsaved(w.ed)
               /\ v.ed.shown = w.ed.shown /\ v.ed.open = w.ed.open /\ v.ed.locked = w.ed.locked
               /\ v.ed.dirty = w.ed.dirty /\ v.ed.stale = b
  <1> DEFINE e == [w.ed EXCEPT !.stale = b]
             v == [ed |-> e, rows |-> w.rows]
  <1>0. w \in Worlds /\ w.ed \in Editor /\ w.rows \in [Job -> Text]
    BY DEF Sound, Worlds
  <1>1. e \in Editor /\ e.open = w.ed.open /\ e.shown = w.ed.shown /\ e.buffer = w.ed.buffer
        /\ e.draft = w.ed.draft /\ e.locked = w.ed.locked
    BY <1>0 DEF Editor
  <1>2. e.dirty = w.ed.dirty /\ e.stale = b
    BY <1>0 DEF Editor
  <1>3. [w EXCEPT !.ed.stale = b] = v
    BY <1>0 DEF Worlds
  <1> HIDE DEF e
  <1>4. Unsaved(e) = Unsaved(w.ed)
    BY <1>1, <1>2 DEF Unsaved
  <1>5. v \in Worlds /\ v.ed = e /\ v.rows = w.rows
    BY <1>0, <1>1 DEF Worlds
  <1> HIDE DEF v
  <1>6. Sound(v)
    BY <1>1, <1>2, <1>5 DEF Sound, Pending
  <1>7. Clean(v)
    BY <1>1, <1>2, <1>5 DEF Clean, CleanBut
  <1> QED
    BY <1>1, <1>2, <1>3, <1>4, <1>5, <1>6, <1>7

LEMMA HandOffIsGood == ASSUME EditingIInv, NEW j \in Job, HandOff(j) PROVE GoodStep
  <1>0. World \in Worlds /\ World.ed = ed /\ World.rows = rows /\ Sound(World) /\ Clean(World)
        /\ rows \in [Job -> Text] /\ Steady(ed, state, by)
        /\ Typed /\ OneRuns /\ PublishedHasEnded
    BY PresentWorld DEF EditingIInv
  <1>1. /\ state[j] = "running" /\ by' = "elsewhere" /\ handedOff' = j
        /\ UNCHANGED <<reported, published, known, edits>>
    BY DEF HandOff, Here
  <1>2. PICK next \in {"stopped", "running"}, ok \in BOOLEAN :
            /\ state' = [state EXCEPT ![j] = next]
            /\ LET w == ReloadForJob(World, state', ok, j, next = "running")
               IN  Become([w EXCEPT !.ed.stale = @ \/ w.ed.shown = j])
    BY DEF HandOff
  <1>a. PICK lock \in BOOLEAN : lock = (next = "running")
    OBVIOUS
  <1>3. /\ state'[j] = next /\ \A k \in Job : k # j => state'[k] = state[k]
        /\ \A k \in Job : state[k] = "completed" => state'[k] = "completed"
        /\ \A k \in Job : state'[k] = "none" => state[k] = "none"
        /\ j # None /\ \A k \in Job : k # j => state[k] # "running"
    BY <1>1, <1>2, RunningJob
  <1>4. Typed' /\ OneRuns' /\ PublishedHasEnded'
    BY <1>0, <1>1, <1>2, <1>3 DEF Typed, OneRuns, PublishedHasEnded
  <1> DEFINE w == ReloadForJob(World, state', ok, j, lock)
             b == w.ed.stale \/ w.ed.shown = j
             v == [w EXCEPT !.ed.stale = b]
  <1>5. Become(v)
    BY <1>2, <1>a
  <1>6. Backed(World, state')
    BY <1>3, PresentIsTame
  <1>7. /\ Sound(w) /\ Kept(World, w) /\ (CleanBut(World, j) => Clean(w)) /\ Near(World, w, j)
        /\ \/ /\ w.ed.shown = World.ed.shown /\ World.ed.shown # j
              /\ w.ed.stale = World.ed.stale /\ (Pending(w.ed) => Pending(World.ed))
           \/ /\ w.ed.shown = j /\ World.ed.shown = j /\ w.ed.stale = World.ed.stale
              /\ Pending(World.ed)
           \/ w.ed.shown = j /\ ~Pending(w.ed) /\ w.ed.locked = lock
    BY <1>0, ReloadIsSound
  <1> HIDE DEF w
  <1>8. Clean(w)
    <2>1. CleanBut(World, j)
      BY <1>0 DEF Clean, CleanBut
    <2> QED
      BY <1>7, <2>1
  <1>9. b \in BOOLEAN /\ (w.ed.stale => b)
    BY <1>7 DEF Sound, Worlds, Editor
  <1>10. b => w.ed.stale \/ w.ed.shown = j
    OBVIOUS
  <1>11. w.ed.shown = j => b
    OBVIOUS
  <1> HIDE DEF b
  <1>12. /\ Sound(v) /\ Clean(v) /\ v.rows = w.rows /\ Unsaved(v.ed) = Unsaved(w.ed)
         /\ v.ed.shown = w.ed.shown /\ v.ed.open = w.ed.open /\ v.ed.locked = w.ed.locked
         /\ v.ed.dirty = w.ed.dirty /\ v.ed.stale = b
    BY <1>7, <1>8, <1>9, OutdatedIsSound
  <1> HIDE DEF v
  <1>13. Backed(v, state')
    <2>1. Near(World, v, j)
      BY <1>7, <1>12 DEF Near
    <2>2. state'[j] # "none"
      BY <1>3
    <2> QED
      BY <1>6, <2>1, <2>2, NearIsBacked
  <1>14. Steady(v.ed, state', by')
    <2> SUFFICES ASSUME v.ed.shown # None, ~v.ed.stale PROVE state'[v.ed.shown] = "completed"
      BY DEF Steady
    <2>1. w.ed.shown # j /\ ~w.ed.stale
      BY <1>9, <1>11, <1>12
    <2>2. v.ed.shown = ed.shown /\ ed.shown # j /\ ~ed.stale /\ ed.shown \in Job
      BY <1>0, <1>7, <1>12, <2>1, PresentWorld
    <2>3. state[ed.shown] = "completed"
      BY <1>0, <1>3, <2>2 DEF Steady
    <2> QED
      BY <1>3, <2>2, <2>3
  <1>15. EditingIInv'
    BY <1>4, <1>5, <1>12, <1>13, <1>14, Becoming
  <1>16. ed' = v.ed /\ rows' = w.rows
    BY <1>5, <1>12 DEF Become
  <1>17. ChangesStep
    BY <1>0, <1>7, <1>12, <1>16 DEF ChangesStep, Kept, Stored
  <1>18. RecognizedStep
    <2>1. \A k \in Job : rows[k].seen \in Nat /\ w.rows[k].seen \in Nat
      BY <1>0, <1>7, EditingAssumption DEF Sound, Worlds, Text
    <2> QED
      BY <1>0, <1>7, <1>16, <2>1 DEF RecognizedStep, Kept
  <1> QED
    BY <1>15, <1>17, <1>18 DEF GoodStep

LEMMA PollIsGood == ASSUME EditingIInv, PollHandedOff PROVE GoodStep
  <1>0. World \in Worlds /\ Sound(World) /\ Typed /\ OneRuns /\ PublishedHasEnded
    BY PresentWorld DEF EditingIInv
  <1> DEFINE h == handedOff
             done == state[h] = "completed"
  <1>1. /\ h \in Job /\ handedOff' = None /\ known' = IF done THEN published ELSE known
        /\ UNCHANGED <<state, by, reported, published, edits>>
    BY <1>0 DEF PollHandedOff, Typed
  <1>a. PICK no \in BOOLEAN, yes \in BOOLEAN : no = FALSE /\ yes = done
    OBVIOUS
  <1>2. PICK ok \in BOOLEAN :
            LET a == ReloadForJob(World, state, ok, h, no)
                b == FinishLive(a, state, ok, h, yes)
            IN  Become(IF done /\ b.ed.open THEN Open(b, state, ok, published, no) ELSE b)
    BY <1>a DEF PollHandedOff
  <1>3. Typed' /\ OneRuns' /\ PublishedHasEnded'
    BY <1>0, <1>1 DEF Typed, OneRuns, PublishedHasEnded
  <1>b. yes => state[h] = "completed"
    BY <1>a
  <1> HIDE DEF h, done
  <1> DEFINE a == ReloadForJob(World, state, ok, h, no)
             b == FinishLive(a, state, ok, h, yes)
             o == Open(b, state, ok, published, no)
             v == IF done /\ b.ed.open THEN o ELSE b
  <1>4. Become(v)
    BY <1>2
  <1>5. Tame(World, state) /\ Backed(World, state)
    BY PresentIsTame
  <1>6. Sound(a) /\ Kept(World, a) /\ Tame(a, state)
    BY <1>0, <1>1, <1>5, ReloadIsTame
  <1> HIDE DEF a
  <1>7. /\ known \in Job \cup {None} /\ (known # None => state[known] = "completed")
        /\ published \in Job \cup {None} /\ (published # None => state[published] = "completed")
    BY <1>0 DEF PublishedHasEnded, Typed
  <1>8. Sound(b) /\ Kept(a, b) /\ Clean(b) /\ Settled(b, state) /\ Backed(b, state)
    BY <1>1, <1>b, <1>6, <1>7, FinishSettles
  <1> HIDE DEF b
  <1>9. Sound(o) /\ Kept(b, o) /\ Clean(o) /\ Settled(o, state) /\ Backed(o, state)
    BY <1>7, <1>8, OpenSettles
  <1> HIDE DEF o
  <1>10. a \in Worlds /\ b \in Worlds /\ o \in Worlds
    BY <1>6, <1>8, <1>9 DEF Sound
  <1>11. Kept(World, b) /\ Kept(World, o)
    BY <1>0, <1>6, <1>8, <1>9, <1>10, KeptTrans
  <1>12. Sound(v) /\ Kept(World, v) /\ Clean(v) /\ Settled(v, state) /\ Backed(v, state)
    BY <1>8, <1>9, <1>11
  <1> HIDE DEF v
  <1>13. Steady(v.ed, state, by)
    BY <1>12, SettledIsSteady
  <1>14. Steady(v.ed, state', by') /\ Backed(v, state')
    BY <1>1, <1>12, <1>13
  <1> QED
    BY <1>3, <1>4, <1>12, <1>14, Becoming, KeepingIsGood DEF GoodStep

-----------------------------------------------------------------------------
(* Another program. *)

LEMMA ThereRunsIsGood == ASSUME EditingIInv, NEW j \in Job, ThereRuns(j) PROVE GoodStep
  <1>1. Typed /\ OneRuns /\ PublishedHasEnded /\ Steady(ed, state, by) /\ Backed(World, state)
        /\ World.ed = ed /\ ed.shown \in Job \cup {None}
    BY PresentWorld DEF EditingIInv
  <1>2. /\ state[j] \in {"none", "stopped"} /\ \A k \in Job : state[k] # "running"
        /\ state' = [state EXCEPT ![j] = "running"] /\ by' = "elsewhere"
        /\ UNCHANGED <<reported, handedOff, published, known, rows, ed, edits>>
    BY DEF ThereRuns, Running
  <1>3. Typed'
    BY <1>1, <1>2 DEF Typed
  <1>4. state'[j] = "running" /\ \A k \in Job : k # j => state'[k] = state[k]
    BY <1>1, <1>2 DEF Typed
  <1>5. OneRuns' /\ PublishedHasEnded'
    BY <1>1, <1>2, <1>4 DEF OneRuns, PublishedHasEnded, Typed
  <1>6. Steady(ed, state', by')
    BY <1>1, <1>2, <1>4 DEF Steady
  <1>7. Backed(World, state')
    BY <1>1, <1>4 DEF Backed
  <1> QED
    BY <1>2, <1>3, <1>5, <1>6, <1>7, StandingIsGood

\* Another program writes rows of a job, and what is shown of it is marked; or completes the job, and what
\* is shown of others is.
LEMMA MarkedIsGood ==
    ASSUME EditingIInv, NEW j \in Job, state[j] = "running", by = "elsewhere", UNCHANGED by,
           Typed', OneRuns', PublishedHasEnded', NEW b \in BOOLEAN, ed.stale => b,
           ed' = [ed EXCEPT !.stale = b], rows' \in [Job -> Text],
           \A k \in Job : state[k] = "completed" => state'[k] = "completed",
           \A k \in Job : state'[k] = "none" => state[k] = "none",
           \A k \in Job : rows'[k] = rows[k] \/ rows'[k] = NoText
                          \/ (rows'[k].edits = rows[k].edits /\ state[k] # "none"),
           ed.shown # None /\ ~b => rows'[ed.shown] = rows[ed.shown],
           RecognizedStep
    PROVE  GoodStep
  <1>0. World \in Worlds /\ World.ed = ed /\ World.rows = rows /\ Sound(World) /\ Clean(World)
        /\ ed \in Editor /\ rows \in [Job -> Text] /\ ed.shown \in Job \cup {None}
        /\ Steady(ed, state, by) /\ Backed(World, state)
    BY PresentWorld DEF EditingIInv
  <1> DEFINE v == [ed |-> ed', rows |-> rows']
  <1>1. /\ ed' \in Editor /\ ed'.open = ed.open /\ ed'.shown = ed.shown /\ ed'.buffer = ed.buffer
        /\ ed'.draft = ed.draft /\ ed'.locked = ed.locked
    BY <1>0 DEF Editor
  <1>2. ed'.dirty = ed.dirty /\ ed'.stale = b
    BY <1>0 DEF Editor
  <1>3. v \in Worlds /\ v.ed = ed' /\ v.rows = rows' /\ Become(v)
    BY <1>1 DEF Worlds, Become
  <1> HIDE DEF v
  <1>4. ed.shown # None => rows'[ed.shown].edits \subseteq ed.buffer.edits
    BY <1>0 DEF Sound, NoText
  <1>5. Sound(v)
    BY <1>0, <1>1, <1>2, <1>3, <1>4 DEF Sound, Pending
  <1>6. Clean(v)
    BY <1>0, <1>1, <1>2, <1>3 DEF Clean, CleanBut
  <1>7. Steady(v.ed, state', by')
    <2>1. ed.shown # None /\ ~b => state[ed.shown] = "completed"
      BY <1>0 DEF Steady
    <2> QED
      BY <1>0, <1>1, <1>2, <1>3, <2>1 DEF Steady
  <1>8. Backed(v, state')
    BY <1>0, <1>1, <1>3 DEF Backed
  <1>9. EditingIInv'
    BY <1>3, <1>5, <1>6, <1>7, <1>8, Becoming
  <1>10. ChangesStep
    <2>1. Unsaved(ed') = Unsaved(ed)
      BY <1>1, <1>2 DEF Unsaved
    <2> QED
      BY <2>1 DEF ChangesStep
  <1> QED
    BY <1>9, <1>10 DEF GoodStep

LEMMA ThereWritesIsGood == ASSUME EditingIInv, NEW j \in Job, ThereWrites(j) PROVE GoodStep
  <1>0. rows \in [Job -> Text] /\ ed \in Editor /\ Typed /\ OneRuns /\ PublishedHasEnded
        /\ World.ed = ed /\ Sound(World)
    BY PresentWorld DEF EditingIInv
  <1> DEFINE t == [rows[j] EXCEPT !.seen = @ + 1]
             b == ed.stale \/ (ed.open /\ ed.shown = j)
  <1>1. /\ state[j] = "running" /\ by = "elsewhere" /\ rows[j].seen < MaxWrites
        /\ rows' = [rows EXCEPT ![j] = t] /\ ed' = [ed EXCEPT !.stale = b]
        /\ UNCHANGED <<state, by, reported, handedOff, published, known, edits>>
    BY DEF ThereWrites, There, Stale
  <1>2. rows[j] \in Text /\ rows[j].seen \in Nat
    BY <1>0, EditingAssumption DEF Text
  <1>3. t \in Text /\ t.edits = rows[j].edits /\ t.seen = rows[j].seen + 1
    BY <1>0, <1>1, <1>2, EditingAssumption DEF Text
  <1> HIDE DEF t
  <1>4. rows' \in [Job -> Text] /\ rows'[j] = t /\ \A k \in Job : k # j => rows'[k] = rows[k]
    BY <1>0, <1>1, <1>3
  <1>5. Typed' /\ OneRuns' /\ PublishedHasEnded'
    BY <1>0, <1>1 DEF Typed, OneRuns, PublishedHasEnded
  <1>6. b \in BOOLEAN /\ (ed.stale => b)
    BY <1>0 DEF Editor
  <1>7. ed.shown # None /\ ~b => rows'[ed.shown] = rows[ed.shown]
    <2>1. ed.shown # None => ed.open /\ ed.shown \in Job
      BY <1>0, PresentWorld DEF Sound
    <2> QED
      BY <1>4, <2>1
  <1>8. RecognizedStep
    <2>1. \A k \in Job : rows[k].seen \in Nat
      BY <1>0, EditingAssumption DEF Text
    <2> QED
      BY <1>3, <1>4, <2>1 DEF RecognizedStep
  <1>9. ed' = [ed EXCEPT !.stale = b]
    BY <1>1
  <1> HIDE DEF b
  <1>10. \A k \in Job : rows'[k] = rows[k] \/ rows'[k] = NoText
                        \/ (rows'[k].edits = rows[k].edits /\ state[k] # "none")
    BY <1>1, <1>3, <1>4
  <1> QED
    BY <1>1, <1>4, <1>5, <1>6, <1>7, <1>8, <1>9, <1>10, MarkedIsGood

LEMMA ThereEndsIsGood == ASSUME EditingIInv, NEW j \in Job, ThereEnds(j) PROVE GoodStep
  <1>0. rows \in [Job -> Text] /\ ed \in Editor /\ Typed /\ OneRuns /\ PublishedHasEnded
        /\ World.ed = ed /\ Sound(World) /\ Steady(ed, state, by) /\ ed.shown \in Job \cup {None}
    BY PresentWorld DEF EditingIInv
  <1>1. state[j] = "running" /\ by = "elsewhere" /\ UNCHANGED <<by, reported, handedOff, known, edits>>
    BY DEF ThereEnds, There
  <1>2. CASE state' = [state EXCEPT ![j] = "stopped"] /\ UNCHANGED <<published, rows, ed>>
    <2>1. /\ state'[j] = "stopped" /\ \A k \in Job : k # j => state'[k] = state[k]
          /\ \A k \in Job : state[k] = "completed" => state'[k] = "completed"
          /\ \A k \in Job : state'[k] = "none" => state[k] = "none"
          /\ OneRuns'
      BY <1>1, <1>2, RunningJobEnds
    <2>2. Typed' /\ PublishedHasEnded'
      BY <1>0, <1>1, <1>2, <2>1 DEF Typed, PublishedHasEnded
    <2>3. Steady(ed, state', by')
      BY <1>0, <1>1, <2>1 DEF Steady
    <2>4. Backed(World, state')
      BY <2>1, PresentIsTame
    <2> QED
      BY <1>2, <2>1, <2>2, <2>3, <2>4, StandingIsGood
  <1>3. CASE /\ state' = [state EXCEPT ![j] = "completed"] /\ published' = j
             /\ rows' = Superseded(j)
             /\ ed' = [ed EXCEPT !.stale = @ \/ (ed.open /\ ed.shown # j)]
    <2> DEFINE b == ed.stale \/ (ed.open /\ ed.shown # j)
    <2>1. /\ state'[j] = "completed" /\ \A k \in Job : k # j => state'[k] = state[k]
          /\ \A k \in Job : state[k] = "completed" => state'[k] = "completed"
          /\ \A k \in Job : state'[k] = "none" => state[k] = "none"
          /\ OneRuns'
      BY <1>1, <1>3, RunningJobEnds
    <2>2. Typed' /\ PublishedHasEnded'
      BY <1>0, <1>1, <1>3, <2>1 DEF Typed, PublishedHasEnded
    <2>3. NoText \in Text
      BY EditingAssumption DEF NoText, Text
    <2>4. rows' \in [Job -> Text] /\ rows'[j] = rows[j] /\ \A k \in Job : k # j => rows'[k] = NoText
      BY <1>0, <1>3, <2>3 DEF Superseded
    <2>5. b \in BOOLEAN /\ (ed.stale => b) /\ ed' = [ed EXCEPT !.stale = b]
      BY <1>0, <1>3 DEF Editor
    <2>6. ed.shown # None /\ ~b => rows'[ed.shown] = rows[ed.shown]
      <3>1. ed.shown # None => ed.open
        BY <1>0 DEF Sound
      <3> QED
        BY <2>4, <3>1
    <2> HIDE DEF b
    <2>7. RecognizedStep
      BY <1>1, <2>1 DEF RecognizedStep
    <2>8. \A k \in Job : rows'[k] = rows[k] \/ rows'[k] = NoText
                         \/ (rows'[k].edits = rows[k].edits /\ state[k] # "none")
      BY <2>4
    <2> QED
      BY <1>1, <2>1, <2>2, <2>4, <2>5, <2>6, <2>7, <2>8, MarkedIsGood
  <1> QED
    BY <1>2, <1>3 DEF ThereEnds

-----------------------------------------------------------------------------
(* The theorems. *)

LEMMA EditingSteps == ASSUME EditingIInv, [EditingNext]_editVars PROVE EditingIInv' /\ [ChangesStep]_editVars
                                                                       /\ [RecognizedStep]_editVars
  <1>1. CASE UNCHANGED editVars
    <2>1. World' = World /\ UNCHANGED <<state, by, reported, handedOff, published, known, rows, ed, edits>>
      BY <1>1 DEF editVars, World
    <2>2. EditingIInv'
      BY <2>1 DEF EditingIInv, Typed, OneRuns, PublishedHasEnded
    <2> QED
      BY <1>1, <2>2
  <1>2. CASE EditingNext
    <2>1. GoodStep
      BY <1>2, ChangeIsGood, TypeIsGood, SaveNowIsGood, AutosaveIsGood, OpenRecordingIsGood,
         OpenOtherIsGood, DeletePermanentlyIsGood, RemoveJobsIsGood, PollIsGood, EnqueueIsGood,
         RetryIsGood, BeginIsGood, WriteRowsIsGood, CompleteIsGood, StopIsGood, HandOffIsGood,
         ThereRunsIsGood, ThereWritesIsGood, ThereEndsIsGood DEF EditingNext
    <2> QED
      BY <2>1 DEF GoodStep
  <1> QED
    BY <1>1, <1>2

\* Whatever the user, the jobs of this application and another program do.
THEOREM EditingInvariant == EditingSpec => []EditingIInv
<1>1. EditingIInv /\ [EditingNext]_editVars => EditingIInv'
  BY EditingSteps
<1> QED
  BY <1>1, EditingStarts, PTL DEF EditingSpec

\* Nothing is typed under the lock, and what is shown without changes is what is stored of the job,
\* however a live transcript, a save that fails, a removal or another program comes between.
THEOREM EditorShowsWhatIsStored == EditingSpec => []EditingInv
  BY EditingInvariant, IInvIsEnough, PTL

\* Changes of the user leave the editor only into the database: no reload, finish, open or retry drops them.
THEOREM ChangesLeaveOnlyIntoTheDatabase == EditingSpec => ChangesNotDropped
<1>1. EditingIInv /\ [EditingNext]_editVars =>
          [\A e \in Edit : e \in Unsaved(ed) /\ e \notin Unsaved(ed') => Stored(e) \/ Removal]_editVars
  BY EditingSteps DEF ChangesStep
<1> QED
  BY <1>1, EditingInvariant, PTL DEF EditingSpec, ChangesNotDropped

\* A save of the editor does not take back what has been recognized since it read the transcript.
THEOREM SavesKeepWhatWasRecognized == EditingSpec => RecognizedIsKept
<1>1. EditingIInv /\ [EditingNext]_editVars =>
          [\A j \in Job : rows'[j].seen < rows[j].seen =>
              Removal \/ ed.stale \/ \E k \in Job : state[k] = "running" /\ state'[k] = "completed"]_editVars
  BY EditingSteps DEF RecognizedStep
<1> QED
  BY <1>1, EditingInvariant, PTL DEF EditingSpec, RecognizedIsKept
=============================================================================
