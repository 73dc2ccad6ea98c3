-------------------------- MODULE MediaImportProofs --------------------------
(***************************************************************************)
(* Proofs about the import of media, for all recordings and folders. The   *)
(* books of a folder import are kept in counters, by handlers of a timer,  *)
(* of scans and of copies; the invariant relates the counters to the copies*)
(* under way. And it says why a copy that is removed when its recording    *)
(* could not be created is not yet anybody else's.                         *)
(***************************************************************************)
EXTENDS MediaImport, FiniteSetTheorems, TLAPS

ManagedCopy(r) == <<"managed", r>>

\* The name waits to be imported, alone or in a folder; it is being imported.
Waits(r)  == r \in fresh \cup folder.pending
Imports(r) == copy[r].at # "none"

\* Before its import a name has no row, no managed copy, and nobody refers to one.
Unnamed ==
    \A r \in Recording :
        Waits(r) \/ Imports(r) =>
            /\ ~Exists(r) /\ ~Referenced(ManagedCopy(r))
            /\ copy[r].at # "published" => disk[ManagedCopy(r)] = Absent

\* A name is imported once, and one copy is published at a time.
Once ==
    /\ fresh \cap folder.pending = {}
    /\ \A r \in Recording : Waits(r) => ~Imports(r)
    /\ \A r, q \in Recording : copy[r].at = "published" /\ copy[q].at = "published" => r = q

\* Copies with a generation are of the folder import that runs, which waits for them.
CopiesOfFolder ==
    \A r \in Recording :
        /\ copy[r].at = "none" => copy[r] = NoCopy
        /\ copy[r].gen # 0 => folder.running /\ copy[r].gen = folder.gen /\ folder.gen \notin scans

\* A folder import that is over, scans or was cancelled has nothing left to start.
FolderSane(f) ==
    /\ f \in Folder
    /\ f.running => f.gen # 0
    /\ ~f.running \/ f.gen \in scans => f.active = 0 /\ f.completed = 0
    /\ ~f.running \/ f.gen \in scans \cup cancelled => f.pending = {} /\ ~f.timer

\* What an import has still to count, n files beside those it has pending or under way.
Owes(f, n) ==
    f.running /\ f.gen \notin cancelled \cup scans =>
        f.completed + f.active + Cardinality(f.pending) + n = f.total

FlagsSound ==
    /\ scans \cup cancelled \subseteq 1 .. folder.gen
    /\ ~up => ~folder.running /\ \A r \in Recording : ~Imports(r)

Working  == {r \in Recording : copy[r].gen # 0 /\ copy[r].at \in {"copying", "finished"}}
Entering == {r \in Recording : Tracked(r) /\ copy[r].at = "published"}

ImportIInv == ImportInv /\ Unnamed /\ Once /\ CopiesOfFolder /\ FolderSane(folder) /\ FlagsSound

-----------------------------------------------------------------------------
(* Numbers and sets. *)

\* Sets of recordings are finite, and those inside others are no larger.
LEMMA Sizes ==
    /\ \A S \in SUBSET Recording : IsFiniteSet(S) /\ Cardinality(S) \in Nat
                                   /\ Cardinality(S) <= Cardinality(Recording)
                                   /\ (Cardinality(S) = 0 <=> S = {})
    /\ Cardinality(Recording) \in Nat
<1>1. IsFiniteSet(Recording)
  BY ImportAssumption
<1>2. ASSUME NEW S \in SUBSET Recording
      PROVE  IsFiniteSet(S) /\ Cardinality(S) \in Nat /\ Cardinality(S) <= Cardinality(Recording)
             /\ (Cardinality(S) = 0 <=> S = {})
  <2>1. IsFiniteSet(S) /\ Cardinality(S) <= Cardinality(Recording)
    BY <1>1, FS_Subset
  <2> QED
    BY <2>1, FS_CardinalityType, FS_EmptySet
<1> QED
  BY <1>1, <1>2, FS_CardinalityType

LEMMA Apart ==
    ASSUME NEW S \in SUBSET Recording, NEW T \in SUBSET Recording, S \cap T = {}
    PROVE  Cardinality(S \cup T) = Cardinality(S) + Cardinality(T)
<1>1. IsFiniteSet(S) /\ IsFiniteSet(T) /\ Cardinality(S) \in Nat /\ Cardinality(T) \in Nat
  BY Sizes
<1>2. Cardinality(S \cup T) = Cardinality(S) + Cardinality(T) - Cardinality(S \cap T)
  BY <1>1, FS_Union
<1>3. Cardinality(S \cap T) = 0
  BY FS_EmptySet
<1> QED
  BY <1>1, <1>2, <1>3

LEMMA Parts ==
    ASSUME NEW S \in SUBSET Recording, NEW T \in SUBSET S
    PROVE  Cardinality(S) = Cardinality(S \ T) + Cardinality(T)
<1>1. S = (S \ T) \cup T /\ (S \ T) \cap T = {} /\ (S \ T) \in SUBSET Recording /\ T \in SUBSET Recording
  OBVIOUS
<1>2. Cardinality((S \ T) \cup T) = Cardinality(S \ T) + Cardinality(T)
  BY <1>1, Apart
<1> QED
  BY <1>1, <1>2

LEMMA OneLess ==
    ASSUME NEW S \in SUBSET Recording, NEW r \in S
    PROVE  Cardinality(S) = Cardinality(S \ {r}) + 1
<1>1. {r} \in SUBSET S
  OBVIOUS
<1>2. Cardinality(S) = Cardinality(S \ {r}) + Cardinality({r})
  BY <1>1, Parts
<1>3. Cardinality({r}) = 1
  BY FS_Singleton
<1> QED
  BY <1>2, <1>3

-----------------------------------------------------------------------------
(* The members of a folder import. *)

LEMMA FolderFields ==
    ASSUME NEW f \in Folder
    PROVE  /\ f.running \in BOOLEAN /\ f.gen \in 0 .. MaxGeneration /\ f.pending \in SUBSET Recording
           /\ f.active \in 0 .. 2 /\ f.completed \in 0 .. Cardinality(Recording)
           /\ f.total \in 0 .. Cardinality(Recording) /\ f.timer \in BOOLEAN
  BY DEF Folder, MaxActiveCopies

\* An import that finishes has nothing left but the copies it still waits for.
LEMMA FinishIs ==
    ASSUME NEW f \in Folder
    PROVE  /\ Finish(f) \in Folder /\ Finish(f).running = FALSE /\ Finish(f).gen = f.gen
           /\ Finish(f).active = f.active /\ Finish(f).pending = {} /\ Finish(f).timer = FALSE
           /\ Finish(f).completed = 0
<1>1. 0 \in 0 .. Cardinality(Recording) /\ f.gen \in 0 .. MaxGeneration /\ f.active \in 0 .. MaxActiveCopies
  BY Sizes, FolderFields DEF MaxActiveCopies
<1>2. /\ NoFolder \in Folder /\ NoFolder.running = FALSE /\ NoFolder.pending = {} /\ NoFolder.timer = FALSE
      /\ NoFolder.completed = 0
  BY <1>1, MediaAssumption, ImportAssumption DEF NoFolder, Folder, MaxActiveCopies
<1> QED
  BY <1>1, <1>2 DEF Folder, Finish

\* What the handlers make of the import: as much is owed, it waits for as many copies, and it is over only
\* when it waits for none.
Continues(f, h) ==
    /\ FolderSane(h) /\ Owes(h, 0)
    /\ h.gen = f.gen /\ h.active = f.active /\ h.pending \subseteq f.pending
    /\ f.running /\ ~h.running => f.active = 0

LEMMA GoesOn ==
    ASSUME NEW f, FolderSane(f), f.gen \notin scans, Owes(f, 0)
    PROVE  Continues(f, GoOn(f))
<1>0. f \in Folder
  BY DEF FolderSane
<1>1. CASE f.pending # {} /\ (~managedOn \/ f.active < MaxActiveCopies)
  <2> DEFINE h == [f EXCEPT !.timer = TRUE]
  <2>1. GoOn(f) = h
    BY <1>1 DEF GoOn
  <2>2. /\ h \in Folder /\ h.running = f.running /\ h.gen = f.gen /\ h.pending = f.pending /\ h.active = f.active
        /\ h.completed = f.completed /\ h.total = f.total
    BY <1>0 DEF Folder
  <2> HIDE DEF h
  <2>3. f.running /\ f.gen \notin scans \cup cancelled
    BY <1>1, <1>0 DEF FolderSane, Folder
  <2>4. FolderSane(h)
    BY <2>2, <2>3 DEF FolderSane
  <2>5. Owes(h, 0)
    BY <2>2 DEF Owes
  <2> QED
    BY <2>1, <2>2, <2>4, <2>5 DEF Continues
<1>2. CASE ~(f.pending # {} /\ (~managedOn \/ f.active < MaxActiveCopies)) /\ f.pending = {} /\ f.active = 0
  <2>1. GoOn(f) = Finish(f)
    BY <1>2 DEF GoOn
  <2>2. FolderSane(Finish(f)) /\ Owes(Finish(f), 0)
    BY <1>0, <1>2, FinishIs DEF FolderSane, Owes
  <2> QED
    BY <1>0, <1>2, <2>1, <2>2, FinishIs DEF Continues
<1>3. CASE ~(f.pending # {} /\ (~managedOn \/ f.active < MaxActiveCopies)) /\ ~(f.pending = {} /\ f.active = 0)
  <2>1. GoOn(f) = f
    BY <1>3 DEF GoOn
  <2> QED
    BY <2>1 DEF Continues
<1> QED
  BY <1>1, <1>2, <1>3

\* Files that are counted were owed, so that the count never meets its cap.
LEMMA Completes ==
    ASSUME NEW f, FolderSane(f), f.gen \notin scans, f.running, NEW n \in Nat, Owes(f, n)
    PROVE  Continues(f, CompleteItems(f, f.gen, n))
<1> DEFINE c == [f EXCEPT !.completed = IF f.completed + n > f.total THEN f.total ELSE f.completed + n]
<1>0. f \in Folder
  BY DEF FolderSane
<1>1. CompleteItems(f, f.gen, n) =
        IF f.gen \in cancelled THEN (IF f.active = 0 THEN Finish(c) ELSE c) ELSE GoOn(c)
  BY DEF CompleteItems
<1>2. /\ f.completed \in Nat /\ f.total \in 0 .. Cardinality(Recording) /\ f.active \in Nat
      /\ Cardinality(f.pending) \in Nat /\ Cardinality(Recording) \in Nat
  BY <1>0, FolderFields, Sizes
<1>3. /\ c \in Folder /\ c.running = f.running /\ c.gen = f.gen /\ c.pending = f.pending /\ c.active = f.active
      /\ c.total = f.total /\ c.timer = f.timer
      /\ c.completed = IF f.completed + n > f.total THEN f.total ELSE f.completed + n
  <2>1. (IF f.completed + n > f.total THEN f.total ELSE f.completed + n) \in 0 .. Cardinality(Recording)
    BY <1>2
  <2> QED
    BY <1>0, <2>1 DEF Folder
<1> HIDE DEF c
<1>4. FolderSane(c)
  BY <1>3 DEF FolderSane
<1>5. Owes(c, 0)
  <2> SUFFICES ASSUME f.gen \notin cancelled \cup scans
               PROVE  c.completed + c.active + Cardinality(c.pending) + 0 = c.total
    BY <1>3 DEF Owes
  <2>1. f.completed + f.active + Cardinality(f.pending) + n = f.total
    BY DEF Owes
  <2>2. c.completed = f.completed + n
    BY <1>2, <1>3, <2>1
  <2> QED
    BY <1>2, <1>3, <2>1, <2>2
<1>6. CASE f.gen \in cancelled /\ f.active = 0
  <2>1. FolderSane(Finish(c)) /\ Owes(Finish(c), 0)
    BY <1>3, <1>6, FinishIs DEF FolderSane, Owes
  <2> QED
    BY <1>1, <1>3, <1>6, <2>1, FinishIs DEF Continues
<1>7. CASE f.gen \in cancelled /\ f.active # 0
  BY <1>1, <1>3, <1>4, <1>5, <1>7 DEF Continues
<1>8. CASE f.gen \notin cancelled
  <2>1. Continues(c, GoOn(c))
    BY <1>3, <1>4, <1>5, GoesOn
  <2> QED
    BY <1>1, <1>3, <1>8, <2>1 DEF Continues
<1> QED
  BY <1>6, <1>7, <1>8

-----------------------------------------------------------------------------
(* What steps do to the books. *)

Books == FolderAccounted /\ ActiveIsReal /\ CopiesOfFolder /\ FolderSane(folder)

CopiesTyped == copy \in [Recording -> Copy]

\* The account of a folder import in other words.
LEMMA AccountIs == FolderAccounted <=> Owes(folder, Cardinality(Entering))
  BY DEF FolderAccounted, Owes, Entering

LEMMA BooksStay ==
    ASSUME Books, UNCHANGED <<folder, copy, scans, cancelled>>
    PROVE  Books'
  BY DEF Books, FolderAccounted, ActiveIsReal, CopiesOfFolder, FolderSane, Tracked

\* Copies outside folder imports are in no books.
LEMMA SingleCopies ==
    ASSUME Books, UNCHANGED <<folder, scans, cancelled>>,
           \A r \in Recording : \/ copy'[r] = copy[r]
                                \/ copy[r].gen = 0 /\ copy'[r].gen = 0 /\ (copy'[r].at = "none" => copy'[r] = NoCopy)
    PROVE  Books'
<1>1. Working' = Working /\ Entering' = Entering
  BY DEF Working, Entering, Tracked
<1>2. ActiveIsReal'
  BY <1>1 DEF Books, ActiveIsReal, Working
<1>3. FolderAccounted'
  BY <1>1, AccountIs DEF Books, FolderAccounted, Entering
<1>4. CopiesOfFolder' /\ FolderSane(folder)'
  BY DEF Books, CopiesOfFolder, FolderSane
<1> QED
  BY <1>2, <1>3, <1>4 DEF Books

\* When a handler is done nobody is publishing, and the import either goes on or waits for no copy.
LEMMA BooksClose ==
    ASSUME NEW f, f.running, f.gen \notin scans, Continues(f, folder'), UNCHANGED <<scans, cancelled>>,
           f.active = Cardinality(Working'), CopiesTyped',
           \A r \in Recording : /\ copy'[r].at = "none" => copy'[r] = NoCopy
                                /\ copy'[r].gen # 0 => copy'[r].gen = f.gen /\ copy'[r].at # "published"
    PROVE  Books'
<1>1. Entering' = {}
  BY DEF Entering, Tracked
<1>2. FolderAccounted'
  <2>1. Owes(folder', 0) /\ Cardinality({}) = 0
    BY FS_EmptySet DEF Continues
  <2>2. folder'.running /\ folder'.gen \notin cancelled' \cup scans' =>
          folder'.completed + folder'.active + Cardinality(folder'.pending) + Cardinality(Entering') = folder'.total
    BY <1>1, <2>1 DEF Owes
  <2> QED
    BY <2>2 DEF FolderAccounted, Entering
<1>3. ActiveIsReal'
  BY DEF Continues, ActiveIsReal, Working
<1>4. CopiesOfFolder'
  <2> SUFFICES ASSUME NEW r \in Recording, copy'[r].gen # 0
               PROVE  folder'.running /\ copy'[r].gen = folder'.gen /\ folder'.gen \notin scans'
    BY DEF CopiesOfFolder
  <2>1. copy'[r].at \in {"copying", "finished"}
    BY DEF CopiesTyped, Copy, NoCopy
  <2>2. Working' \in SUBSET Recording /\ r \in Working'
    BY <2>1 DEF Working
  <2>3. f.active # 0
    BY <2>2, Sizes
  <2>4. folder'.running
    BY <2>3 DEF Continues
  <2> QED
    BY <2>4 DEF Continues
<1>5. FolderSane(folder)'
  BY DEF Continues, FolderSane
<1> QED
  BY <1>2, <1>3, <1>4, <1>5 DEF Books

\* A file less is under way, and one more is still to be counted.
LEMMA UncountedIs ==
    ASSUME Books, CopiesTyped, NEW r \in Recording, copy[r].at \in {"copying", "finished"}, Tracked(r), Entering = {}
    PROVE  /\ folder.running /\ folder.gen \notin scans /\ copy[r].gen = folder.gen
           /\ LET f == Uncounted(r)
              IN  /\ f.running /\ f.gen = folder.gen /\ f.pending = folder.pending /\ FolderSane(f) /\ Owes(f, 1)
                  /\ f.active = Cardinality(Working \ {r})
<1> DEFINE f == [folder EXCEPT !.active = folder.active - 1]
<1>1. folder.running /\ folder.gen \notin scans /\ copy[r].gen = folder.gen /\ copy[r].gen # 0 /\ folder \in Folder
  BY DEF Books, CopiesOfFolder, Tracked, FolderSane
<1>2. Uncounted(r) = f
  BY DEF Uncounted
<1>3. folder.active = Cardinality(Working \ {r}) + 1 /\ Cardinality(Working \ {r}) \in Nat
  <2>1. Working \in SUBSET Recording /\ r \in Working /\ (Working \ {r}) \in SUBSET Recording
    BY <1>1 DEF Working
  <2>2. folder.active = Cardinality(Working)
    BY DEF Books, ActiveIsReal, Working
  <2> QED
    BY <2>1, <2>2, OneLess, Sizes
<1>4. /\ f \in Folder /\ f.running = folder.running /\ f.gen = folder.gen /\ f.pending = folder.pending
      /\ f.completed = folder.completed /\ f.total = folder.total /\ f.timer = folder.timer
      /\ f.active = folder.active - 1
  <2>1. folder.active - 1 \in 0 .. MaxActiveCopies
    BY <1>1, <1>3, FolderFields DEF MaxActiveCopies
  <2> QED
    BY <1>1, <2>1 DEF Folder
<1> HIDE DEF f
<1>5. FolderSane(f)
  BY <1>1, <1>4 DEF FolderSane, Books
<1>6. Owes(f, 1)
  <2>1. Owes(folder, 0)
    BY AccountIs, FS_EmptySet DEF Books
  <2>2. folder.completed \in Nat /\ folder.active \in Nat /\ Cardinality(folder.pending) \in Nat
    BY <1>1, FolderFields, Sizes
  <2> QED
    BY <1>4, <2>1, <2>2 DEF Owes
<1>7. f.active = Cardinality(Working \ {r})
  BY <1>3, <1>4
<1> QED
  BY <1>1, <1>2, <1>4, <1>5, <1>6, <1>7

-----------------------------------------------------------------------------
(* What steps do to names and to files. *)

\* A managed copy that is referred to, before and after the step, stays.
KeepsShared ==
    \A f \in Managed : disk[f] # Absent /\ Referenced(f) /\ Referenced(f)' => disk'[f] # Absent

\* A managed copy that is accounted for stays so, or goes.
KeepsAccounts == \A f \in Managed : Accounted(f) /\ disk'[f] # Absent => Accounted(f)' \/ ~up'

LEMMA ManagedNames ==
    /\ \A r \in Recording : ManagedCopy(r) \in Managed /\ ManagedCopy(r)[2] = r
    /\ \A f \in Managed : f[2] \in Recording /\ f = ManagedCopy(f[2])
    /\ \A r, q \in Recording : ManagedCopy(r) = ManagedCopy(q) => r = q
    /\ Managed \subseteq File /\ SourceFile \subseteq File /\ None \notin Managed
    /\ SourceFile \cap Managed = {} /\ Managed \cap Cache = {}
<1>1. /\ \A r \in Recording : ManagedCopy(r) \in Managed /\ ManagedCopy(r)[2] = r
      /\ \A f \in Managed : f[2] \in Recording /\ f = ManagedCopy(f[2])
  BY DEF ManagedCopy, Managed
<1>2. Managed \subseteq File /\ SourceFile \subseteq File /\ None \notin Managed
  BY NoneAssumption DEF File
<1>3. SourceFile \cap Managed = {} /\ Managed \cap Cache = {}
  BY DEF SourceFile, Managed, Cache
<1> QED
  BY <1>1, <1>2, <1>3

\* A new recording refers to its source and to its copy.
LEMMA NewRowIs ==
    ASSUME ImportTypeOK, NEW r \in Recording, NEW s \in SourceFile \cup Managed, NEW m \in Managed \cup {None},
           row' = [row EXCEPT ![r] = NewRow(s, m)]
    PROVE  /\ row' \in [Recording -> Row \cup {None}]
           /\ \A q \in Recording \ {r} : row'[q] = row[q]
           /\ row'[r] # None /\ row'[r].managed = m
           /\ \A f \in Managed : Referenced(f)' => Referenced(f) \/ f \in {s, m}
           /\ ~Exists(r) => \A f \in Managed : Referenced(f) => Referenced(f)'
<1> DEFINE v == NewRow(s, m)
<1>1. s \in File /\ 0 \in 0 .. MaxVersion
  BY ManagedNames, MediaAssumption
<1>2. /\ v \in Row /\ v.source = s /\ v.managed = m /\ v.pcm = None /\ v.wave = None
  BY <1>1 DEF NewRow, Row
<1> HIDE DEF v
<1>3. v # None
  BY <1>2, NoneAssumption
<1>4. /\ row' \in [Recording -> Row \cup {None}] /\ row'[r] = v
      /\ \A q \in Recording \ {r} : row'[q] = row[q]
  BY <1>2 DEF ImportTypeOK, MediaTypeOK, v
<1>5. ASSUME NEW f \in Managed, Referenced(f)' PROVE Referenced(f) \/ f \in {s, m}
  <2>1. PICK q \in Recording : row'[q] # None /\ f \in {row'[q].source, row'[q].managed, row'[q].pcm, row'[q].wave}
    BY <1>5 DEF Referenced, References, Exists
  <2>2. CASE q = r
    BY <2>1, <2>2, <1>2, <1>4, ManagedNames
  <2>3. CASE q # r
    BY <2>1, <2>3, <1>4 DEF Referenced, References, Exists
  <2> QED
    BY <2>2, <2>3
<1>6. ASSUME ~Exists(r), NEW f \in Managed, Referenced(f) PROVE Referenced(f)'
  <2>1. PICK q \in Recording : Exists(q) /\ f \in References(q)
    BY <1>6 DEF Referenced
  <2>2. q # r
    BY <2>1, <1>6
  <2> QED
    BY <2>1, <2>2, <1>4 DEF Referenced, References, Exists
<1> QED
  BY <1>2, <1>3, <1>4, <1>5, <1>6

\* No name comes back, and no file of one that is still to be imported appears.
LEMMA UnnamedKept ==
    ASSUME Unnamed,
           \A q \in Recording : Waits(q)' \/ Imports(q)' =>
               /\ Waits(q) \/ Imports(q)
               /\ Exists(q)' => Exists(q)
               /\ Referenced(ManagedCopy(q))' => Referenced(ManagedCopy(q))
               /\ copy'[q].at # "published" =>
                      copy[q].at # "published" /\ disk'[ManagedCopy(q)] \in {disk[ManagedCopy(q)], Absent}
    PROVE  Unnamed'
<1> SUFFICES ASSUME NEW q \in Recording, Waits(q)' \/ Imports(q)'
             PROVE  /\ ~Exists(q)' /\ ~Referenced(ManagedCopy(q))'
                    /\ copy'[q].at # "published" => disk'[ManagedCopy(q)] = Absent
  BY DEF Unnamed, ManagedCopy
<1>1. /\ ~Exists(q) /\ ~Referenced(ManagedCopy(q))
      /\ copy[q].at # "published" => disk[ManagedCopy(q)] = Absent
  BY DEF Unnamed
<1> QED
  BY <1>1

\* Steps that touch neither rows nor files.
LEMMA QuietMedia ==
    ASSUME ImportIInv, UNCHANGED mediaVars,
           \A q \in Recording : Waits(q)' \/ Imports(q)' => Waits(q) \/ Imports(q),
           \A q \in Recording : copy[q].at = "published" => copy'[q].at = "published" \/ ~up',
           \A q \in Recording : Imports(q)' /\ copy'[q].at # "published" => copy[q].at # "published",
           \A q \in Recording : Waits(q)' => ~Imports(q)'  /\ Waits(q)
    PROVE  MediaTypeOK' /\ Unnamed' /\ KeepsShared /\ KeepsAccounts
<1>0. UNCHANGED <<row, disk, outbox, written>>
  BY DEF mediaVars
<1>1. MediaTypeOK'
  BY <1>0 DEF MediaTypeOK, ImportIInv, ImportInv, ImportTypeOK
<1>2. Unnamed'
  <2>1. \A q \in Recording : Waits(q)' \/ Imports(q)' =>
               /\ Waits(q) \/ Imports(q)
               /\ Exists(q)' => Exists(q)
               /\ Referenced(ManagedCopy(q))' => Referenced(ManagedCopy(q))
               /\ copy'[q].at # "published" =>
                      copy[q].at # "published" /\ disk'[ManagedCopy(q)] \in {disk[ManagedCopy(q)], Absent}
    <3> SUFFICES ASSUME NEW q \in Recording, Waits(q)' \/ Imports(q)'
                 PROVE  /\ Exists(q)' => Exists(q)
                        /\ Referenced(ManagedCopy(q))' => Referenced(ManagedCopy(q))
                        /\ copy'[q].at # "published" => copy[q].at # "published"
      BY <1>0
    <3>1. Waits(q) => copy[q].at # "published"
      BY DEF ImportIInv, Once, Imports
    <3> QED
      BY <1>0, <3>1 DEF Exists, Referenced, References, Imports
  <2> QED
    BY <2>1, UnnamedKept DEF ImportIInv
<1>3. KeepsShared
  BY <1>0 DEF KeepsShared
<1>4. KeepsAccounts
  <2>1. \A f \in Managed : f[2] \in Recording
    BY ManagedNames
  <2> QED
    BY <1>0, <2>1 DEF KeepsAccounts, Accounted, Exists
<1> QED
  BY <1>1, <1>2, <1>3, <1>4

\* The parts of the invariant.
LEMMA Together ==
    ASSUME ImportTypeOK', Books', Unnamed', Once', FlagsSound'
    PROVE  ImportIInv'
  BY DEF ImportIInv, ImportInv, Books

LEMMA Apiece ==
    ASSUME ImportIInv
    PROVE  /\ ImportTypeOK /\ MediaTypeOK /\ Books /\ Unnamed /\ Once /\ FlagsSound /\ CopiesTyped
           /\ CopiesOfFolder /\ folder \in Folder /\ FolderSane(folder)
  BY DEF ImportIInv, ImportInv, Books, ImportTypeOK, CopiesTyped, FolderSane

Good == ImportIInv' /\ KeepsShared /\ KeepsAccounts

-----------------------------------------------------------------------------
(* Handlers that touch no file. *)

LEMMA NobodyPublishes ==
    ASSUME Ready
    PROVE  up /\ Entering = {} /\ \A r \in Recording : copy[r].at # "published"
  BY DEF Ready, Entering

\* When an import waits for no copy, none of its copies is left.
LEMMA NoneLeft ==
    ASSUME Books, CopiesTyped, Ready, folder.active = 0
    PROVE  \A r \in Recording : copy[r].gen = 0
<1>1. Working \in SUBSET Recording /\ Cardinality(Working) = 0
  BY DEF Books, ActiveIsReal, Working
<1>2. Working = {}
  BY <1>1, Sizes
<1> SUFFICES ASSUME NEW r \in Recording, copy[r].gen # 0 PROVE FALSE
  OBVIOUS
<1>3. copy[r].at \in {"none", "copying", "finished"} /\ (copy[r].at = "none" => copy[r] = NoCopy)
  BY NobodyPublishes DEF CopiesTyped, Copy, Books, CopiesOfFolder
<1> QED
  BY <1>2, <1>3 DEF Working, NoCopy

LEMMA ImportFolderKeeps ==
    ASSUME ImportIInv, ImportFolder
    PROVE  Good
<1> DEFINE h == [NoFolder EXCEPT !.running = TRUE, !.gen = folder.gen + 1]
<1>0. /\ UNCHANGED <<row, disk, outbox, written, up, managedOn, fresh, copy, staging>> /\ UNCHANGED mediaVars
      /\ folder' = h /\ Ready /\ ~folder.running /\ scans' = scans \cup {folder.gen + 1}
      /\ cancelled' \subseteq cancelled /\ folder.gen < MaxGeneration
  BY DEF ImportFolder, mediaVars
<1>1. folder.gen \in 0 .. MaxGeneration /\ MaxGeneration \in Nat /\ folder.active = 0
  BY <1>0, Apiece, FolderFields, ImportAssumption DEF FolderSane
<1>2. /\ h \in Folder /\ h.running /\ h.gen = folder.gen + 1 /\ h.pending = {} /\ h.active = 0 /\ h.completed = 0
      /\ ~h.timer
  <2>1. folder.gen + 1 \in 0 .. MaxGeneration /\ 0 \in 0 .. MaxActiveCopies /\ 0 \in 0 .. Cardinality(Recording)
    BY <1>0, <1>1, Sizes DEF MaxActiveCopies
  <2> QED
    BY <2>1 DEF NoFolder, Folder
<1> HIDE DEF h
<1>3. \A r \in Recording : copy[r].gen = 0
  BY <1>0, <1>1, Apiece, NoneLeft
<1>4. Books'
  <2>1. FolderAccounted'
    BY <1>0, <1>2 DEF FolderAccounted
  <2>2. ActiveIsReal'
    <3>1. Working' = Working /\ folder'.active = 0 /\ folder.active = Cardinality(Working)
      BY <1>0, <1>1, <1>2, Apiece DEF Working, Books, ActiveIsReal
    <3> QED
      BY <3>1, <1>1 DEF ActiveIsReal, Working
  <2>3. CopiesOfFolder'
    BY <1>0, <1>3, Apiece DEF CopiesOfFolder
  <2>4. FolderSane(folder)'
    BY <1>0, <1>1, <1>2 DEF FolderSane
  <2> QED
    BY <2>1, <2>2, <2>3, <2>4 DEF Books
<1>5. MediaTypeOK' /\ Unnamed' /\ KeepsShared /\ KeepsAccounts
  BY <1>0, <1>2, Apiece, QuietMedia DEF Waits, Imports, Once
<1>6. FlagsSound'
  BY <1>0, <1>1, <1>2, Apiece DEF FlagsSound, Ready, Imports
<1>7. Once'
  BY <1>0, <1>2, Apiece DEF Once, Waits, Imports
<1>8. ImportTypeOK'
  <2>1. scans' \subseteq Generation /\ cancelled' \subseteq Generation
    BY <1>0, <1>1, Apiece DEF ImportTypeOK, Generation
  <2> QED
    BY <1>0, <1>2, <1>5, <2>1, Apiece DEF ImportTypeOK
<1> QED
  BY <1>4, <1>5, <1>6, <1>7, <1>8, Together DEF Good

LEMMA CancelFolderImportKeeps ==
    ASSUME ImportIInv, CancelFolderImport
    PROVE  Good
<1> DEFINE f == [folder EXCEPT !.timer = FALSE, !.pending = {}]
<1>0. /\ UNCHANGED <<row, disk, outbox, written, up, managedOn, fresh, copy, staging, scans>> /\ UNCHANGED mediaVars
      /\ folder' = (IF f.active = 0 THEN Finish(f) ELSE f) /\ Ready /\ folder.running
      /\ cancelled' = cancelled \cup {folder.gen}
  BY DEF CancelFolderImport, mediaVars
<1>1. /\ f \in Folder /\ f.running = folder.running /\ f.gen = folder.gen /\ f.pending = {} /\ f.active = folder.active
      /\ f.completed = folder.completed /\ ~f.timer
  BY Apiece DEF Folder
<1> HIDE DEF f
<1>2. /\ folder' \in Folder /\ folder'.gen = folder.gen /\ folder'.active = folder.active /\ folder'.pending = {}
      /\ ~folder'.timer /\ (~folder'.running => folder.active = 0 /\ folder'.completed = 0)
      /\ (folder'.running => folder'.completed = folder.completed)
  BY <1>0, <1>1, FinishIs
<1>3. Books'
  <2>1. FolderAccounted'
    BY <1>0, <1>2 DEF FolderAccounted
  <2>2. ActiveIsReal'
    BY <1>0, <1>2, Apiece DEF ActiveIsReal, Books
  <2>3. CopiesOfFolder'
    <3>1. folder'.running \/ \A r \in Recording : copy[r].gen = 0
      BY <1>0, <1>2, Apiece, NoneLeft
    <3> QED
      BY <1>0, <1>2, <3>1, Apiece DEF CopiesOfFolder
  <2>4. FolderSane(folder)'
    BY <1>0, <1>2, Apiece DEF FolderSane
  <2> QED
    BY <2>1, <2>2, <2>3, <2>4 DEF Books
<1>5. MediaTypeOK' /\ Unnamed' /\ KeepsShared /\ KeepsAccounts
  BY <1>0, <1>2, Apiece, QuietMedia DEF Waits, Imports, Once
<1>6. FlagsSound'
  <2>1. folder.gen # 0 /\ folder.gen \in 0 .. MaxGeneration
    BY <1>0, Apiece, FolderFields DEF FolderSane
  <2> QED
    BY <1>0, <1>2, <2>1, Apiece, ImportAssumption DEF FlagsSound, Ready, Imports
<1>7. Once'
  BY <1>0, <1>2, Apiece DEF Once, Waits, Imports
<1>8. ImportTypeOK'
  <2>1. cancelled' \subseteq Generation
    <3>1. folder.gen # 0 /\ folder.gen \in 0 .. MaxGeneration
      BY <1>0, Apiece, FolderFields DEF FolderSane
    <3> QED
      BY <1>0, <3>1, Apiece, ImportAssumption DEF ImportTypeOK, Generation
  <2> QED
    BY <1>0, <1>2, <1>5, <2>1, Apiece DEF ImportTypeOK
<1> QED
  BY <1>3, <1>5, <1>6, <1>7, <1>8, Together DEF Good

\* The scan finds files none of which was imported before.
LEMMA ScanFinishesKeeps ==
    ASSUME ImportIInv, NEW g \in Generation, ScanFinishes(g)
    PROVE  Good
<1>0. /\ UNCHANGED <<row, disk, outbox, written, up, managedOn, copy, staging, cancelled>> /\ UNCHANGED mediaVars
      /\ Ready /\ scans' = scans \ {g} /\ g \in scans
  BY DEF ScanFinishes, mediaVars
<1>1. CASE g # folder.gen \/ ~folder.running
  <2>1. folder' = folder /\ fresh' = fresh
    BY <1>1 DEF ScanFinishes
  <2>2. Books'
    <3>1. folder.running => (folder.gen \in scans' <=> folder.gen \in scans)
      BY <1>0, <1>1
    <3>2. FolderAccounted'
      BY <1>0, <2>1, <3>1, Apiece DEF FolderAccounted, Books, Tracked
    <3>3. ActiveIsReal'
      BY <1>0, <2>1, Apiece DEF ActiveIsReal, Books
    <3>4. CopiesOfFolder'
      BY <1>0, <2>1, Apiece DEF CopiesOfFolder
    <3>5. FolderSane(folder)'
      BY <1>0, <2>1, Apiece DEF FolderSane
    <3> QED
      BY <3>2, <3>3, <3>4, <3>5 DEF Books
  <2>3. MediaTypeOK' /\ Unnamed' /\ KeepsShared /\ KeepsAccounts
    BY <1>0, <2>1, Apiece, QuietMedia DEF Waits, Imports, Once
  <2>4. FlagsSound' /\ Once' /\ ImportTypeOK'
    BY <1>0, <2>1, <2>3, Apiece DEF FlagsSound, Once, ImportTypeOK, Waits, Imports
  <2> QED
    BY <2>2, <2>3, <2>4, Together DEF Good
<1>2. CASE g = folder.gen /\ folder.running
  <2>0. /\ folder.active = 0 /\ folder.pending = {} /\ folder.completed = 0 /\ ~folder.timer /\ folder.gen # 0
        /\ \A r \in Recording : copy[r].gen = 0
    BY <1>0, <1>2, Apiece, NoneLeft DEF FolderSane
  <2>1. CASE folder' = Finish(folder) /\ UNCHANGED fresh
    <3>1. /\ folder' \in Folder /\ ~folder'.running /\ folder'.gen = folder.gen /\ folder'.active = 0
          /\ folder'.pending = {} /\ ~folder'.timer /\ folder'.completed = 0
      BY <2>0, <2>1, Apiece, FinishIs
    <3>2. Books'
      <4>1. FolderAccounted' /\ CopiesOfFolder' /\ FolderSane(folder)'
        BY <1>0, <2>0, <3>1, Apiece DEF FolderAccounted, CopiesOfFolder, FolderSane
      <4>2. ActiveIsReal'
        BY <1>0, <2>0, <3>1, Apiece DEF ActiveIsReal, Books
      <4> QED
        BY <4>1, <4>2 DEF Books
    <3>3. MediaTypeOK' /\ Unnamed' /\ KeepsShared /\ KeepsAccounts
      BY <1>0, <2>1, <3>1, Apiece, QuietMedia DEF Waits, Imports, Once
    <3>4. FlagsSound' /\ Once' /\ ImportTypeOK'
      BY <1>0, <2>1, <3>1, <3>3, Apiece DEF FlagsSound, Once, ImportTypeOK, Waits, Imports, Ready
    <3> QED
      BY <3>2, <3>3, <3>4, Together DEF Good
  <2>2. ASSUME NEW paths \in (SUBSET fresh) \ {{}}, fresh' = fresh \ paths, g \notin cancelled,
               folder' = [folder EXCEPT !.pending = paths, !.total = Cardinality(paths), !.timer = TRUE]
        PROVE  Good
    <3>0. paths \in SUBSET Recording
      BY <2>2, Apiece DEF ImportTypeOK
    <3>1. /\ folder' \in Folder /\ folder'.running /\ folder'.gen = folder.gen /\ folder'.active = 0
          /\ folder'.pending = paths /\ folder'.completed = 0 /\ folder'.total = Cardinality(paths)
      <4>1. Cardinality(paths) \in 0 .. Cardinality(Recording)
        BY <3>0, Sizes
      <4> QED
        BY <1>2, <2>0, <2>2, <3>0, <4>1, Apiece DEF Folder
    <3>2. Books'
      <4>1. CopiesOfFolder' /\ FolderSane(folder)'
        BY <1>0, <1>2, <2>0, <2>2, <3>1, Apiece DEF CopiesOfFolder, FolderSane
      <4>2. ActiveIsReal'
        BY <1>0, <2>0, <3>1, Apiece DEF ActiveIsReal, Books
      <4>3. FolderAccounted'
        <5>1. Entering' = {} /\ Cardinality(paths) \in Nat /\ Cardinality({}) = 0
          BY <1>0, <2>0, <3>0, Sizes, FS_EmptySet DEF Entering, Tracked
        <5>2. folder'.completed + folder'.active + Cardinality(folder'.pending) + Cardinality(Entering')
                = folder'.total
          BY <3>1, <5>1
        <5> QED
          BY <5>2 DEF FolderAccounted, Entering
      <4> QED
        BY <4>1, <4>2, <4>3 DEF Books
    <3>3. MediaTypeOK' /\ Unnamed' /\ KeepsShared /\ KeepsAccounts
      BY <1>0, <2>2, <3>1, Apiece, QuietMedia DEF Waits, Imports, Once
    <3>4. FlagsSound' /\ Once'
      BY <1>0, <2>0, <2>2, <3>1, Apiece DEF FlagsSound, Once, Waits, Imports, Ready
    <3>5. ImportTypeOK'
      BY <1>0, <2>2, <3>1, <3>3, Apiece DEF ImportTypeOK
    <3> QED
      BY <3>2, <3>3, <3>4, <3>5, Together DEF Good
  <2> QED
    BY <1>2, <2>1, <2>2 DEF ScanFinishes
<1> QED
  BY <1>1, <1>2

LEMMA SetManagedMediaCopyKeeps ==
    ASSUME ImportIInv, SetManagedMediaCopy \/ Restart \/ \E r \in Recording : Janitor(r)
    PROVE  Good
<1>0. /\ UNCHANGED <<row, disk, outbox, written, fresh, copy, scans, cancelled, folder>> /\ UNCHANGED mediaVars
      /\ up' \in BOOLEAN /\ managedOn' \in BOOLEAN /\ staging' \subseteq Recording /\ (up => up')
  <2>0. up \in BOOLEAN /\ managedOn \in BOOLEAN /\ staging \subseteq Recording
    BY Apiece DEF ImportTypeOK
  <2>1. CASE SetManagedMediaCopy
    <3>1. /\ UNCHANGED <<row, disk, outbox, written, up, fresh, copy, staging, scans, cancelled, folder>>
          /\ UNCHANGED mediaVars
      BY <2>1 DEF SetManagedMediaCopy, mediaVars
    <3>2. managedOn' \in BOOLEAN
      BY <2>1 DEF SetManagedMediaCopy
    <3> QED
      BY <2>0, <3>1, <3>2
  <2>2. CASE Restart
    <3>1. /\ UNCHANGED <<row, disk, outbox, written, managedOn, fresh, copy, staging, scans, cancelled, folder>>
          /\ UNCHANGED mediaVars /\ up' = TRUE
      BY <2>2 DEF Restart, mediaVars
    <3> QED
      BY <2>0, <3>1
  <2>3. CASE \E r \in Recording : Janitor(r)
    <3>1. /\ UNCHANGED <<row, disk, outbox, written, up, managedOn, fresh, copy, scans, cancelled, folder>>
          /\ UNCHANGED mediaVars /\ staging' \subseteq staging
      BY <2>3 DEF Janitor, mediaVars
    <3> QED
      BY <2>0, <3>1
  <2> QED
    BY <2>1, <2>2, <2>3
<1>1. Books'
  BY <1>0, Apiece, BooksStay
<1>2. MediaTypeOK' /\ Unnamed' /\ KeepsShared /\ KeepsAccounts
  BY <1>0, Apiece, QuietMedia DEF Waits, Imports, Once
<1>3. FlagsSound' /\ Once' /\ ImportTypeOK'
  BY <1>0, <1>2, Apiece DEF FlagsSound, Once, ImportTypeOK, Waits, Imports
<1> QED
  BY <1>1, <1>2, <1>3, Together DEF Good

LEMMA CopyThreadKeeps ==
    ASSUME ImportIInv, NEW r \in Recording, CopyThread(r)
    PROVE  Good
<1>1. PICK result \in {"ok", "error", "cancelled"} :
          /\ copy' = [copy EXCEPT ![r] = [copy[r] EXCEPT !.at = "finished", !.result = result]]
          /\ staging' = IF result = "ok" THEN staging \cup {r} ELSE staging
  BY DEF CopyThread
<1> DEFINE x == [copy[r] EXCEPT !.at = "finished", !.result = result]
<1>0. /\ UNCHANGED <<row, disk, outbox, written, up, managedOn, fresh, scans, cancelled, folder>> /\ UNCHANGED mediaVars
      /\ copy[r].at = "copying" /\ up /\ copy[r] \in Copy
  BY Apiece DEF CopyThread, mediaVars, CopiesTyped
<1>2. x \in Copy /\ x.at = "finished" /\ x.gen = copy[r].gen
  BY <1>0 DEF Copy
<1>3. copy' \in [Recording -> Copy] /\ copy'[r] = x /\ \A q \in Recording \ {r} : copy'[q] = copy[q]
  BY <1>1, <1>2, Apiece DEF CopiesTyped
<1> HIDE DEF x
<1>4. Books'
  <2>1. Working' = Working /\ Entering' = Entering
    BY <1>0, <1>2, <1>3 DEF Working, Entering, Tracked
  <2>2. ActiveIsReal'
    BY <1>0, <2>1, Apiece DEF Books, ActiveIsReal, Working
  <2>3. FolderAccounted'
    BY <1>0, <2>1, Apiece, AccountIs DEF Books, FolderAccounted, Entering
  <2>4. CopiesOfFolder' /\ FolderSane(folder)'
    BY <1>0, <1>2, <1>3, Apiece DEF CopiesOfFolder, FolderSane
  <2> QED
    BY <2>2, <2>3, <2>4 DEF Books
<1>5. MediaTypeOK' /\ Unnamed' /\ KeepsShared /\ KeepsAccounts
  BY <1>0, <1>2, <1>3, Apiece, QuietMedia DEF Waits, Imports, Once
<1>6. FlagsSound' /\ Once'
  BY <1>0, <1>2, <1>3, Apiece DEF FlagsSound, Once, Waits, Imports
<1>7. ImportTypeOK'
  BY <1>0, <1>1, <1>3, <1>5, Apiece DEF ImportTypeOK
<1> QED
  BY <1>4, <1>5, <1>6, <1>7, Together DEF Good

LEMMA NoCopyIs == NoCopy \in Copy /\ NoCopy.at = "none" /\ NoCopy.gen = 0
  BY ImportAssumption DEF NoCopy, Copy

\* A copy is given up: it is counted, unless its import is over.
LEMMA CopyRefusedKeeps ==
    ASSUME ImportIInv, NEW r \in Recording, CopyRefused(r)
    PROVE  Good
<1>0. /\ UNCHANGED <<row, disk, outbox, written, up, managedOn, fresh, scans, cancelled>> /\ UNCHANGED mediaVars
      /\ Ready /\ copy[r].at = "finished" /\ copy' = [copy EXCEPT ![r] = NoCopy] /\ staging' = staging \ {r}
      /\ folder' = Counted(r, Uncounted(r))
  BY DEF CopyRefused, mediaVars
<1>1. copy' \in [Recording -> Copy] /\ copy'[r] = NoCopy /\ \A q \in Recording \ {r} : copy'[q] = copy[q]
  BY <1>0, NoCopyIs, Apiece DEF CopiesTyped
<1>2. Books' /\ folder'.gen = folder.gen /\ folder'.pending \subseteq folder.pending /\ folder' \in Folder
      /\ (folder'.running => folder.running)
  <2>1. CASE Tracked(r)
    <3>0. Entering = {} /\ copy[r].at \in {"copying", "finished"}
      BY <1>0, NobodyPublishes
    <3> DEFINE f == Uncounted(r)
    <3>1. /\ folder.running /\ folder.gen \notin scans /\ copy[r].gen = folder.gen
          /\ f.running /\ f.gen = folder.gen /\ f.pending = folder.pending /\ FolderSane(f) /\ Owes(f, 1)
          /\ f.active = Cardinality(Working \ {r})
      BY <2>1, <3>0, Apiece, UncountedIs
    <3>2. folder' = CompleteItems(f, f.gen, 1)
      BY <1>0, <2>1, <3>1 DEF Counted
    <3> HIDE DEF f
    <3>3. Continues(f, folder')
      BY <3>1, <3>2, Completes
    <3>4. Working' = Working \ {r}
      BY <1>1, NoCopyIs DEF Working
    <3>5. \A q \in Recording : /\ copy'[q].at = "none" => copy'[q] = NoCopy
                               /\ copy'[q].gen # 0 => copy'[q].gen = f.gen /\ copy'[q].at # "published"
      BY <1>0, <1>1, <3>1, NoCopyIs, NobodyPublishes, Apiece DEF CopiesOfFolder
    <3>6. Books'
      BY <1>0, <1>1, <3>1, <3>3, <3>4, <3>5, BooksClose DEF CopiesTyped
    <3> QED
      BY <3>1, <3>3, <3>6 DEF Continues, FolderSane
  <2>2. CASE ~Tracked(r)
    <3>1. folder' = folder /\ copy[r].gen = 0
      BY <1>0, <2>2, Apiece DEF Counted, Uncounted, Tracked, CopiesOfFolder
    <3> QED
      BY <1>0, <1>1, <3>1, NoCopyIs, Apiece, SingleCopies
  <2> QED
    BY <2>1, <2>2
<1>3. MediaTypeOK' /\ Unnamed' /\ KeepsShared /\ KeepsAccounts
  BY <1>0, <1>1, <1>2, NoCopyIs, NobodyPublishes, Apiece, QuietMedia DEF Waits, Imports, Once
<1>4. FlagsSound' /\ Once'
  BY <1>0, <1>1, <1>2, NoCopyIs, NobodyPublishes, Apiece DEF FlagsSound, Once, Waits, Imports
<1>5. ImportTypeOK'
  BY <1>0, <1>1, <1>2, <1>3, Apiece DEF ImportTypeOK
<1> QED
  BY <1>2, <1>3, <1>4, <1>5, Together DEF Good

\* The application ends, in whatever state its import is.
LEMMA DownKeeps ==
    ASSUME ImportIInv, Quit \/ Crash
    PROVE  Good
<1>0. /\ UNCHANGED <<row, disk, outbox, written, managedOn, fresh>> /\ UNCHANGED mediaVars
      /\ up' = FALSE /\ copy' = [r \in Recording |-> NoCopy] /\ scans' = {} /\ cancelled' = {}
      /\ folder' = [NoFolder EXCEPT !.gen = folder.gen] /\ staging' \subseteq Recording
  BY Apiece DEF Quit, Crash, Down, mediaVars, ImportTypeOK
<1>1. folder.gen \in 0 .. MaxGeneration
  BY Apiece, FolderFields
<1>2. /\ folder' \in Folder /\ ~folder'.running /\ folder'.gen = folder.gen /\ folder'.pending = {}
      /\ folder'.active = 0 /\ folder'.completed = 0 /\ ~folder'.timer
  <2>1. 0 \in 0 .. MaxActiveCopies /\ 0 \in 0 .. Cardinality(Recording)
    BY Sizes DEF MaxActiveCopies
  <2> QED
    BY <1>0, <1>1, <2>1 DEF NoFolder, Folder
<1>3. \A r \in Recording : copy'[r] = NoCopy
  BY <1>0
<1>4. Books'
  <2>1. FolderAccounted' /\ CopiesOfFolder' /\ FolderSane(folder)'
    BY <1>0, <1>2, <1>3, NoCopyIs DEF FolderAccounted, CopiesOfFolder, FolderSane
  <2>2. ActiveIsReal'
    <3>1. Working' = {} /\ Cardinality({}) = 0
      BY <1>3, NoCopyIs, FS_EmptySet DEF Working
    <3>2. folder'.active = Cardinality(Working')
      BY <1>2, <3>1
    <3> QED
      BY <3>2 DEF ActiveIsReal, Working
  <2> QED
    BY <2>1, <2>2 DEF Books
<1>5. MediaTypeOK' /\ Unnamed' /\ KeepsShared /\ KeepsAccounts
  BY <1>0, <1>2, <1>3, NoCopyIs, Apiece, QuietMedia DEF Waits, Imports, Once
<1>6. FlagsSound' /\ Once'
  BY <1>0, <1>2, <1>3, NoCopyIs, Apiece DEF FlagsSound, Once, Waits, Imports
<1>7. ImportTypeOK'
  BY <1>0, <1>2, <1>5, NoCopyIs, Apiece DEF ImportTypeOK
<1> QED
  BY <1>4, <1>5, <1>6, <1>7, Together DEF Good

-----------------------------------------------------------------------------
(* Handlers that enter recordings and publish copies. *)

\* A recording is created, of a source and with a copy that no name still to be imported will have.
LEMMA RowAdded ==
    ASSUME ImportIInv, NEW r \in Recording, NEW s \in SourceFile \cup Managed, NEW m \in Managed \cup {None},
           ~Exists(r), row' = [row EXCEPT ![r] = NewRow(s, m)], UNCHANGED <<disk, outbox, written>>,
           \A q \in Recording : Waits(q)' \/ Imports(q)' =>
               /\ q # r /\ (Waits(q) \/ Imports(q)) /\ ManagedCopy(q) \notin {s, m}
               /\ copy'[q].at # "published" => copy[q].at # "published",
           \A q \in Recording : copy[q].at = "published" =>
               copy'[q].at = "published" \/ (q = r /\ m = ManagedCopy(r))
    PROVE  MediaTypeOK' /\ Unnamed' /\ KeepsShared /\ KeepsAccounts
<1>1. /\ row' \in [Recording -> Row \cup {None}]
      /\ \A q \in Recording \ {r} : row'[q] = row[q]
      /\ row'[r] # None /\ row'[r].managed = m
      /\ \A f \in Managed : Referenced(f)' => Referenced(f) \/ f \in {s, m}
  BY Apiece, NewRowIs
<1>2. MediaTypeOK'
  BY <1>1, Apiece DEF MediaTypeOK
<1>3. Unnamed'
  <2>1. \A q \in Recording : Waits(q)' \/ Imports(q)' =>
               /\ Waits(q) \/ Imports(q)
               /\ Exists(q)' => Exists(q)
               /\ Referenced(ManagedCopy(q))' => Referenced(ManagedCopy(q))
               /\ copy'[q].at # "published" =>
                      copy[q].at # "published" /\ disk'[ManagedCopy(q)] \in {disk[ManagedCopy(q)], Absent}
    BY <1>1, ManagedNames DEF Exists, ManagedCopy
  <2> QED
    BY <2>1, Apiece, UnnamedKept
<1>4. KeepsShared
  BY DEF KeepsShared
<1>5. KeepsAccounts
  <2> SUFFICES ASSUME NEW f \in Managed, Accounted(f) PROVE Accounted(f)'
    BY DEF KeepsAccounts
  <2>1. CASE \E q \in Recording : Exists(q) /\ row[q].managed = f
    <3>1. PICK q \in Recording : Exists(q) /\ row[q].managed = f
      BY <2>1
    <3>2. q # r
      BY <3>1
    <3> QED
      BY <1>1, <3>1, <3>2 DEF Accounted, Exists
  <2>2. CASE \E o \in outbox : o[2] = f
    BY <2>2 DEF Accounted
  <2>3. CASE copy[f[2]].at = "published"
    BY <2>3, <1>1, ManagedNames DEF Accounted, Exists
  <2> QED
    BY <2>1, <2>2, <2>3 DEF Accounted
<1> QED
  BY <1>2, <1>3, <1>4, <1>5

LEMMA ImportManagedFileKeeps ==
    ASSUME ImportIInv, NEW r \in Recording, ImportManagedFile(r)
    PROVE  Good
<1>0. /\ UNCHANGED <<disk, outbox, written, up, managedOn, copy, staging, scans, cancelled, folder>>
      /\ Ready /\ r \in fresh /\ fresh' = fresh \ {r}
  BY DEF ImportManagedFile
<1>1. PICK f \in Managed : disk[f] # Absent /\ ~Exists(r) /\ row' = [row EXCEPT ![r] = NewRow(f, f)]
  BY DEF ImportManagedFile, Create
<1>2. /\ \A q \in Recording : Waits(q)' \/ Imports(q)' =>
               /\ q # r /\ (Waits(q) \/ Imports(q)) /\ ManagedCopy(q) \notin {f, f}
               /\ copy'[q].at # "published" => copy[q].at # "published"
  <2>1. r \notin folder.pending /\ ~Imports(r)
    BY <1>0, Apiece DEF Once, Waits
  <2>2. \A q \in Recording : Waits(q) \/ Imports(q) => disk[ManagedCopy(q)] = Absent
    BY <1>0, Apiece, NobodyPublishes DEF Unnamed
  <2> QED
    BY <1>0, <1>1, <2>1, <2>2 DEF Waits, Imports
<1>3. MediaTypeOK' /\ Unnamed' /\ KeepsShared /\ KeepsAccounts
  BY <1>0, <1>1, <1>2, RowAdded
<1>4. Books'
  BY <1>0, Apiece, BooksStay
<1>5. FlagsSound' /\ Once' /\ ImportTypeOK'
  BY <1>0, <1>3, Apiece DEF FlagsSound, Once, ImportTypeOK, Waits, Imports
<1> QED
  BY <1>3, <1>4, <1>5, Together DEF Good

LEMMA ImportFileKeeps ==
    ASSUME ImportIInv, NEW r \in Recording, ImportFile(r)
    PROVE  Good
<1>0. /\ UNCHANGED <<disk, outbox, written, up, managedOn, staging, scans, cancelled, folder>>
      /\ Ready /\ r \in fresh /\ fresh' = fresh \ {r}
  BY DEF ImportFile
<1>1. r \notin folder.pending /\ ~Imports(r) /\ copy[r] = NoCopy
  BY <1>0, Apiece DEF Once, Waits, Imports, CopiesOfFolder
<1>2. CASE \E f \in SourceFile : Create(r, f, None) /\ UNCHANGED copy
  <2>1. PICK f \in SourceFile : ~Exists(r) /\ row' = [row EXCEPT ![r] = NewRow(f, None)] /\ UNCHANGED copy
    BY <1>2 DEF Create
  <2>2. \A q \in Recording : Waits(q)' \/ Imports(q)' =>
               /\ q # r /\ (Waits(q) \/ Imports(q)) /\ ManagedCopy(q) \notin {f, None}
               /\ copy'[q].at # "published" => copy[q].at # "published"
    BY <1>0, <1>1, <2>1, ManagedNames DEF Waits, Imports
  <2>3. MediaTypeOK' /\ Unnamed' /\ KeepsShared /\ KeepsAccounts
    BY <1>0, <2>1, <2>2, RowAdded
  <2>4. Books'
    BY <1>0, <2>1, Apiece, BooksStay
  <2>5. FlagsSound' /\ Once' /\ ImportTypeOK'
    BY <1>0, <2>1, <2>3, Apiece DEF FlagsSound, Once, ImportTypeOK, Waits, Imports
  <2> QED
    BY <2>3, <2>4, <2>5, Together DEF Good
<1>3. CASE copy' = [copy EXCEPT ![r] = [at |-> "copying", gen |-> 0, result |-> "none"]] /\ UNCHANGED row
  <2>1. [at |-> "copying", gen |-> 0, result |-> "none"] \in Copy
    BY ImportAssumption DEF Copy
  <2>2. /\ copy' \in [Recording -> Copy] /\ copy'[r].at = "copying" /\ copy'[r].gen = 0
        /\ \A q \in Recording \ {r} : copy'[q] = copy[q]
    BY <1>3, <2>1, Apiece DEF CopiesTyped
  <2>3. UNCHANGED mediaVars
    BY <1>0, <1>3 DEF mediaVars
  <2>4. Books'
    BY <1>0, <1>1, <2>2, NoCopyIs, Apiece, SingleCopies
  <2>5. MediaTypeOK' /\ Unnamed' /\ KeepsShared /\ KeepsAccounts
    BY <1>0, <1>1, <2>2, <2>3, NobodyPublishes, Apiece, QuietMedia DEF Waits, Imports, Once
  <2>6. FlagsSound' /\ Once'
    BY <1>0, <1>1, <2>2, Apiece, NobodyPublishes DEF FlagsSound, Once, Waits, Imports
  <2>7. ImportTypeOK'
    BY <1>0, <2>2, <2>5, Apiece DEF ImportTypeOK
  <2> QED
    BY <2>4, <2>5, <2>6, <2>7, Together DEF Good
<1> QED
  BY <1>2, <1>3 DEF ImportFile

\* The copy is published; nobody can have meant it before.
LEMMA CopyPublishedKeeps ==
    ASSUME ImportIInv, NEW r \in Recording, CopyPublished(r)
    PROVE  Good
<1>0. /\ UNCHANGED <<row, outbox, written, up, managedOn, fresh, scans, cancelled>>
      /\ Ready /\ copy[r].at = "finished" /\ copy' = [copy EXCEPT ![r].at = "published"]
      /\ staging' = staging \ {r} /\ folder' = Uncounted(r)
  BY DEF CopyPublished
<1>1. PICK c \in Content : disk' = [disk EXCEPT ![ManagedCopy(r)] = c] /\ c # Absent
  <2>1. PICK f \in SourceFile : disk' = [disk EXCEPT ![ManagedCopy(r)] = IF disk[f] = Absent THEN Mixed ELSE disk[f]]
    BY DEF CopyPublished, ManagedCopy
  <2>2. disk[f] \in Content /\ Mixed \in Content /\ Mixed # Absent
    BY Apiece, ManagedNames, MediaAssumption DEF MediaTypeOK, Content, Mixed, Absent
  <2> QED
    BY <2>1, <2>2
<1>2. /\ copy' \in [Recording -> Copy] /\ copy'[r].at = "published" /\ copy'[r].gen = copy[r].gen
      /\ \A q \in Recording \ {r} : copy'[q] = copy[q]
  BY <1>0, Apiece DEF CopiesTyped, Copy
<1>3. /\ disk' \in [File -> Content] /\ disk'[ManagedCopy(r)] # Absent
      /\ \A f \in File \ {ManagedCopy(r)} : disk'[f] = disk[f]
  BY <1>1, ManagedNames, Apiece DEF MediaTypeOK
<1>4. Entering = {} /\ \A q \in Recording : copy[q].at # "published"
  BY <1>0, NobodyPublishes
<1>5. Books' /\ folder' \in Folder /\ folder'.gen = folder.gen /\ folder'.pending = folder.pending
      /\ folder'.running = folder.running
  <2>1. CASE Tracked(r)
    <3>1. /\ folder.running /\ folder.gen \notin scans /\ copy[r].gen = folder.gen
          /\ folder'.running /\ folder'.gen = folder.gen /\ folder'.pending = folder.pending
          /\ FolderSane(folder') /\ Owes(folder', 1) /\ folder'.active = Cardinality(Working \ {r})
      BY <1>0, <1>4, <2>1, Apiece, UncountedIs
    <3>2. Working' = Working \ {r}
      BY <1>2 DEF Working
    <3>3. Entering' = {r}
      BY <1>2, <1>4, <2>1, <3>1 DEF Entering, Tracked
    <3>4. FolderAccounted'
      <4>1. Cardinality(Entering') = 1
        BY <3>3, FS_Singleton
      <4>2. folder'.running /\ folder'.gen \notin cancelled' \cup scans' =>
              folder'.completed + folder'.active + Cardinality(folder'.pending) + Cardinality(Entering') = folder'.total
        BY <1>0, <3>1, <4>1 DEF Owes
      <4> QED
        BY <4>2 DEF FolderAccounted, Entering
    <3>5. ActiveIsReal'
      <4>1. folder'.active = Cardinality(Working')
        BY <3>1, <3>2
      <4> QED
        BY <4>1 DEF ActiveIsReal, Working
    <3>6. CopiesOfFolder' /\ FolderSane(folder)'
      BY <1>0, <1>2, <3>1, Apiece DEF CopiesOfFolder, FolderSane
    <3> QED
      BY <3>1, <3>4, <3>5, <3>6 DEF Books, FolderSane
  <2>2. CASE ~Tracked(r)
    <3>1. folder' = folder /\ copy[r].gen = 0
      BY <1>0, <2>2, Apiece DEF Uncounted, Tracked, CopiesOfFolder
    <3> QED
      BY <1>0, <1>2, <3>1, Apiece, SingleCopies
  <2> QED
    BY <2>1, <2>2
<1>6. MediaTypeOK'
  BY <1>0, <1>3, Apiece DEF MediaTypeOK
<1>7. Unnamed'
  <2>1. \A q \in Recording : Waits(q)' \/ Imports(q)' =>
               /\ Waits(q) \/ Imports(q)
               /\ Exists(q)' => Exists(q)
               /\ Referenced(ManagedCopy(q))' => Referenced(ManagedCopy(q))
               /\ copy'[q].at # "published" =>
                      copy[q].at # "published" /\ disk'[ManagedCopy(q)] \in {disk[ManagedCopy(q)], Absent}
    <3> SUFFICES ASSUME NEW q \in Recording, Waits(q)' \/ Imports(q)'
                 PROVE  /\ Waits(q) \/ Imports(q)
                        /\ Exists(q)' => Exists(q)
                        /\ Referenced(ManagedCopy(q))' => Referenced(ManagedCopy(q))
                        /\ copy'[q].at # "published" => disk'[ManagedCopy(q)] = disk[ManagedCopy(q)]
      BY <1>4
    <3>1. Waits(q) \/ Imports(q)
      BY <1>0, <1>2, <1>5 DEF Waits, Imports
    <3>2. q # r => disk'[ManagedCopy(q)] = disk[ManagedCopy(q)]
      BY <1>3, ManagedNames
    <3> QED
      BY <1>0, <1>2, <3>1, <3>2 DEF Exists, Referenced, References, ManagedCopy
  <2> QED
    BY <2>1, Apiece, UnnamedKept
<1>8. KeepsShared
  BY <1>3, ManagedNames DEF KeepsShared
<1>9. KeepsAccounts
  <2>1. \A f \in Managed : f[2] \in Recording
    BY ManagedNames
  <2> QED
    BY <1>0, <1>2, <1>4, <2>1 DEF KeepsAccounts, Accounted, Exists
<1>10. FlagsSound' /\ Once'
  BY <1>0, <1>2, <1>4, <1>5, Apiece DEF FlagsSound, Once, Waits, Imports, Ready
<1>11. ImportTypeOK'
  BY <1>0, <1>2, <1>5, <1>6, Apiece DEF ImportTypeOK
<1> QED
  BY <1>5, <1>7, <1>8, <1>9, <1>10, <1>11, Together DEF Good

\* The recording of the copy is created, or the copy is removed again: nobody else refers to it by then.
LEMMA CopyEnteredKeeps ==
    ASSUME ImportIInv, NEW r \in Recording, CopyEntered(r)
    PROVE  Good
<1>0. /\ UNCHANGED <<outbox, written, up, managedOn, fresh, staging, scans, cancelled>>
      /\ up /\ copy[r].at = "published" /\ copy' = [copy EXCEPT ![r] = NoCopy] /\ folder' = Counted(r, folder)
  BY DEF CopyEntered
<1>1. copy' \in [Recording -> Copy] /\ copy'[r] = NoCopy /\ \A q \in Recording \ {r} : copy'[q] = copy[q]
  BY <1>0, NoCopyIs, Apiece DEF CopiesTyped
<1>2. Imports(r) /\ ~Waits(r) /\ \A q \in Recording \ {r} : copy[q].at # "published"
  BY <1>0, Apiece DEF Imports, Once
<1>3. Books' /\ folder'.gen = folder.gen /\ folder'.pending \subseteq folder.pending /\ folder' \in Folder
      /\ (folder'.running => folder.running)
  <2>1. CASE Tracked(r)
    <3>1. /\ folder.running /\ folder.gen \notin scans /\ copy[r].gen = folder.gen /\ FolderSane(folder)
      BY <2>1, Apiece DEF Tracked, CopiesOfFolder
    <3>2. folder' = CompleteItems(folder, folder.gen, 1)
      BY <1>0, <2>1, <3>1 DEF Counted
    <3>3. Owes(folder, 1)
      <4>1. Entering = {r}
        BY <1>0, <1>2, <2>1 DEF Entering
      <4>2. Cardinality(Entering) = 1
        BY <4>1, FS_Singleton
      <4> QED
        BY <4>2, AccountIs, Apiece DEF Books
    <3>4. Continues(folder, folder')
      BY <3>1, <3>2, <3>3, Completes
    <3>5. Working' = Working /\ folder.active = Cardinality(Working)
      <4>1. Working' = Working
        BY <1>0, <1>1, NoCopyIs DEF Working
      <4> QED
        BY <4>1, Apiece DEF Books, ActiveIsReal, Working
    <3>6. \A q \in Recording : /\ copy'[q].at = "none" => copy'[q] = NoCopy
                               /\ copy'[q].gen # 0 => copy'[q].gen = folder.gen /\ copy'[q].at # "published"
      BY <1>1, <1>2, NoCopyIs, Apiece DEF CopiesOfFolder
    <3>7. Books'
      BY <1>0, <1>1, <3>1, <3>4, <3>5, <3>6, BooksClose DEF CopiesTyped
    <3> QED
      BY <3>1, <3>4, <3>7 DEF Continues, FolderSane
  <2>2. CASE ~Tracked(r)
    <3>1. folder' = folder /\ copy[r].gen = 0
      BY <1>0, <2>2, Apiece DEF Counted, Tracked, CopiesOfFolder
    <3> QED
      BY <1>0, <1>1, <3>1, NoCopyIs, Apiece, SingleCopies
  <2> QED
    BY <2>1, <2>2
<1>4. \A q \in Recording : Waits(q)' \/ Imports(q)' => q # r /\ (Waits(q) \/ Imports(q))
  BY <1>0, <1>1, <1>2, <1>3, NoCopyIs DEF Waits, Imports
<1>5. MediaTypeOK' /\ Unnamed' /\ KeepsShared /\ KeepsAccounts
  <2>1. CASE \E f \in SourceFile : Create(r, f, ManagedCopy(r)) /\ UNCHANGED disk
    <3>1. PICK f \in SourceFile : ~Exists(r) /\ row' = [row EXCEPT ![r] = NewRow(f, ManagedCopy(r))] /\ UNCHANGED disk
      BY <2>1 DEF Create
    <3>2. ManagedCopy(r) \in Managed
      BY ManagedNames
    <3>3. \A q \in Recording : Waits(q)' \/ Imports(q)' =>
               /\ q # r /\ (Waits(q) \/ Imports(q)) /\ ManagedCopy(q) \notin {f, ManagedCopy(r)}
               /\ copy'[q].at # "published" => copy[q].at # "published"
      BY <1>2, <1>4, ManagedNames
    <3> QED
      BY <1>0, <1>2, <3>1, <3>2, <3>3, RowAdded
  <2>2. CASE disk' = [disk EXCEPT ![ManagedCopy(r)] = Absent] /\ UNCHANGED row
    <3>1. /\ disk' \in [File -> Content] /\ disk'[ManagedCopy(r)] = Absent
          /\ \A f \in File \ {ManagedCopy(r)} : disk'[f] = disk[f]
      BY <2>2, ManagedNames, Apiece, MediaAssumption DEF MediaTypeOK, Content, Absent, Mixed
    <3>2. MediaTypeOK'
      BY <1>0, <2>2, <3>1, Apiece DEF MediaTypeOK
    <3>3. Unnamed'
      <4>1. \A q \in Recording : Waits(q)' \/ Imports(q)' =>
               /\ Waits(q) \/ Imports(q)
               /\ Exists(q)' => Exists(q)
               /\ Referenced(ManagedCopy(q))' => Referenced(ManagedCopy(q))
               /\ copy'[q].at # "published" =>
                      copy[q].at # "published" /\ disk'[ManagedCopy(q)] \in {disk[ManagedCopy(q)], Absent}
        <5> SUFFICES ASSUME NEW q \in Recording, Waits(q)' \/ Imports(q)'
                     PROVE  /\ Exists(q)' => Exists(q)
                            /\ Referenced(ManagedCopy(q))' => Referenced(ManagedCopy(q))
                            /\ disk'[ManagedCopy(q)] = disk[ManagedCopy(q)]
          BY <1>2, <1>4
        <5>1. disk'[ManagedCopy(q)] = disk[ManagedCopy(q)]
          BY <1>4, <3>1, ManagedNames
        <5> QED
          BY <2>2, <5>1 DEF Exists, Referenced, References, ManagedCopy
      <4> QED
        BY <4>1, Apiece, UnnamedKept
    <3>4. KeepsShared
      BY <1>2, <3>1, ManagedNames, Apiece DEF KeepsShared, Unnamed
    <3>5. KeepsAccounts
      <4> SUFFICES ASSUME NEW f \in Managed, Accounted(f), disk'[f] # Absent PROVE Accounted(f)'
        BY DEF KeepsAccounts
      <4>1. f[2] \in Recording /\ f[2] # r
        BY <3>1, ManagedNames
      <4>2. copy[f[2]].at # "published"
        BY <1>2, <4>1
      <4> QED
        BY <1>0, <2>2, <4>2 DEF Accounted, Exists
    <3> QED
      BY <3>2, <3>3, <3>4, <3>5
  <2> QED
    BY <2>1, <2>2 DEF CopyEntered, ManagedCopy
<1>6. FlagsSound' /\ Once'
  <2>1. FlagsSound'
    BY <1>0, <1>3, Apiece DEF FlagsSound
  <2>2. Once'
    BY <1>0, <1>1, <1>2, <1>3, NoCopyIs, Apiece DEF Once, Waits, Imports
  <2> QED
    BY <2>1, <2>2
<1>7. ImportTypeOK'
  BY <1>0, <1>1, <1>3, <1>5, Apiece DEF ImportTypeOK
<1> QED
  BY <1>3, <1>5, <1>6, <1>7, Together DEF Good

-----------------------------------------------------------------------------
(* A batch: some files are copied, the others are refused or entered. *)

\* The books when the copies are started and the other files are still to be counted.
LEMMA StartedIs ==
    ASSUME ImportIInv, Ready, folder.timer, NEW taken \in SUBSET folder.pending, NEW copied \in SUBSET taken,
           Cardinality(taken) = Smaller(Slots, Cardinality(folder.pending)), ~managedOn => copied = {}
    PROVE  /\ folder.running /\ folder.gen \notin scans \cup cancelled
           /\ LET f == [folder EXCEPT !.timer = FALSE, !.pending = folder.pending \ taken,
                                      !.active = folder.active + Cardinality(copied)]
              IN  /\ FolderSane(f) /\ Owes(f, Cardinality(taken \ copied)) /\ f.running /\ f.gen = folder.gen
                  /\ f.pending = folder.pending \ taken /\ f.active = folder.active + Cardinality(copied)
<1> DEFINE f == [folder EXCEPT !.timer = FALSE, !.pending = folder.pending \ taken,
                               !.active = folder.active + Cardinality(copied)]
<1>1. folder \in Folder /\ folder.running /\ folder.gen \notin scans \cup cancelled
  BY Apiece DEF FolderSane
<1>2. /\ folder.active \in 0 .. 2 /\ folder.completed \in Nat /\ folder.pending \in SUBSET Recording
      /\ folder.total \in Nat
  BY <1>1, FolderFields, Sizes
<1>3. /\ Cardinality(copied) \in Nat /\ Cardinality(taken) \in Nat /\ Cardinality(folder.pending) \in Nat
      /\ Cardinality(taken \ copied) \in Nat /\ Cardinality(folder.pending \ taken) \in Nat
      /\ Cardinality(folder.pending) = Cardinality(folder.pending \ taken) + Cardinality(taken)
      /\ Cardinality(taken) = Cardinality(taken \ copied) + Cardinality(copied)
  <2>1. taken \in SUBSET Recording /\ copied \in SUBSET Recording /\ (taken \ copied) \in SUBSET Recording
        /\ (folder.pending \ taken) \in SUBSET Recording
    BY <1>2
  <2>2. Cardinality(folder.pending) = Cardinality(folder.pending \ taken) + Cardinality(taken)
    BY <1>2, Parts
  <2>3. Cardinality(taken) = Cardinality(taken \ copied) + Cardinality(copied)
    BY <2>1, Parts
  <2> QED
    BY <1>2, <2>1, <2>2, <2>3, Sizes
<1>4. folder.active + Cardinality(copied) \in 0 .. MaxActiveCopies
  <2>1. CASE managedOn
    <3>1. Cardinality(taken) <= 2 - folder.active
      BY <1>2, <1>3, <2>1 DEF Slots, Smaller, MaxActiveCopies
    <3>2. Cardinality(copied) <= Cardinality(taken) /\ Cardinality(copied) \in Nat /\ Cardinality(taken) \in Nat
      BY <1>3
    <3>3. folder.active \in Nat /\ folder.active <= 2
      BY <1>2
    <3> QED
      BY <3>1, <3>2, <3>3 DEF MaxActiveCopies
  <2>2. CASE ~managedOn
    <3>1. Cardinality(copied) = 0
      BY <2>2, FS_EmptySet
    <3> QED
      BY <1>2, <3>1 DEF MaxActiveCopies
  <2> QED
    BY <2>1, <2>2
<1>5. /\ f \in Folder /\ f.running = folder.running /\ f.gen = folder.gen /\ f.pending = folder.pending \ taken
      /\ f.active = folder.active + Cardinality(copied) /\ f.completed = folder.completed
      /\ f.total = folder.total /\ ~f.timer
  <2>1. (folder.pending \ taken) \in SUBSET Recording
    BY <1>2
  <2> QED
    BY <1>1, <1>4, <2>1 DEF Folder
<1> HIDE DEF f
<1>6. FolderSane(f)
  BY <1>1, <1>5, Apiece DEF FolderSane
<1>7. Owes(f, Cardinality(taken \ copied))
  <2>1. folder.completed + folder.active + Cardinality(folder.pending) + 0 = folder.total
    <3>1. Owes(folder, 0)
      BY NobodyPublishes, AccountIs, FS_EmptySet, Apiece DEF Books
    <3> QED
      BY <1>1, <3>1 DEF Owes
  <2>2. f.completed + f.active + Cardinality(f.pending) + Cardinality(taken \ copied) = f.total
    BY <1>2, <1>3, <1>5, <2>1
  <2> QED
    BY <2>2 DEF Owes
<1> QED
  BY <1>1, <1>5, <1>6, <1>7 DEF f

\* The batch is over when its other files are counted.
LEMMA BatchContinues ==
    ASSUME NEW f, FolderSane(f), f.running, f.gen \notin scans, NEW now \in SUBSET Recording,
           Owes(f, Cardinality(now))
    PROVE  Continues(f, GoOn(IF now = {} THEN f ELSE CompleteItems(f, f.gen, Cardinality(now))))
<1>1. CASE now = {}
  <2>1. Owes(f, 0)
    BY <1>1, FS_EmptySet
  <2> QED
    BY <1>1, <2>1, GoesOn
<1>2. CASE now # {}
  <2> DEFINE c == CompleteItems(f, f.gen, Cardinality(now))
  <2>1. Continues(f, c)
    BY Sizes, Completes
  <2> HIDE DEF c
  <2>2. Continues(c, GoOn(c))
    BY <2>1, GoesOn DEF Continues
  <2>3. Continues(f, GoOn(c))
    BY <2>1, <2>2 DEF Continues
  <2> QED
    BY <1>2, <2>3 DEF c
<1> QED
  BY <1>1, <1>2

\* Recordings are entered by reference, under names that leave the folder.
LEMMA RowsEntered ==
    ASSUME ImportIInv, NEW entered \in SUBSET Recording, NEW s \in SourceFile, UNCHANGED <<disk, outbox, written>>,
           row' = [r \in Recording |-> IF r \in entered THEN NewRow(s, None) ELSE row[r]],
           \A q \in entered : ~Exists(q),
           \A q \in Recording : Waits(q)' \/ Imports(q)' =>
               q \notin entered /\ (Waits(q) \/ Imports(q)) /\ copy[q].at # "published",
           \A q \in Recording : copy[q].at = "published" => copy'[q].at = "published"
    PROVE  MediaTypeOK' /\ Unnamed' /\ KeepsShared /\ KeepsAccounts
<1> DEFINE v == NewRow(s, None)
<1>1. v \in Row /\ v.source = s /\ v.managed = None /\ v.pcm = None /\ v.wave = None
  <2>1. s \in File /\ 0 \in 0 .. MaxVersion
    BY ManagedNames, MediaAssumption
  <2> QED
    BY <2>1 DEF NewRow, Row
<1> HIDE DEF v
<1>2. /\ row' \in [Recording -> Row \cup {None}]
      /\ \A q \in Recording : row'[q] = IF q \in entered THEN v ELSE row[q]
  <2>1. row \in [Recording -> Row \cup {None}]
    BY Apiece DEF MediaTypeOK
  <2> QED
    BY <1>1, <2>1 DEF v
<1>3. MediaTypeOK'
  BY <1>2, Apiece DEF MediaTypeOK
<1>4. \A f \in Managed : Referenced(f)' => Referenced(f)
  <2> SUFFICES ASSUME NEW f \in Managed, Referenced(f)' PROVE Referenced(f)
    OBVIOUS
  <2>1. PICK q \in Recording : row'[q] # None /\ f \in {row'[q].source, row'[q].managed, row'[q].pcm, row'[q].wave}
    BY DEF Referenced, References, Exists
  <2>2. q \notin entered
    BY <1>1, <1>2, <2>1, ManagedNames
  <2> QED
    BY <1>2, <2>1, <2>2 DEF Referenced, References, Exists
<1>5. Unnamed'
  <2>1. \A q \in Recording : Waits(q)' \/ Imports(q)' =>
               /\ Waits(q) \/ Imports(q)
               /\ Exists(q)' => Exists(q)
               /\ Referenced(ManagedCopy(q))' => Referenced(ManagedCopy(q))
               /\ copy'[q].at # "published" =>
                      copy[q].at # "published" /\ disk'[ManagedCopy(q)] \in {disk[ManagedCopy(q)], Absent}
    BY <1>2, <1>4, ManagedNames DEF Exists, ManagedCopy
  <2> QED
    BY <2>1, Apiece, UnnamedKept
<1>6. KeepsShared
  BY DEF KeepsShared
<1>7. KeepsAccounts
  <2> SUFFICES ASSUME NEW f \in Managed, Accounted(f) PROVE Accounted(f)'
    BY DEF KeepsAccounts
  <2>1. CASE \E q \in Recording : Exists(q) /\ row[q].managed = f
    BY <2>1, <1>2 DEF Accounted, Exists
  <2>2. CASE \E o \in outbox : o[2] = f
    BY <2>2 DEF Accounted
  <2>3. CASE copy[f[2]].at = "published"
    BY <2>3, ManagedNames DEF Accounted
  <2> QED
    BY <2>1, <2>2, <2>3 DEF Accounted
<1> QED
  BY <1>3, <1>5, <1>6, <1>7

LEMMA BatchTimerFiresKeeps ==
    ASSUME ImportIInv, BatchTimerFires
    PROVE  Good
<1>0. /\ UNCHANGED <<disk, outbox, written, up, managedOn, fresh, staging, scans, cancelled>>
      /\ Ready /\ folder.timer /\ folder \in Folder
  BY Apiece DEF BatchTimerFires
<1>1. CASE folder' = [folder EXCEPT !.timer = FALSE] /\ UNCHANGED <<copy, row>>
  <2>1. /\ folder' \in Folder /\ folder'.running = folder.running /\ folder'.gen = folder.gen
        /\ folder'.pending = folder.pending /\ folder'.active = folder.active
        /\ folder'.completed = folder.completed /\ folder'.total = folder.total /\ ~folder'.timer
    BY <1>0, <1>1 DEF Folder
  <2>2. Books'
    <3>1. FolderAccounted'
      BY <1>0, <1>1, <2>1, Apiece DEF FolderAccounted, Books, Tracked
    <3>2. ActiveIsReal' /\ CopiesOfFolder' /\ FolderSane(folder)'
      BY <1>0, <1>1, <2>1, Apiece DEF ActiveIsReal, Books, CopiesOfFolder, FolderSane
    <3> QED
      BY <3>1, <3>2 DEF Books
  <2>3. MediaTypeOK' /\ Unnamed' /\ KeepsShared /\ KeepsAccounts
    BY <1>0, <1>1, <2>1, Apiece, QuietMedia DEF Waits, Imports, Once, mediaVars
  <2>4. FlagsSound' /\ Once' /\ ImportTypeOK'
    BY <1>0, <1>1, <2>1, <2>3, Apiece DEF FlagsSound, Once, ImportTypeOK, Waits, Imports
  <2> QED
    BY <2>2, <2>3, <2>4, Together DEF Good
<1>2. ASSUME NEW taken \in SUBSET folder.pending, NEW copied \in SUBSET taken,
             NEW entered \in SUBSET (taken \ copied), Batch(taken, copied, entered),
             Cardinality(taken) = Smaller(Slots, Cardinality(folder.pending)), ~managedOn => copied = {}
      PROVE  Good
  <2> DEFINE f   == [folder EXCEPT !.timer = FALSE, !.pending = folder.pending \ taken,
                                   !.active = folder.active + Cardinality(copied)]
             now == taken \ copied
             c   == [at |-> "copying", gen |-> folder.gen, result |-> "none"]
  <2>1. /\ folder' = GoOn(IF now = {} THEN f ELSE CompleteItems(f, folder.gen, Cardinality(now)))
        /\ copy' = [r \in Recording |-> IF r \in copied THEN c ELSE copy[r]]
    BY <1>2 DEF Batch
  <2>2. PICK s \in SourceFile : row' = [r \in Recording |-> IF r \in entered THEN NewRow(s, None) ELSE row[r]]
    BY <1>2 DEF Batch
  <2>3. /\ folder.running /\ folder.gen \notin scans \cup cancelled
        /\ FolderSane(f) /\ Owes(f, Cardinality(now)) /\ f.running /\ f.gen = folder.gen
        /\ f.pending = folder.pending \ taken /\ f.active = folder.active + Cardinality(copied)
    BY <1>0, <1>2, StartedIs
  <2> HIDE DEF f
  <2>4. now \in SUBSET Recording /\ copied \in SUBSET Recording /\ folder.pending \in SUBSET Recording
    BY <1>0, FolderFields
  <2>5. Continues(f, folder')
    BY <2>1, <2>3, <2>4, BatchContinues
  <2>6. /\ c \in Copy /\ c.at = "copying" /\ c.gen = folder.gen
        /\ copy' \in [Recording -> Copy] /\ \A r \in Recording : copy'[r] = IF r \in copied THEN c ELSE copy[r]
    <3>1. c \in Copy
      BY <1>0, FolderFields DEF Copy
    <3> QED
      BY <2>1, <3>1, Apiece DEF CopiesTyped
  <2> HIDE DEF c, now
  <2>7. /\ \A r \in Recording : copy[r].at # "published"
        /\ \A r \in folder.pending : copy[r].at = "none" /\ r \notin fresh /\ ~Exists(r)
        /\ \A r \in Recording : copy[r].at = "none" => copy[r] = NoCopy
    <3>1. \A r \in Recording : copy[r].at # "published"
      BY <1>0, NobodyPublishes
    <3> QED
      BY <2>4, <3>1, Apiece DEF Once, Waits, Imports, Unnamed, CopiesOfFolder
  <2>8. Books'
    <3>1. Working' = Working \cup copied /\ Working \cap copied = {} /\ Working \in SUBSET Recording
      <4>1. folder.gen # 0
        BY <2>3, Apiece DEF FolderSane
      <4> QED
        BY <2>4, <2>6, <2>7, <4>1 DEF Working
    <3>2. folder.active = Cardinality(Working)
      BY Apiece DEF Books, ActiveIsReal, Working
    <3>3. Cardinality(Working \cup copied) = Cardinality(Working) + Cardinality(copied)
      BY <2>4, <3>1, Apart
    <3>4. f.active = Cardinality(Working')
      BY <2>3, <3>1, <3>2, <3>3
    <3>5. \A r \in Recording : /\ copy'[r].at = "none" => copy'[r] = NoCopy
                               /\ copy'[r].gen # 0 => copy'[r].gen = f.gen /\ copy'[r].at # "published"
      BY <2>3, <2>6, <2>7, Apiece DEF CopiesOfFolder
    <3> QED
      BY <1>0, <2>3, <2>5, <2>6, <3>4, <3>5, BooksClose DEF CopiesTyped
  <2>9. /\ folder' \in Folder /\ folder'.gen = folder.gen /\ folder'.pending \subseteq folder.pending \ taken
    BY <2>3, <2>5 DEF Continues, FolderSane
  <2>10. \A q \in Recording : Waits(q)' \/ Imports(q)' =>
               q \notin entered /\ (Waits(q) \/ Imports(q)) /\ copy[q].at # "published"
    BY <1>0, <1>2, <2>6, <2>7, <2>9 DEF Waits, Imports
  <2>11. MediaTypeOK' /\ Unnamed' /\ KeepsShared /\ KeepsAccounts
    <3>1. entered \in SUBSET Recording
      BY <1>2, <2>4
    <3> QED
      BY <1>0, <1>2, <2>2, <2>7, <2>10, <3>1, RowsEntered
  <2>12. FlagsSound' /\ Once'
    <3>1. FlagsSound'
      BY <1>0, <2>9, Apiece DEF FlagsSound, Ready
    <3>2. Once'
      BY <1>0, <1>2, <2>6, <2>7, <2>9, Apiece DEF Once, Waits, Imports
    <3> QED
      BY <3>1, <3>2
  <2>13. ImportTypeOK'
    BY <1>0, <2>6, <2>9, <2>11, Apiece DEF ImportTypeOK
  <2> QED
    BY <2>8, <2>11, <2>12, <2>13, Together DEF Good
<1> QED
  BY <1>1, <1>2 DEF BatchTimerFires

-----------------------------------------------------------------------------
(* Steps of the library and of the user's other programs. *)

\* Steps of the library keep what they leave referred to and accounted for.
LEMMA LibraryKeeps ==
    ASSUME ImportIInv, UNCHANGED appVars, MediaTypeOK', KeepsShared, KeepsAccounts,
           \A q \in Recording : Waits(q) \/ Imports(q) =>
               /\ Exists(q)' => Exists(q)
               /\ Referenced(ManagedCopy(q))' => Referenced(ManagedCopy(q))
               /\ copy[q].at # "published" => disk'[ManagedCopy(q)] \in {disk[ManagedCopy(q)], Absent}
    PROVE  Good
<1>0. UNCHANGED <<up, managedOn, fresh, copy, staging, scans, cancelled, folder>>
  BY DEF appVars
<1>1. Unnamed'
  <2>1. \A q \in Recording : Waits(q)' \/ Imports(q)' =>
               /\ Waits(q) \/ Imports(q)
               /\ Exists(q)' => Exists(q)
               /\ Referenced(ManagedCopy(q))' => Referenced(ManagedCopy(q))
               /\ copy'[q].at # "published" =>
                      copy[q].at # "published" /\ disk'[ManagedCopy(q)] \in {disk[ManagedCopy(q)], Absent}
    BY <1>0 DEF Waits, Imports
  <2> QED
    BY <2>1, Apiece, UnnamedKept
<1>2. Books'
  BY <1>0, Apiece, BooksStay
<1>3. FlagsSound' /\ Once' /\ ImportTypeOK'
  BY <1>0, Apiece DEF FlagsSound, Once, ImportTypeOK, Waits, Imports
<1> QED
  BY <1>1, <1>2, <1>3, Together DEF Good

\* Rows are moved to the trash and back.
LEMMA TrashKeeps ==
    ASSUME ImportIInv, UNCHANGED appVars, NEW r \in Recording, MoveToTrash(r) \/ Restore(r)
    PROVE  Good
<1>1. PICK b \in BOOLEAN : row' = [row EXCEPT ![r].trashed = b]
  BY DEF MoveToTrash, Restore
<1>2. UNCHANGED <<disk, outbox, written>> /\ Exists(r) /\ row \in [Recording -> Row \cup {None}] /\ row[r] \in Row
  BY Apiece DEF MoveToTrash, Restore, MediaTypeOK, Exists
<1>3. /\ row' \in [Recording -> Row \cup {None}] /\ row'[r] \in Row
      /\ row'[r].source = row[r].source /\ row'[r].managed = row[r].managed
      /\ row'[r].pcm = row[r].pcm /\ row'[r].wave = row[r].wave
      /\ \A q \in Recording \ {r} : row'[q] = row[q]
  BY <1>1, <1>2 DEF Row
<1>4. row'[r] # None
  BY <1>3, NoneAssumption
<1>5. \A q \in Recording : Exists(q)' = Exists(q) /\ References(q)' = References(q)
                           /\ row'[q].managed = row[q].managed
  BY <1>2, <1>3, <1>4 DEF Exists, References
<1>6. MediaTypeOK'
  BY <1>2, <1>3, Apiece DEF MediaTypeOK
<1>7. KeepsShared
  BY <1>2 DEF KeepsShared
<1>8. KeepsAccounts
  <2> SUFFICES ASSUME NEW f \in Managed, Accounted(f) PROVE Accounted(f)'
    BY DEF KeepsAccounts
  <2>1. UNCHANGED <<copy, outbox>>
    BY <1>2 DEF appVars
  <2> QED
    BY <1>5, <2>1 DEF Accounted
<1>9. \A q \in Recording : /\ Exists(q)' => Exists(q)
                           /\ Referenced(ManagedCopy(q))' => Referenced(ManagedCopy(q))
                           /\ disk'[ManagedCopy(q)] \in {disk[ManagedCopy(q)], Absent}
  BY <1>2, <1>5 DEF Referenced, ManagedCopy
<1> QED
  BY <1>6, <1>7, <1>8, <1>9, LibraryKeeps

\* What a deleted recording had is in the outbox.
LEMMA PermanentlyDeleteKeeps ==
    ASSUME ImportIInv, UNCHANGED appVars, NEW r \in Recording, NEW leased \in BOOLEAN, PermanentlyDelete(r, leased)
    PROVE  Good
<1>1. /\ UNCHANGED <<disk, written>> /\ Exists(r)
      /\ outbox' = outbox \cup {<<r, f>> : f \in Artifacts(r)} /\ row' = [row EXCEPT ![r] = None]
  BY DEF PermanentlyDelete
<1>2. row \in [Recording -> Row \cup {None}] /\ row[r] \in Row /\ outbox \subseteq Recording \X (Managed \cup Cache)
  BY <1>1, Apiece DEF MediaTypeOK, Exists
<1>3. Artifacts(r) \subseteq Managed \cup Cache
  BY <1>2 DEF Artifacts, Row
<1>4. row' \in [Recording -> Row \cup {None}] /\ row'[r] = None /\ \A q \in Recording \ {r} : row'[q] = row[q]
  BY <1>1, <1>2
<1>5. outbox' \subseteq Recording \X (Managed \cup Cache)
  BY <1>1, <1>2, <1>3
<1>6. MediaTypeOK'
  BY <1>1, <1>4, <1>5, Apiece DEF MediaTypeOK
<1>7. KeepsShared
  BY <1>1 DEF KeepsShared
<1>8. KeepsAccounts
  <2> SUFFICES ASSUME NEW f \in Managed, Accounted(f), disk'[f] # Absent PROVE Accounted(f)'
    BY DEF KeepsAccounts
  <2>1. CASE Exists(r) /\ row[r].managed = f
    <3>1. f \in Artifacts(r)
      BY <1>1, <2>1, ManagedNames DEF Artifacts
    <3>2. <<r, f>> \in outbox' /\ <<r, f>>[2] = f
      BY <1>1, <3>1
    <3> QED
      BY <3>2 DEF Accounted
  <2>2. CASE \E q \in Recording : q # r /\ Exists(q) /\ row[q].managed = f
    BY <1>4, <2>2 DEF Accounted, Exists
  <2>3. CASE \E o \in outbox : o[2] = f
    BY <1>1, <2>3 DEF Accounted
  <2>4. CASE copy[f[2]].at = "published"
    BY <2>4 DEF Accounted, appVars
  <2> QED
    BY <2>1, <2>2, <2>3, <2>4 DEF Accounted
<1>9. \A q \in Recording : /\ Exists(q)' => Exists(q)
                           /\ Referenced(ManagedCopy(q))' => Referenced(ManagedCopy(q))
                           /\ disk'[ManagedCopy(q)] \in {disk[ManagedCopy(q)], Absent}
  <2>1. \A q \in Recording : Exists(q)' => Exists(q) /\ References(q)' = References(q)
    BY <1>4 DEF Exists, References
  <2> QED
    BY <1>1, <2>1 DEF Referenced, ManagedCopy
<1> QED
  BY <1>6, <1>7, <1>8, <1>9, LibraryKeeps

\* A recording gets another source, which is there, and thus is not the copy of a name still to be imported.
LEMMA RelinkSourceKeeps ==
    ASSUME ImportIInv, UNCHANGED appVars, Ready, NEW r \in Recording, NEW f \in Managed,
           NEW clear \in BOOLEAN, NEW leased \in BOOLEAN, RelinkSource(r, f, clear, leased)
    PROVE  Good
<1>1. /\ UNCHANGED <<disk, outbox, written>> /\ Exists(r) /\ disk[f] # Absent
      /\ row' = [row EXCEPT ![r] = IF clear
                                   THEN [row[r] EXCEPT !.source = f, !.pcm = None, !.wave = None, !.hash = 0]
                                   ELSE [row[r] EXCEPT !.source = f]]
  BY DEF RelinkSource
<1>2. row \in [Recording -> Row \cup {None}] /\ row[r] \in Row /\ f \in File /\ 0 \in 0 .. MaxVersion
  BY <1>1, Apiece, ManagedNames, MediaAssumption DEF MediaTypeOK, Exists
<1> DEFINE a == [row[r] EXCEPT !.source = f, !.pcm = None, !.wave = None, !.hash = 0]
           b == [row[r] EXCEPT !.source = f]
<1>3. /\ a \in Row /\ a.source = f /\ a.managed = row[r].managed /\ a.pcm = None /\ a.wave = None
      /\ b \in Row /\ b.source = f /\ b.managed = row[r].managed /\ b.pcm = row[r].pcm /\ b.wave = row[r].wave
  BY <1>2 DEF Row
<1> HIDE DEF a, b
<1>4. /\ row' \in [Recording -> Row \cup {None}] /\ row'[r] \in {a, b}
      /\ \A q \in Recording \ {r} : row'[q] = row[q]
  BY <1>1, <1>2, <1>3 DEF a, b
<1>5. /\ row'[r] \in Row /\ row'[r] # None /\ row'[r].managed = row[r].managed /\ row'[r].source = f
      /\ row'[r].pcm \in {None, row[r].pcm} /\ row'[r].wave \in {None, row[r].wave}
  BY <1>3, <1>4, NoneAssumption
<1>6. \A q \in Recording : Exists(q)' = Exists(q) /\ row'[q].managed = row[q].managed
  BY <1>1, <1>4, <1>5 DEF Exists
<1>7. \A g \in Managed \ {f} : Referenced(g)' => Referenced(g)
  <2> SUFFICES ASSUME NEW g \in Managed \ {f}, NEW q \in Recording, Exists(q)', g \in References(q)'
               PROVE  g \in References(q)
    BY <1>6 DEF Referenced
  <2>1. CASE q = r
    BY <1>5, <2>1, ManagedNames DEF References
  <2>2. CASE q # r
    BY <1>4, <2>2 DEF References
  <2> QED
    BY <2>1, <2>2
<1>8. MediaTypeOK' /\ KeepsShared
  BY <1>1, <1>4, Apiece DEF MediaTypeOK, KeepsShared
<1>9. KeepsAccounts
  <2> SUFFICES ASSUME NEW g \in Managed, Accounted(g) PROVE Accounted(g)'
    BY DEF KeepsAccounts
  <2>1. UNCHANGED <<copy, outbox>>
    BY <1>1 DEF appVars
  <2> QED
    BY <1>6, <2>1 DEF Accounted
<1>10. \A q \in Recording : Waits(q) \/ Imports(q) => ManagedCopy(q) \in Managed \ {f}
  BY <1>1, NobodyPublishes, ManagedNames, Apiece DEF Unnamed
<1>11. \A q \in Recording : Waits(q) \/ Imports(q) =>
               /\ Exists(q)' => Exists(q)
               /\ Referenced(ManagedCopy(q))' => Referenced(ManagedCopy(q))
               /\ copy[q].at # "published" => disk'[ManagedCopy(q)] \in {disk[ManagedCopy(q)], Absent}
  BY <1>1, <1>6, <1>7, <1>10 DEF ManagedCopy
<1> QED
  BY <1>8, <1>9, <1>11, LibraryKeeps

\* The outbox takes what nothing refers to; the entry stays until the file is gone.
LEMMA DrainKeeps ==
    ASSUME ImportIInv, UNCHANGED appVars, NEW o \in outbox, DrainOne(o)
    PROVE  Good
<1>0. /\ disk \in [File -> Content] /\ outbox \subseteq Recording \X (Managed \cup Cache) /\ o[2] \in File
      /\ Absent \in Content
  <2>1. disk \in [File -> Content] /\ outbox \subseteq Recording \X (Managed \cup Cache)
    BY Apiece DEF MediaTypeOK
  <2>2. o[2] \in File
    BY <2>1 DEF File
  <2> QED
    BY <2>1, <2>2, MediaAssumption DEF Content, Absent, Mixed
<1>1. /\ UNCHANGED <<row, written>> /\ outbox' \in {outbox, outbox \ {o}}
      /\ disk' = disk \/ (disk' = [disk EXCEPT ![o[2]] = Absent] /\ ~Referenced(o[2]))
      /\ outbox' = outbox \/ disk'[o[2]] = Absent
  BY <1>0 DEF DrainOne
<1>2. disk' \in [File -> Content] /\ \A f \in File : disk'[f] = disk[f] \/ (disk'[f] = Absent /\ ~Referenced(f))
  BY <1>0, <1>1
<1>3. \A q \in Recording : Exists(q)' = Exists(q) /\ References(q)' = References(q)
  BY <1>1 DEF Exists, References
<1>4. MediaTypeOK'
  BY <1>0, <1>1, <1>2, Apiece DEF MediaTypeOK
<1>5. KeepsShared
  BY <1>2, ManagedNames DEF KeepsShared
<1>6. KeepsAccounts
  <2> SUFFICES ASSUME NEW f \in Managed, Accounted(f), disk'[f] # Absent PROVE Accounted(f)'
    BY DEF KeepsAccounts
  <2>1. UNCHANGED <<copy, row>>
    BY <1>1 DEF appVars
  <2>2. CASE \E p \in outbox : p[2] = f
    <3>1. PICK p \in outbox : p[2] = f
      BY <2>2
    <3>2. p \in outbox'
      BY <1>1, <3>1
    <3> QED
      BY <3>1, <3>2 DEF Accounted
  <2> QED
    BY <2>1, <2>2 DEF Accounted, Exists
<1>7. \A q \in Recording : /\ Exists(q)' => Exists(q)
                           /\ Referenced(ManagedCopy(q))' => Referenced(ManagedCopy(q))
                           /\ disk'[ManagedCopy(q)] \in {disk[ManagedCopy(q)], Absent}
  <2>1. \A q \in Recording : disk'[ManagedCopy(q)] \in {disk[ManagedCopy(q)], Absent}
    BY <1>2, ManagedNames
  <2> QED
    BY <1>3, <2>1 DEF Referenced, ManagedCopy
<1> QED
  BY <1>4, <1>5, <1>6, <1>7, LibraryKeeps

LEMMA ModifyKeeps ==
    ASSUME ImportIInv, UNCHANGED appVars, NEW f \in SourceFile, Modify(f)
    PROVE  Good
<1>0. /\ disk \in [File -> Content] /\ written \in 0 .. MaxVersion /\ MaxVersion \in Nat /\ f \in File
      /\ Absent = 0 /\ Content = 0 .. MaxVersion + 1
  BY Apiece, ManagedNames, MediaAssumption DEF MediaTypeOK, Content, Absent, Mixed
<1>1. PICK c \in Content : disk' = [disk EXCEPT ![f] = c] /\ UNCHANGED <<row, outbox>> /\ written' \in 0 .. MaxVersion
  <2>1. CASE disk' = [disk EXCEPT ![f] = Absent] /\ UNCHANGED <<row, outbox, written>>
    <3>1. Absent \in Content
      BY <1>0
    <3> QED
      BY <1>0, <2>1, <3>1
  <2>2. CASE written < MaxVersion /\ disk' = [disk EXCEPT ![f] = written + 1] /\ written' = written + 1
             /\ UNCHANGED <<row, outbox>>
    <3>1. written + 1 \in Content /\ written + 1 \in 0 .. MaxVersion
      BY <1>0, <2>2
    <3> QED
      BY <2>2, <3>1
  <2> QED
    BY <2>1, <2>2 DEF Modify
<1>2. disk' \in [File -> Content] /\ \A g \in Managed : disk'[g] = disk[g]
  <2>1. f \notin Managed /\ Managed \subseteq File
    BY ManagedNames
  <2> QED
    BY <1>0, <1>1, <2>1
<1>3. MediaTypeOK'
  BY <1>1, <1>2, Apiece DEF MediaTypeOK
<1>4. KeepsShared
  BY <1>2 DEF KeepsShared
<1>5. KeepsAccounts
  <2>1. UNCHANGED <<copy, row, outbox>>
    BY <1>1 DEF appVars
  <2> QED
    BY <2>1 DEF KeepsAccounts, Accounted, Exists
<1>6. \A q \in Recording : /\ Exists(q)' => Exists(q)
                           /\ Referenced(ManagedCopy(q))' => Referenced(ManagedCopy(q))
                           /\ disk'[ManagedCopy(q)] \in {disk[ManagedCopy(q)], Absent}
  BY <1>1, <1>2, ManagedNames DEF Exists, Referenced, References, ManagedCopy
<1> QED
  BY <1>3, <1>4, <1>5, <1>6, LibraryKeeps

-----------------------------------------------------------------------------
(* The theorems. *)

LEMMA InitGood == ImportInit => ImportIInv
<1> SUFFICES ASSUME ImportInit PROVE ImportIInv
  OBVIOUS
<1>0. /\ row = [r \in Recording |-> None] /\ up = TRUE /\ managedOn = TRUE /\ fresh = Recording /\ staging = {}
      /\ copy = [r \in Recording |-> NoCopy] /\ scans = {} /\ cancelled = {} /\ folder = NoFolder
  BY DEF ImportInit
<1>1. PICK s \in [Recording -> SourceFile] : MediaInit({}, s)
  BY DEF ImportInit
<1>2. MediaTypeOK /\ \A f \in Managed : disk[f] = Absent
  <2>0. Cardinality(Source) \in Nat /\ Cardinality(Source) <= MaxVersion /\ MaxVersion \in Nat
    BY MediaAssumption, FS_CardinalityType
  <2>1. PICK v \in [Source -> 1 .. Cardinality(Source)] :
          disk = [f \in File |-> IF f \in SourceFile THEN v[f[2]]
                                 ELSE IF f \in {"managed"} \X {} THEN v[s[f[2]][2]]
                                 ELSE Absent]
    BY <1>1 DEF MediaInit
  <2>2. \A f \in SourceFile : f[2] \in Source
    BY DEF SourceFile
  <2>3. \A f \in SourceFile : v[f[2]] \in Content
    BY <2>0, <2>1, <2>2 DEF Content, Absent, Mixed
  <2>4. Absent \in Content
    BY <2>0 DEF Content, Absent, Mixed
  <2>5. disk \in [File -> Content]
    BY <2>1, <2>3, <2>4
  <2>6. \A f \in Managed : disk[f] = Absent
    BY <2>1, ManagedNames
  <2>7. written \in 0 .. MaxVersion /\ outbox = {}
    BY <1>1, <2>0 DEF MediaInit
  <2> QED
    BY <1>0, <2>5, <2>6, <2>7 DEF MediaTypeOK
<1>3. /\ folder \in Folder /\ ~folder.running /\ folder.gen = 0 /\ folder.pending = {} /\ folder.active = 0
      /\ folder.completed = 0 /\ ~folder.timer
  <2>1. 0 \in 0 .. MaxActiveCopies /\ 0 \in 0 .. Cardinality(Recording) /\ 0 \in 0 .. MaxGeneration
    BY Sizes, ImportAssumption DEF MaxActiveCopies
  <2> QED
    BY <1>0, <2>1 DEF NoFolder, Folder
<1>4. \A r \in Recording : copy[r] = NoCopy /\ ~Exists(r)
  BY <1>0 DEF Exists
<1>5. ImportTypeOK
  BY <1>0, <1>2, <1>3, NoCopyIs DEF ImportTypeOK
<1>6. FolderAccounted /\ ActiveIsReal
  <2>1. Working = {} /\ Cardinality({}) = 0
    BY <1>4, NoCopyIs, FS_EmptySet DEF Working
  <2>2. ActiveIsReal
    BY <1>3, <2>1 DEF ActiveIsReal, Working
  <2> QED
    BY <1>3, <2>2 DEF FolderAccounted
<1>7. Unnamed
  BY <1>2, <1>4, ManagedNames DEF Unnamed, Referenced
<1>8. Once /\ CopiesOfFolder /\ FolderSane(folder) /\ FlagsSound
  BY <1>0, <1>3, <1>4, NoCopyIs DEF Once, CopiesOfFolder, FolderSane, FlagsSound, Imports
<1> QED
  BY <1>5, <1>6, <1>7, <1>8 DEF ImportIInv, ImportInv

\* Every step keeps the books, the names and the files.
LEMMA ImportKept ==
    ASSUME ImportIInv, [ImportNext]_importVars
    PROVE  Good
<1>1. CASE UNCHANGED importVars
  <2>1. UNCHANGED appVars /\ UNCHANGED <<disk, row, outbox, written>>
    BY <1>1 DEF importVars
  <2>2. UNCHANGED <<up, managedOn, fresh, copy, staging, scans, cancelled, folder>> /\ UNCHANGED mediaVars
    BY <2>1 DEF appVars, mediaVars
  <2>3. Books'
    BY <2>2, Apiece, BooksStay
  <2>4. MediaTypeOK' /\ Unnamed' /\ KeepsShared /\ KeepsAccounts
    BY <2>2, Apiece, QuietMedia DEF Waits, Imports, Once
  <2>5. FlagsSound' /\ Once' /\ ImportTypeOK'
    BY <2>2, <2>4, Apiece DEF FlagsSound, Once, ImportTypeOK, Waits, Imports
  <2> QED
    BY <2>3, <2>4, <2>5, Together DEF Good
<1>2. CASE \E r \in Recording : ImportFile(r) \/ ImportManagedFile(r) \/ Janitor(r)
  BY <1>2, ImportFileKeeps, ImportManagedFileKeeps, SetManagedMediaCopyKeeps
<1>3. CASE ImportFolder \/ CancelFolderImport \/ SetManagedMediaCopy \/ Restart
  BY <1>3, ImportFolderKeeps, CancelFolderImportKeeps, SetManagedMediaCopyKeeps
<1>4. CASE Handlers
  BY <1>4, ScanFinishesKeeps, BatchTimerFiresKeeps, CopyThreadKeeps, CopyRefusedKeeps, CopyPublishedKeeps,
     CopyEnteredKeeps DEF Handlers
<1>5. CASE Quit \/ Crash
  BY <1>5, DownKeeps
<1>6. CASE LibraryStep
  <2>0. UNCHANGED appVars
    BY <1>6 DEF LibraryStep
  <2>1. CASE Ready /\ \E r \in Recording : MoveToTrash(r) \/ Restore(r) \/ PermanentlyDelete(r, FALSE)
    <3>1. PICK no \in BOOLEAN : no = FALSE
      OBVIOUS
    <3>2. PICK r \in Recording : MoveToTrash(r) \/ Restore(r) \/ PermanentlyDelete(r, no)
      BY <2>1, <3>1
    <3>3. CASE MoveToTrash(r) \/ Restore(r)
      BY <2>0, <3>3, TrashKeeps
    <3>4. CASE PermanentlyDelete(r, no)
      BY <2>0, <3>4, PermanentlyDeleteKeeps
    <3> QED
      BY <3>2, <3>3, <3>4
  <2>2. CASE Ready /\ \E r \in Recording, f \in Managed : RelinkSource(r, f, row[r].managed = None, FALSE)
    <3>1. PICK no \in BOOLEAN : no = FALSE
      OBVIOUS
    <3>2. PICK r \in Recording, f \in Managed : RelinkSource(r, f, row[r].managed = None, no)
      BY <2>2, <3>1
    <3>3. PICK clear \in BOOLEAN : clear = (row[r].managed = None)
      OBVIOUS
    <3>4. RelinkSource(r, f, clear, no)
      BY <3>2, <3>3
    <3> QED
      BY <2>0, <2>2, <3>4, RelinkSourceKeeps
  <2>3. CASE \E o \in outbox : DrainOne(o)
    BY <2>0, <2>3, DrainKeeps
  <2>4. CASE \E f \in SourceFile : Modify(f)
    BY <2>0, <2>4, ModifyKeeps
  <2> QED
    BY <1>6, <2>1, <2>2, <2>3, <2>4 DEF LibraryStep
<1> QED
  BY <1>1, <1>2, <1>3, <1>4, <1>5, <1>6 DEF ImportNext

\* The strengthened invariant of the import holds in every state.
THEOREM ImportInvariant == ImportSpec => []ImportIInv
<1>1. ImportIInv /\ [ImportNext]_importVars => ImportIInv'
  BY ImportKept DEF Good
<1> QED
  BY <1>1, InitGood, PTL DEF ImportSpec

\* The members of a folder import agree with its files: every file of the folder is pending, being copied,
\* being entered or counted, once (completeFolderImportItems never meets its cap), and the counter of active
\* copies is that of the copies under way, whatever is cancelled, refused or switched meanwhile.
THEOREM BooksBalance == ImportSpec => []ImportInv
<1>1. ImportIInv => ImportInv
  BY DEF ImportIInv
<1> QED
  BY <1>1, ImportInvariant, PTL

\* A managed copy always belongs to a recording, to the import that publishes it or to the outbox, until it
\* is removed or the application dies between its publication and the insertion of its row.
THEOREM CopiesAreAccountedFor == ImportSpec => CopyIsAccountedFor
<1>1. ImportIInv /\ [ImportNext]_importVars =>
        [\A f \in Managed : Accounted(f) /\ disk'[f] # Absent => Accounted(f)' \/ ~up']_importVars
  BY ImportKept DEF Good, KeepsAccounts
<1> QED
  BY <1>1, ImportInvariant, PTL DEF ImportSpec, CopyIsAccountedFor

\* Neither the outbox nor an import that fails takes a managed copy that some recording refers to, as its
\* copy or as its source.
THEOREM SharedCopiesStay == ImportSpec => SharedCopyIsKept
<1>1. ImportIInv /\ [ImportNext]_importVars =>
        [\A f \in Managed : disk[f] # Absent /\ Referenced(f) /\ Referenced(f)' => disk'[f] # Absent]_importVars
  BY ImportKept DEF Good, KeepsShared
<1> QED
  BY <1>1, ImportInvariant, PTL DEF ImportSpec, SharedCopyIsKept
=============================================================================
