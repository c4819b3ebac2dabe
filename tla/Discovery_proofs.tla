--------------------------- MODULE Discovery_proofs ---------------------------
(***************************************************************************)
(* The folders and files of Discovery, for any tree, disk, commands and    *)
(* scans.                                                                  *)
(***************************************************************************)
EXTENDS Discovery, FiniteSetTheorems, WellFoundedInduction, TLAPS

(* The inductive invariant.                                                *)

LeftType == [changes: Nat, restarts: Nat, commands: Nat]

\* The types of what TypeOK leaves out, and the bound on the changes.
WorkOK ==
    /\ \E D \in SUBSET Files :
           work \in [remove: SUBSET Files, refresh: SUBSET D, add: SUBSET D,
                     date: [D -> Versions]]
    /\ left \in LeftType /\ clean \in BOOLEAN
    /\ \A f \in Files : mtime[f] + left.changes <= MaxChanges

\* What was read is what the files had, and each date is read before what goes with it.
WorkDates == \A f \in DOMAIN work.date : work.date[f] <= mtime[f]
DatesWithin(j, version) ==
    /\ j.date # Unread => j.date <= version[j.file]
    /\ j.content # Unread => j.date <= j.content /\ j.content <= version[j.file]
JobsDates == \A j \in jobs : DatesWithin(j, mtime)

\* A refresh brings what is at least as recent as what the library holds, and records a
\* date that is not ahead of what it brought.
Refreshes(j, m) == j.kind = "Refresh" /\ ~j.stale /\ m[j.file] # None
Advances(j, m) ==
    Refreshes(j, m) => /\ j.content # Unread => m[j.file].content <= j.content
                       /\ j.phase = "stored" => j.date <= m[j.file].content
MediaDates ==
    /\ \A f \in Files : media[f].content <= mtime[f]
    /\ \A j \in jobs : Advances(j, media)

DatesOK == WorkDates /\ JobsDates /\ MediaDates

\* The rows of the tasks follow the jobs, and no two jobs have the same one.
HasFile(f) == tasks[f] \in {"created", "done"}
CreationRow(j) == IF j.again \/ j.phase # "todo" THEN "created" ELSE "todo"
Follows(j, t) ==
    ~j.stale => IF j.kind = "Creation" THEN t[j.file] = CreationRow(j)
                ELSE t[j.file] \in {"created", "done"}
Same(j, k) == j.file = k.file /\ j.kind = k.kind /\ ~j.stale /\ ~k.stale
TasksOK ==
    /\ \A f \in Files : media[f] # None => HasFile(f)
    /\ \A j \in jobs : Follows(j, tasks)
    /\ \A j, k \in jobs : Same(j, k) => j = k

\* While a folder is removed nothing is scanned, and what was converted holds no media
\* but those that were found since.
RemovalOK ==
    Removing =>
        /\ ~Scanning /\ ~clean
        /\ removal.folder \in Folders /\ row[removal.folder] \in Known
        /\ removal.toConvert \subseteq Cascade({removal.folder})
        /\ \A f \in Inside(Cascade({removal.folder}) \ removal.toConvert) :
               media[f] # None => f \in removal.late

\* What is above something on the disk is on the disk.
DiskIsATree ==
    /\ \A p \in Folders \cap onDisk : Up[p] \subseteq onDisk
    /\ \A f \in Files \cap onDisk : FolderOf[f] \in onDisk

\* A row that can have children.
Holds(p) == row[p] \notin {"none", "bannedRoot"}

\* The foreign keys: parent_id, those of the files and of the tasks; and what is to be
\* created for a folder.
ParentsHold ==
    \A p \in Folders : row[p] \in {"child", "bannedChild"} =>
        Parent[p] # NoFolder /\ Holds(Parent[p])
FilesHeld == \A f \in Files : media[f] # None \/ tasks[f] # "none" => Holds(FolderOf[f])
AddHeld == \A f \in work.add : Holds(FolderOf[f])
JobsHeld == \A j \in jobs : j.kind = "Creation" /\ ~j.stale => Holds(FolderOf[j.file])

RowsHang == ParentsHold /\ FilesHeld /\ AddHeld /\ JobsHeld

\* A directory that is to be checked has its row, or its parent has one and was checked
\* already, with all those above it: nothing that is still to check can delete it.
PendingOK ==
    /\ \A e \in pending : IF e.known THEN row[e.dir] \in Known
                          ELSE Parent[e.dir] # NoFolder /\ row[Parent[e.dir]] \in Known
    /\ \A e, d \in pending : d.known =>
           IF e.known THEN e.dir \in Cascade({d.dir}) => e.dir = d.dir
           ELSE Parent[e.dir] \notin Cascade({d.dir})

-----------------------------------------------------------------------------
(* The tree.                                                               *)

\* A set of folders that is closed upwards.
Closed(P) == \A x \in P : Parent[x] \in P \cup {NoFolder}

\* Induction on the folders above p: they are in every closed set that holds it.
LEMMA UpInduction ==
    ASSUME NEW p \in Folders, NEW P \in SUBSET Folders, p \in P, Closed(P)
    PROVE  Up[p] \subseteq P
BY DEF Up, Closed

\* A folder is among those above it.
LEMMA UpSelf == \A p \in Folders : p \in Up[p] /\ Up[p] \subseteq Folders
BY DEF Up

\* The folders above p are closed upwards.
LEMMA UpClosed == \A p \in Folders : Closed(Up[p])
<1>. SUFFICES ASSUME NEW p \in Folders, NEW x \in Up[p], Parent[x] # NoFolder
              PROVE  Parent[x] \in Up[p]
  BY DEF Closed
<1>1. x \in Folders /\ Parent[x] \in Folders
  BY UpSelf, TreeAssumption
<1>2. ASSUME NEW P \in SUBSET Folders, p \in P, Closed(P)
      PROVE  Parent[x] \in P
  <2>1. x \in P
    BY <1>2, UpInduction
  <2>. QED  BY <2>1, <1>2 DEF Closed
<1>. QED  BY <1>1, <1>2 DEF Up, Closed

\* What is above a folder above p is above p.
LEMMA UpTransitive ==
    ASSUME NEW p \in Folders, NEW q \in Up[p]
    PROVE  Up[q] \subseteq Up[p]
<1>1. q \in Folders /\ Up[p] \in SUBSET Folders
  BY UpSelf
<1>. QED  BY <1>1, UpInduction, UpClosed

\* The folders above p are p and those above its parent.
LEMMA UpUnfolds ==
    ASSUME NEW p \in Folders
    PROVE  Up[p] = {p} \cup IF Parent[p] = NoFolder THEN {} ELSE Up[Parent[p]]
<1>. DEFINE P == {p} \cup IF Parent[p] = NoFolder THEN {} ELSE Up[Parent[p]]
<1>1. Parent[p] \in Folders \cup {NoFolder}
  BY TreeAssumption
<1>2. P \in SUBSET Folders /\ Closed(P) /\ p \in P
  <2>1. CASE Parent[p] = NoFolder
    BY <2>1 DEF Closed
  <2>2. CASE Parent[p] # NoFolder
    BY <2>2, <1>1, UpSelf, UpClosed DEF Closed
  <2>. QED  BY <2>1, <2>2
<1>3. Up[p] \subseteq P
  BY <1>2, UpInduction
<1>4. Parent[p] # NoFolder => Parent[p] \in Up[p]
  BY UpSelf, UpClosed DEF Closed
<1>5. P \subseteq Up[p]
  BY <1>4, UpSelf, UpTransitive
<1>. QED  BY <1>3, <1>5

\* Two folders above p are one above the other.
LEMMA UpLinear ==
    ASSUME NEW p \in Folders
    PROVE  \A x, y \in Up[p] : x \in Up[y] \/ y \in Up[x]
<1>. DEFINE P == {x \in Up[p] : \A y \in Up[p] : x \in Up[y] \/ y \in Up[x]}
<1>1. p \in P /\ P \in SUBSET Folders
  BY UpSelf
<1>2. ASSUME NEW x \in P, Parent[x] # NoFolder
      PROVE  Parent[x] \in P
  <2>1. x \in Folders /\ Parent[x] \in Up[p] /\ Parent[x] \in Folders
    BY <1>2, UpSelf, UpClosed, TreeAssumption DEF Closed
  <2>2. ASSUME NEW y \in Up[p]
        PROVE  Parent[x] \in Up[y] \/ y \in Up[Parent[x]]
    <3>1. y \in Folders
      BY UpSelf
    <3>2. CASE x \in Up[y]
      BY <3>1, <3>2, <1>2, UpClosed DEF Closed
    <3>3. CASE y \in Up[x] /\ y # x
      BY <3>3, <2>1, <1>2, UpUnfolds
    <3>. QED  BY <3>1, <3>2, <3>3, UpSelf
  <2>. QED  BY <2>1, <2>2
<1>3. Up[p] \subseteq P
  <2>1. Closed(P)
    BY <1>2 DEF Closed
  <2>. HIDE DEF P
  <2>. QED  BY <1>1, <2>1, UpInduction
<1>. QED  BY <1>3

\* Two folders are not both above the other.
LEMMA UpAntisymmetric ==
    ASSUME NEW p \in Folders, NEW q \in Up[p], p \in Up[q]
    PROVE  p = q
<1>. SUFFICES ASSUME p # q PROVE FALSE
  OBVIOUS
<1>1. Parent[p] # NoFolder /\ q \in Up[Parent[p]] /\ Parent[p] \in Folders
  BY UpUnfolds, TreeAssumption
<1>2. p \in Up[Parent[p]]
  BY <1>1, UpTransitive
<1>. QED  BY <1>1, <1>2, TreeAssumption

-----------------------------------------------------------------------------
(* Folds over finite sets of files.                                        *)

\* Induction on finite sets: a set of subsets has a smallest one.
LEMMA MinimalSubset ==
    ASSUME NEW S, IsFiniteSet(S), NEW T \in SUBSET (SUBSET S), T # {}
    PROVE  \E x \in T : \A y \in T : y \subseteq x => y = x
<1>. DEFINE R == StrictSubsetOrdering(S)
<1>1. IsWellFoundedOn(R, SUBSET S)
  BY FS_StrictSubsetOrderingWellFounded, FS_FiniteSubsetsOfFinite
<1>2. \E x \in T : \A y \in T : ~ (<<y, x>> \in R)
  <2>. HIDE DEF R
  <2>. QED  BY <1>1, WFMin
<1>. QED  BY <1>2 DEF StrictSubsetOrdering

\* The fold of CountsAfterRemoval, over any files.
Removal(p, F) ==
    FoldSet(LAMBDA f, c : IF media[f] = None THEN c ELSE OnLeave(c, media[f]),
            counts[p], F)

\* The element a fold starts with, and the step of Removal on it.
Pick(F) == CHOOSE f \in F : TRUE
Step(F, c) == IF media[Pick(F)] = None THEN c ELSE OnLeave(c, media[Pick(F)])
Rest(F) == F \ {Pick(F)}

\* What iterates over the subsets of F.
Iterates(p, F, iter) ==
    iter = [s \in SUBSET F |-> IF s = {} THEN counts[p] ELSE Step(s, iter[Rest(s)])]

LEMMA RemovalDef ==
    \A p, F : Removal(p, F) = (CHOOSE iter : Iterates(p, F, iter))[F]
BY DEF Removal, FoldSet, MapThenFoldSet, Iterates, Step, Rest, Pick

Unfolds(p, F) == Removal(p, F) = IF F = {} THEN counts[p] ELSE Step(F, Removal(p, Rest(F)))

\* The recursion of a fold over a finite set is well defined.
LEMMA RemovalUnfolds ==
    ASSUME NEW p, NEW F, IsFiniteSet(F)
    PROVE  \A s \in SUBSET F : Unfolds(p, s)
<1>. DEFINE Bad == {s \in SUBSET F : ~Unfolds(p, s)}
<1>. SUFFICES ASSUME Bad # {} PROVE FALSE
  OBVIOUS
<1>1. PICK t \in Bad : \A u \in Bad : u \subseteq t => u = t
  <2>1. Bad \in SUBSET (SUBSET F)
    OBVIOUS
  <2>. HIDE DEF Bad
  <2>. QED  BY <2>1, MinimalSubset
<1>2. \A u \in SUBSET t : u # t => Unfolds(p, u)
  BY <1>1
<1>3. \A s : s # {} => Pick(s) \in s
  BY DEF Pick
<1>. DEFINE G == [s \in SUBSET t |->
                     IF s = {} THEN counts[p] ELSE Step(s, Removal(p, Rest(s)))]
<1>4. ASSUME NEW s \in SUBSET t, s # {}
      PROVE  Rest(s) \in SUBSET t /\ Rest(s) # t /\ Rest(s) \subseteq s /\ Rest(s) # s
  BY <1>3, <1>4 DEF Rest
<1>5. Iterates(p, t, G)
  <2>1. ASSUME NEW s \in SUBSET t, s # {}
        PROVE  G[Rest(s)] = Removal(p, Rest(s))
    <3>1. Rest(s) \in SUBSET t /\ Unfolds(p, Rest(s))
      BY <1>2, <1>4, <2>1
    <3>. QED  BY <3>1 DEF Unfolds
  <2>2. G = [s \in SUBSET t |-> IF s = {} THEN counts[p] ELSE Step(s, G[Rest(s)])]
    BY <2>1
  <2>. QED  BY <2>2 DEF Iterates
<1>. DEFINE H == CHOOSE iter : Iterates(p, t, iter)
<1>6. Iterates(p, t, H)
  <2>. HIDE DEF G
  <2>. QED  BY <1>5
<1>7. Removal(p, t) = H[t]
  BY RemovalDef
<1>. HIDE DEF H
<1>8. \A s \in SUBSET t : H[s] = IF s = {} THEN counts[p] ELSE Step(s, H[Rest(s)])
  BY <1>6 DEF Iterates
<1>9. \A s \in SUBSET t : s # t => H[s] = Removal(p, s)
  <2>. DEFINE Off == {s \in SUBSET t : s # t /\ H[s] # Removal(p, s)}
  <2>. SUFFICES ASSUME Off # {} PROVE FALSE
    OBVIOUS
  <2>1. PICK s \in Off : \A u \in Off : u \subseteq s => u = s
    <3>1. Off \in SUBSET (SUBSET t) /\ IsFiniteSet(t)
      BY FS_Subset
    <3>. HIDE DEF Off
    <3>. QED  BY <3>1, MinimalSubset
  <2>2. Unfolds(p, s)
    BY <1>2
  <2>3. CASE s = {}
    BY <2>2, <2>3, <1>8 DEF Unfolds
  <2>4. CASE s # {}
    <3>1. H[Rest(s)] = Removal(p, Rest(s))
      BY <1>4, <2>1, <2>4
    <3>. QED  BY <3>1, <2>2, <2>4, <1>8 DEF Unfolds
  <2>. QED  BY <2>3, <2>4
<1>10. Unfolds(p, t)
  <2>1. CASE t = {}
    BY <2>1, <1>7, <1>8 DEF Unfolds
  <2>2. CASE t # {}
    <3>1. H[Rest(t)] = Removal(p, Rest(t))
      BY <1>9, <1>4, <2>2
    <3>. QED  BY <3>1, <2>2, <1>7, <1>8 DEF Unfolds
  <2>. QED  BY <2>1, <2>2
<1>. QED  BY <1>10, <1>1

\* The files of a set whose media are videos.
Videos(m, F) == {f \in F : m[f].type = "Video"}

CountsType == [video: Int, audio: Int, duration: Int]

MediaOK == media \in [Files -> Media \cup {None}]

\* Removing the media of a folder takes its videos from the counter.
LEMMA RemovalCounts ==
    ASSUME MediaOK, NEW p \in Folders, counts[p] \in CountsType, NEW F \in SUBSET Files
    PROVE  /\ Removal(p, F) \in CountsType
           /\ Removal(p, F).video = counts[p].video - Cardinality(Videos(media, F))
<1>. DEFINE Good(s) == /\ Removal(p, s) \in CountsType
                       /\ Removal(p, s).video
                            = counts[p].video - Cardinality(Videos(media, s))
            Bad == {s \in SUBSET F : ~Good(s)}
<1>. SUFFICES ASSUME Bad # {} PROVE FALSE
  OBVIOUS
<1>0. IsFiniteSet(F)
  BY TreeAssumption, FS_Subset
<1>1. PICK t \in Bad : \A u \in Bad : u \subseteq t => u = t
  <2>1. Bad \in SUBSET (SUBSET F)
    OBVIOUS
  <2>. HIDE DEF Bad
  <2>. QED  BY <2>1, <1>0, MinimalSubset
<1>2. Unfolds(p, t)
  BY <1>0, RemovalUnfolds
<1>3. CASE t = {}
  <2>1. Videos(media, t) = {}
    BY <1>3 DEF Videos
  <2>2. Removal(p, t) = counts[p]
    BY <1>2, <1>3 DEF Unfolds
  <2>3. counts[p].video - 0 = counts[p].video
    BY DEF CountsType
  <2>. QED  BY <2>1, <2>2, <2>3, FS_EmptySet, <1>1
<1>4. CASE t # {}
  <2>. DEFINE f == Pick(t)
              c == Removal(p, Rest(t))
  <2>1. f \in t /\ f \in Files /\ Rest(t) = t \ {f}
    BY <1>4 DEF Pick, Rest
  <2>2. Good(Rest(t))
    BY <1>1, <2>1
  <2>3. Removal(p, t) = IF media[f] = None THEN c ELSE OnLeave(c, media[f])
    BY <1>2, <1>4 DEF Unfolds, Step
  <2>. DEFINE V == Videos(media, t)
  <2>4. IsFiniteSet(V) /\ Cardinality(V) \in Nat
    BY <1>0, FS_Subset, FS_CardinalityType DEF Videos
  <2>5. Videos(media, Rest(t)) = V \ {f}
    BY <2>1 DEF Videos
  <2>6. Cardinality(V \ {f}) = IF f \in V THEN Cardinality(V) - 1 ELSE Cardinality(V)
    BY <2>4, FS_RemoveElement
  <2>7. f \in V <=> media[f].type = "Video"
    BY <2>1 DEF Videos
  <2>. HIDE DEF V, f, c
  <2>8. CASE media[f] = None
    BY <2>2, <2>3, <2>5, <2>6, <2>7, <2>8, <1>1 DEF None, c, V
  <2>9. CASE media[f] \in Media
    <3>1. media[f] # None
      BY <2>9 DEF Media, None
    <3>2. c \in CountsType /\ c.video = counts[p].video - Cardinality(V \ {f})
      BY <2>2, <2>5 DEF c
    <3>3. Removal(p, t) = OnLeave(c, media[f])
      BY <2>3, <3>1
    <3>4. OnLeave(c, media[f]) \in CountsType
      BY <3>2, <2>9, BoundsAssumption DEF OnLeave, One, Duration, Media, CountsType, Versions
    <3>5. OnLeave(c, media[f]).video = c.video - One("Video", media[f])
      BY DEF OnLeave
    <3>6. One("Video", media[f]) = IF f \in V THEN 1 ELSE 0
      BY <2>7 DEF One
    <3>7. c.video - One("Video", media[f]) = counts[p].video - Cardinality(V)
      <4>1. counts[p].video \in Int
        BY DEF CountsType
      <4>. QED  BY <3>2, <3>6, <2>6, <2>4, <4>1
    <3>. QED  BY <3>3, <3>4, <3>5, <3>7, <1>1 DEF V
  <2>. QED  BY <2>1, <2>8, <2>9 DEF MediaOK
<1>. QED  BY <1>3, <1>4

-----------------------------------------------------------------------------
(* Types.                                                                  *)

DiskTypes == onDisk \subseteq Folders \cup Files /\ noMedia \subseteq onDisk
MtimeType == mtime \in [Files -> Versions]
RowType == row \in [Folders -> {"none"} \cup Known \cup Banned]
CountsOK == counts \in [Folders -> CountsType]
TasksType == tasks \in [Files -> {"none", "todo", "created", "done"}]
RemovalType ==
    /\ removal \in [folder: Folders \cup {NoFolder}, toConvert: SUBSET Folders,
                    late: SUBSET Files]
    /\ cutShort \subseteq Folders
PendingType == pending \subseteq [dir: Folders, known: BOOLEAN]
JobsRead ==
    \A j \in jobs : /\ j.content # Unread => j.date # Unread
                    /\ j.phase # "todo" => j.content # Unread
                    /\ j.phase = "stored" => j.kind = "Refresh"
JobsType == jobs \subseteq Job /\ JobsRead

TypeInv ==
    /\ DiskTypes /\ MtimeType /\ RowType /\ MediaOK /\ ext \subseteq Files
    /\ CountsOK /\ TasksType /\ PendingType /\ RemovalType /\ JobsType /\ WorkOK

LEMMA TypeInvMeans == TypeInv <=> TypeOK /\ WorkOK /\ JobsRead
BY DEF TypeInv, TypeOK, DiskTypes, MtimeType, RowType, MediaOK, CountsOK, CountsType,
       TasksType, PendingType, RemovalType, JobsType

\* An entry of pending.
LEMMA EntryType ==
    \A p \in Folders, b \in BOOLEAN : Entry(p, b) \in [dir: Folders, known: BOOLEAN]
BY DEF Entry

LEMMA InitTypes == Init => TypeInv
<1>. SUFFICES ASSUME Init PROVE TypeInv
  OBVIOUS
<1>1. TypeOK
  BY BoundsAssumption
     DEF Init, TypeOK, Versions, Known, Banned, Job, None, NoRemoval
<1>2. WorkOK
  <2>1. work \in [remove: SUBSET Files, refresh: SUBSET {}, add: SUBSET {},
                  date: [{} -> Versions]]
    BY DEF Init, NoWork
  <2>2. left \in LeftType /\ clean \in BOOLEAN
    BY BoundsAssumption DEF Init, LeftType
  <2>3. \A f \in Files : mtime[f] + left.changes <= MaxChanges
    BY BoundsAssumption DEF Init
  <2>. QED  BY <2>1, <2>2, <2>3 DEF WorkOK
<1>3. JobsRead
  BY DEF Init, JobsRead
<1>. QED  BY <1>1, <1>2, <1>3, TypeInvMeans

\* What goes with deleted rows leaves the types.
LEMMA OrphanType ==
    ASSUME JobsType, NEW F, jobs' = Orphan(F)
    PROVE  JobsType'
<1>1. ASSUME NEW k \in jobs'
      PROVE  /\ k \in Job
             /\ \E j \in jobs : /\ k.kind = j.kind /\ k.phase = j.phase
                              /\ k.date = j.date /\ k.content = j.content
  <2>1. PICK j \in jobs : k = [j EXCEPT !.stale = @ \/ j.file \in F]
    BY DEF Orphan
  <2>2. j \in Job /\ (j.stale \/ j.file \in F) \in BOOLEAN
    BY DEF JobsType, Job
  <2>. QED  BY <2>1, <2>2 DEF Job
<1>2. jobs' \subseteq Job
  BY <1>1
<1>3. JobsRead'
  BY <1>1 DEF JobsType, JobsRead
<1>. QED  BY <1>2, <1>3 DEF JobsType

LEMMA LoseContentTypes ==
    ASSUME TypeInv, NEW G, LoseContent(G)
    PROVE  MediaOK' /\ ext' \subseteq Files /\ CountsOK' /\ TasksType' /\ JobsType'
<1>. USE DEF TypeInv
<1>1. MediaOK'
  BY DEF LoseContent, MediaOK
<1>2. ext' \subseteq Files
  BY DEF LoseContent
<1>3. CountsOK'
  BY DEF LoseContent, CountsOK, CountsType, NoCount
<1>4. TasksType'
  BY DEF LoseContent, TasksType
<1>5. JobsType'
  BY OrphanType DEF LoseContent
<1>. QED  BY <1>1, <1>2, <1>3, <1>4, <1>5

LEMMA DestroyTypes ==
    ASSUME TypeInv, NEW P, Destroy(P)
    PROVE  RowType' /\ MediaOK' /\ ext' \subseteq Files /\ CountsOK' /\ TasksType' /\ JobsType'
<1>1. RowType'
  BY DEF TypeInv, Destroy, RowType
<1>. QED  BY <1>1, LoseContentTypes DEF Destroy

\* The triggers keep the types of the counters.
LEMMA TriggerTypes ==
    ASSUME NEW c \in CountsType, NEW m \in Media
    PROVE  /\ OnInsert(c, m) \in CountsType /\ OnDelete(c, m) \in CountsType
           /\ OnEnter(c, m) \in CountsType /\ OnLeave(c, m) \in CountsType
<1>1. c.video \in Int /\ c.audio \in Int /\ c.duration \in Int
  BY DEF CountsType
<1>2. Duration(m) \in Int /\ One("Video", m) \in Int /\ One("Audio", m) \in Int
  BY BoundsAssumption DEF Duration, One, Media, Versions
<1>3. OnInsert(c, m) \in CountsType
  BY <1>1, <1>2 DEF OnInsert, CountsType
<1>4. OnDelete(c, m) \in CountsType
  BY <1>1, <1>2 DEF OnDelete, CountsType
<1>5. OnEnter(c, m) \in CountsType /\ OnLeave(c, m) \in CountsType
  BY <1>1, <1>2 DEF OnEnter, OnLeave, CountsType
<1>. QED  BY <1>3, <1>4, <1>5

LEMMA ChangeType ==
    ASSUME NEW c \in CountsType, NEW m \in Media, NEW n \in Media
    PROVE  OnChange(c, m, n) \in CountsType
<1>1. OnEnter(c, n) \in CountsType
  BY TriggerTypes
<1>. QED  BY <1>1, TriggerTypes DEF OnChange

\* What a step leaves alone keeps its type.
LEMMA Untouched ==
    ASSUME TypeInv
    PROVE  /\ UNCHANGED <<onDisk, noMedia>> => DiskTypes'
           /\ UNCHANGED mtime => MtimeType'
           /\ UNCHANGED row => RowType'
           /\ UNCHANGED media => MediaOK'
           /\ UNCHANGED ext => ext' \subseteq Files
           /\ UNCHANGED counts => CountsOK'
           /\ UNCHANGED tasks => TasksType'
           /\ UNCHANGED pending => PendingType'
           /\ UNCHANGED <<removal, cutShort>> => RemovalType'
           /\ UNCHANGED jobs => JobsType'
           /\ UNCHANGED <<work, left, mtime>> /\ clean' \in BOOLEAN => WorkOK'
<1>. USE DEF TypeInv
<1>1. /\ UNCHANGED <<onDisk, noMedia>> => DiskTypes'
      /\ UNCHANGED mtime => MtimeType'
      /\ UNCHANGED row => RowType'
      /\ UNCHANGED media => MediaOK'
      /\ UNCHANGED ext => ext' \subseteq Files
  BY DEF DiskTypes, MtimeType, RowType, MediaOK
<1>2. /\ UNCHANGED counts => CountsOK'
      /\ UNCHANGED tasks => TasksType'
      /\ UNCHANGED pending => PendingType'
      /\ UNCHANGED <<removal, cutShort>> => RemovalType'
      /\ UNCHANGED jobs => JobsType'
  BY DEF CountsOK, TasksType, PendingType, RemovalType, JobsType, JobsRead
<1>3. UNCHANGED <<work, left, mtime>> /\ clean' \in BOOLEAN => WorkOK'
  BY DEF WorkOK
<1>. QED  BY <1>1, <1>2, <1>3

\* The bounds only go down.
LEMMA SpendType ==
    ASSUME TypeInv, NEW what \in {"changes", "restarts", "commands"}, Spend(what)
    PROVE  /\ left' \in LeftType
           /\ left'.changes = left.changes - (IF what = "changes" THEN 1 ELSE 0)
<1>1. left \in LeftType
  BY DEF TypeInv, WorkOK
<1>. QED  BY <1>1 DEF Spend, LeftType

LEMMA SpendWork ==
    ASSUME TypeInv, NEW what \in {"changes", "restarts", "commands"}, Spend(what),
           UNCHANGED <<work, mtime>>, clean' \in BOOLEAN
    PROVE  WorkOK'
<1>1. left \in LeftType /\ mtime \in [Files -> Nat]
  BY DEF TypeInv, WorkOK, MtimeType, Versions
<1>2. /\ left' \in LeftType /\ left'.changes <= left.changes
  BY <1>1, SpendType DEF LeftType
<1>3. \A f \in Files : mtime'[f] + left'.changes <= MaxChanges
  BY <1>1, <1>2, BoundsAssumption DEF TypeInv, WorkOK, LeftType
<1>. QED  BY <1>2, <1>3 DEF TypeInv, WorkOK

\* A command with what it does to the folders.
LEMMA CommandTypes ==
    ASSUME TypeInv, Command, UNCHANGED work, clean' \in BOOLEAN
    PROVE  /\ DiskTypes' /\ MtimeType' /\ WorkOK'
           /\ UNCHANGED removal => RemovalType'
BY SpendWork, Untouched DEF Command, disk

LEMMA ConvertTypes ==
    ASSUME TypeInv, NEW F \in SUBSET Files, ConvertToExternal(F)
    PROVE  MediaOK' /\ ext' \subseteq Files
<1>1. MediaOK'
  BY DEF ConvertToExternal, TypeInv, MediaOK
<1>2. ext' \subseteq Files
  <2>1. ext' = ext \cup {f \in F : media[f] # None}
    BY DEF ConvertToExternal
  <2>. QED  BY <2>1 DEF TypeInv
<1>. QED  BY <1>1, <1>2

LEMMA CascadeFolders == \A P : Cascade(P) \subseteq Folders
BY DEF Cascade

\* A job that moves on.
LEMMA PhaseType ==
    ASSUME TypeInv, NEW j \in jobs, NEW x \in {"stored", "dated"}, j.content # Unread,
           x = "stored" => j.kind = "Refresh", Becomes(j, [j EXCEPT !.phase = x])
    PROVE  JobsType'
<1>1. j \in Job /\ (j.content # Unread => j.date # Unread)
  BY DEF TypeInv, JobsType, JobsRead
<1>. DEFINE k == [j EXCEPT !.phase = x]
<1>2. /\ k \in Job /\ k.content = j.content /\ k.date = j.date /\ k.phase = x
      /\ k.kind = j.kind
  BY DEF TypeInv, JobsType, Job
<1>3. jobs' = (jobs \ {j}) \cup {k}
  BY DEF Becomes
<1>. HIDE DEF k
<1>. QED  BY <1>1, <1>2, <1>3 DEF TypeInv, JobsType, JobsRead

\* A new entry of work, and the parts of it that go.
WorkType(D) == [remove: SUBSET Files, refresh: SUBSET D, add: SUBSET D, date: [D -> Versions]]

LEMMA WorkChange ==
    ASSUME TypeInv, UNCHANGED <<left, mtime, clean>>,
           \E D \in SUBSET Files : work' \in WorkType(D)
    PROVE  WorkOK'
BY DEF TypeInv, WorkOK, WorkType

LEMMA NoWorkType == NoWork \in WorkType({})
BY DEF NoWork, WorkType

\* The jobs of the files that are listed.
LEMMA NewJobType ==
    ASSUME TypeInv, NEW f \in work.add \cup work.refresh, NEW kind \in {"Creation", "Refresh"}
    PROVE  /\ NewJob(f, kind) \in Job /\ NewJob(f, kind).content = Unread
           /\ NewJob(f, kind).phase = "todo"
           /\ f \in DOMAIN work.date /\ work.date[f] \in Versions
<1>1. f \in Files /\ f \in DOMAIN work.date /\ work.date[f] \in Versions
  BY DEF TypeInv, WorkOK
<1>. QED  BY <1>1 DEF NewJob, Job, Unread

LEMMA TypeStep == TypeInv /\ [Next]_vars => TypeInv'
<1>. SUFFICES ASSUME TypeInv, [Next]_vars PROVE TypeInv'
  OBVIOUS
<1>. USE DEF TypeInv
<1>c. clean \in BOOLEAN
  BY DEF WorkOK
<1>1. CASE reload
  <2>1. PendingType'
    BY <1>1, EntryType DEF reload, PendingType
  <2>2. clean' \in BOOLEAN
    BY <1>1 DEF reload
  <2>. QED  BY <1>1, <2>1, <2>2, CommandTypes, Untouched DEF reload, Command, db
<1>2. CASE interrupt
  <2>1. PendingType'
    BY <1>2 DEF interrupt, PendingType
  <2>2. WorkOK'
    <3>1. left \in LeftType /\ mtime \in [Files -> Nat]
      BY DEF WorkOK, MtimeType, Versions
    <3>2. left' \in LeftType /\ left'.changes = left.changes
      BY <1>2, <3>1, SpendType DEF interrupt, LeftType
    <3>. QED  BY <1>2, <3>2, NoWorkType DEF interrupt, disk, WorkOK, WorkType
  <2>. QED  BY <1>2, <2>1, <2>2, Untouched DEF interrupt, disk, db
<1>3. CASE FilesDone
  <2>1. WorkOK'
    BY <1>3, NoWorkType, WorkChange DEF FilesDone, disk
  <2>. QED  BY <1>3, <2>1, Untouched DEF FilesDone, disk, db
<1>4. CASE Restart
  <2>1. PendingType'
    BY <1>4 DEF Restart, PendingType
  <2>2. WorkOK'
    <3>1. left \in LeftType /\ mtime \in [Files -> Nat]
      BY DEF WorkOK, MtimeType, Versions
    <3>2. left' \in LeftType /\ left'.changes = left.changes
      <4>1. Spend("restarts")
        BY <1>4 DEF Restart
      <4>. QED  BY <3>1, <4>1, SpendType DEF LeftType
    <3>. QED  BY <1>4, <3>2, NoWorkType DEF Restart, disk, WorkOK, WorkType
  <2>3. JobsType'
    <3>1. ASSUME NEW j \in jobs' PROVE j \in Job /\ j.content = Unread /\ j.phase = "todo"
      <4>1. CASE \E f \in Files, b \in BOOLEAN :
                     j = [file |-> f, kind |-> "Creation", date |-> Unread, content |-> Unread,
                          stale |-> FALSE, again |-> b, phase |-> "todo"]
        BY <4>1 DEF Job
      <4>2. CASE \E k \in jobs : j = [k EXCEPT !.date = Unread, !.content = Unread, !.phase = "todo"]
        BY <4>2 DEF JobsType, JobsRead, Job
      <4>. QED  BY <1>4, <4>1, <4>2 DEF Restart
    <3>. QED  BY <3>1 DEF JobsType, JobsRead
  <2>4. RemovalType'
    BY <1>4 DEF Restart, RemovalType, NoRemoval
  <2>. QED  BY <1>4, <2>1, <2>2, <2>3, <2>4, Untouched DEF Restart, disk, db
<1>5. ASSUME NEW p \in Folders, addRoot(p) PROVE TypeInv'
  <2>1. RowType'
    BY <1>5 DEF addRoot, RowType, Known
  <2>. QED  BY <1>5, <2>1, CommandTypes, Untouched DEF addRoot, Command
<1>6. ASSUME NEW p \in Folders, reloadRoot(p) PROVE TypeInv'
  <2>1. PendingType'
    BY <1>6, EntryType DEF reloadRoot, PendingType
  <2>. QED  BY <1>6, <1>c, <2>1, CommandTypes, Untouched DEF reloadRoot, Command, db
<1>7. ASSUME NEW p \in Folders, ban(p) PROVE TypeInv'
  <2>1. RowType'
    BY <1>7 DEF ban, RowType, Banned
  <2>2. PICK G : LoseContent(G)
    BY <1>7 DEF ban
  <2>. QED  BY <1>7, <1>c, <2>1, <2>2, LoseContentTypes, CommandTypes, Untouched DEF ban, Command
<1>8. ASSUME NEW p \in Folders, unban(p) PROVE TypeInv'
  <2>1. PendingType'
    BY <1>8, EntryType DEF unban, PendingType
  <2>. QED  BY <1>8, <2>1, DestroyTypes, CommandTypes, Untouched DEF unban, Command
<1>9. ASSUME NEW p \in Folders, remove(p) PROVE TypeInv'
  <2>1. RemovalType'
    BY <1>9, CascadeFolders DEF remove, Command, Crawled, RemovalType
  <2>. QED  BY <1>9, <2>1, CommandTypes, Untouched DEF remove, db
<1>a. ASSUME NEW q \in Folders, convertFolder(q) PROVE TypeInv'
  <2>1. RemovalType'
    BY <1>a DEF convertFolder, RemovalType
  <2>2. MediaOK' /\ ext' \subseteq Files
    BY <1>a, ConvertTypes DEF convertFolder, Inside
  <2>3. CountsOK'
    <3>1. CountsAfterRemoval(q) = Removal(q, Inside({q}))
      BY DEF CountsAfterRemoval, Removal
    <3>2. CountsAfterRemoval(q) \in CountsType
      BY <3>1, RemovalCounts DEF CountsOK, Inside
    <3>. QED  BY <1>a, <3>2 DEF convertFolder, CountsOK
  <2>. QED  BY <1>a, <1>c, <2>1, <2>2, <2>3, Untouched DEF convertFolder, disk
<1>b. CASE removed
  <2>1. RemovalType'
    BY <1>b DEF removed, RemovalType, NoRemoval
  <2>2. /\ MediaOK' /\ ext' \subseteq Files /\ CountsOK' /\ TasksType' /\ JobsType' /\ RowType'
    <3>1. CASE Destroy({removal.folder})
      BY <3>1, DestroyTypes
    <3>2. CASE row' = [row EXCEPT ![removal.folder] = "bannedChild"] /\ UNCHANGED <<media, ext, counts, tasks, jobs>>
      <4>1. RowType'
        BY <3>2 DEF RowType, Banned
      <4>. QED  BY <3>2, <4>1, Untouched
    <3>. QED  BY <1>b, <3>1, <3>2 DEF removed
  <2>. QED  BY <1>b, <1>c, <2>1, <2>2, Untouched DEF removed, disk
<1>10. ASSUME NEW p \in Folders, ToggleNoMedia(p) PROVE TypeInv'
  <2>1. DiskTypes'
    BY <1>10 DEF ToggleNoMedia, DiskTypes
  <2>2. WorkOK'
    BY <1>10, SpendWork DEF ToggleNoMedia, Change
  <2>. QED  BY <1>10, <2>1, <2>2, Untouched DEF ToggleNoMedia, Change, db
<1>11. ASSUME NEW e \in pending, checkHidden(e) PROVE TypeInv'
  <2>1. PendingType'
    BY <1>11 DEF checkHidden, PendingType
  <2>2. RowType' /\ MediaOK' /\ ext' \subseteq Files /\ CountsOK' /\ TasksType' /\ JobsType'
    BY <1>11, DestroyTypes, Untouched DEF checkHidden, db
  <2>. QED  BY <1>11, <1>c, <2>1, <2>2, Untouched DEF checkHidden, disk
<1>12. ASSUME NEW e \in pending, checkRefused(e) PROVE TypeInv'
  <2>1. PendingType'
    BY <1>12 DEF checkRefused, PendingType
  <2>. QED  BY <1>12, <1>c, <2>1, Untouched DEF checkRefused, disk, db
<1>13. ASSUME NEW e \in pending, checkFolder(e) PROVE TypeInv'
  <2>1. PendingType'
    <3>1. \A q \in SubDirs(e.dir) : q \in Folders /\ (q \in SubRows(e.dir)) \in BOOLEAN
      BY DEF SubDirs
    <3>2. \A q \in SubDirs(e.dir) :
              Entry(q, q \in SubRows(e.dir)) \in [dir: Folders, known: BOOLEAN]
      BY <3>1, EntryType, Zenon
    <3>. QED  BY <1>13, <3>2 DEF checkFolder, PendingType
  <2>2. RowType'
    BY <1>13 DEF checkFolder, RowType, Known
  <2>3. PICK G : LoseContent(G)
    BY <1>13 DEF checkFolder
  <2>4. WorkOK'
    <3>. DEFINE there == Inside({e.dir}) \cap onDisk
    <3>1. there \in SUBSET Files
      BY DEF Inside
    <3>2. Listing(e.dir) \in WorkType(there)
      <4>1. Listing(e.dir).date \in [there -> Versions]
        BY <3>1 DEF Listing, MtimeType
      <4>. QED  BY <4>1 DEF Listing, WorkType, Inside
    <3>3. work' \in WorkType(there)
      BY <1>13, <3>2 DEF checkFolder
    <3>. HIDE DEF there
    <3>. QED  BY <1>13, <3>1, <3>3, WorkChange DEF checkFolder, disk
  <2>. QED  BY <1>13, <2>1, <2>2, <2>3, <2>4, LoseContentTypes, Untouched DEF checkFolder, disk
<1>14. ASSUME NEW f \in Files, removeFile(f) PROVE TypeInv'
  <2>1. MediaOK'
    BY <1>14 DEF removeFile, MediaOK
  <2>2. CountsOK'
    <3>1. FolderOf[f] \in Folders
      BY TreeAssumption
    <3>2. CASE media[f] = None
      <4>1. OnDelete(counts[FolderOf[f]], media[f]) \in CountsType
        BY <3>1, <3>2 DEF OnDelete, One, Duration, None, CountsType, CountsOK
      <4>. QED  BY <1>14, <3>1, <4>1 DEF removeFile, CountsOK
    <3>3. CASE media[f] \in Media
      BY <1>14, <3>1, <3>3, TriggerTypes DEF removeFile, CountsOK
    <3>. QED  BY <3>2, <3>3 DEF MediaOK
  <2>3. TasksType'
    BY <1>14 DEF removeFile, TasksType
  <2>4. JobsType'
    BY <1>14, OrphanType DEF removeFile
  <2>5. WorkOK'
    <3>1. PICK D \in SUBSET Files : work \in WorkType(D)
      BY DEF WorkOK, WorkType
    <3>2. work' \in WorkType(D)
      BY <1>14, <3>1 DEF removeFile, WorkType
    <3>. QED  BY <1>14, <3>2, WorkChange DEF removeFile, disk
  <2>. QED  BY <1>14, <2>1, <2>2, <2>3, <2>4, <2>5, Untouched DEF removeFile, disk
<1>15. ASSUME NEW f \in Files, onUpdatedFile(f) PROVE TypeInv'
  <2>1. JobsType'
    BY <1>15, NewJobType DEF onUpdatedFile, JobsType, JobsRead
  <2>2. WorkOK'
    <3>1. PICK D \in SUBSET Files : work \in WorkType(D)
      BY DEF WorkOK, WorkType
    <3>2. work' \in WorkType(D)
      BY <1>15, <3>1 DEF onUpdatedFile, WorkType
    <3>. QED  BY <1>15, <3>2, WorkChange DEF onUpdatedFile, disk
  <2>. QED  BY <1>15, <2>1, <2>2, Untouched DEF onUpdatedFile, disk, db
<1>16. ASSUME NEW f \in Files, onDiscoveredFile(f) PROVE TypeInv'
  <2>1. JobsType' /\ TasksType'
    BY <1>16, NewJobType DEF onDiscoveredFile, JobsType, JobsRead, TasksType
  <2>2. WorkOK'
    <3>1. PICK D \in SUBSET Files : work \in WorkType(D)
      BY DEF WorkOK, WorkType
    <3>2. work' \in WorkType(D)
      BY <1>16, <3>1 DEF onDiscoveredFile, WorkType
    <3>. QED  BY <1>16, <3>2, WorkChange DEF onDiscoveredFile, disk
  <2>. QED  BY <1>16, <2>1, <2>2, Untouched DEF onDiscoveredFile, disk
<1>17. ASSUME NEW f \in Files, Modify(f) PROVE TypeInv'
  <2>1. left \in LeftType /\ mtime \in [Files -> Nat]
    BY DEF WorkOK, MtimeType, Versions
  <2>2. /\ left.changes > 0 /\ left.changes \in Nat /\ left'.changes = left.changes - 1
        /\ left' \in LeftType
    BY <1>17, <2>1, SpendType DEF Modify, Change, Spend, LeftType
  <2>3. \A g \in Files : mtime[g] + left.changes <= MaxChanges
    BY DEF WorkOK
  <2>4. mtime' = [mtime EXCEPT ![f] = @ + 1]
    BY <1>17 DEF Modify
  <2>5. \A g \in Files : mtime'[g] \in Nat /\ mtime'[g] + left'.changes <= MaxChanges
    BY <2>1, <2>2, <2>3, <2>4, BoundsAssumption
  <2>6. MtimeType'
    BY <2>1, <2>2, <2>4, <2>5, BoundsAssumption DEF MtimeType, Versions
  <2>7. WorkOK'
    BY <1>17, <2>2, <2>5 DEF Modify, Change, WorkOK
  <2>. QED  BY <1>17, <2>6, <2>7, Untouched DEF Modify, Change, db
<1>18. ASSUME NEW j \in jobs, RestoreEntities(j) PROVE TypeInv'
  <2>1. j \in Job /\ mtime[j.file] \in Versions
    BY DEF JobsType, JobsRead, Job, MtimeType
  <2>2. JobsType'
    BY <1>18, <2>1 DEF RestoreEntities, Becomes, JobsType, JobsRead, Job
  <2>3. TasksType'
    BY <1>18 DEF RestoreEntities, TasksType
  <2>. QED  BY <1>18, <1>c, <2>2, <2>3, Untouched DEF RestoreEntities, disk
<1>19. ASSUME NEW j \in jobs, Extract(j) PROVE TypeInv'
  <2>1. j \in Job /\ mtime[j.file] \in Versions
    BY DEF JobsType, JobsRead, Job, MtimeType
  <2>2. JobsType'
    BY <1>19, <2>1 DEF Extract, Becomes, JobsType, JobsRead, Job
  <2>. QED  BY <1>19, <1>c, <2>2, Untouched DEF Extract, disk, db
<1>20. ASSUME NEW j \in jobs, Fail(j) \/ Discard(j) \/ saveParserStep(j) PROVE TypeInv'
  <2>1. JobsType' /\ TasksType'
    BY <1>20 DEF Fail, Discard, saveParserStep, db, JobsType, JobsRead, TasksType
  <2>2. clean' \in BOOLEAN
    BY <1>20, <1>c DEF Fail, Discard, saveParserStep
  <2>. QED  BY <1>20, <2>1, <2>2, Untouched DEF Fail, Discard, saveParserStep, disk, db
<1>d. ASSUME NEW j \in jobs, updateFsInfo(j) PROVE TypeInv'
  <2>1. j \in Job /\ (j.content # Unread => j.date # Unread)
    BY DEF JobsType, JobsRead
  <2>2. j.date \in Versions
    BY <1>d, <2>1 DEF updateFsInfo, Job
  <2>4. JobsType'
    BY <1>d, PhaseType DEF updateFsInfo
  <2>5. MediaOK'
    BY <1>d, <2>2 DEF updateFsInfo, Writes, MediaOK, Media
  <2>. QED  BY <1>d, <1>c, <2>4, <2>5, Untouched DEF updateFsInfo, disk
<1>21. ASSUME NEW j \in jobs, NEW type \in {"Audio", "Video"}, createFileAndMedia(j, type)
       PROVE  TypeInv'
  <2>1. /\ j \in Job /\ j.file \in Files /\ FolderOf[j.file] \in Folders
    BY TreeAssumption DEF JobsType, JobsRead, Job
  <2>2. j.content \in Versions /\ j.date \in Versions
    BY <1>21, <2>1 DEF createFileAndMedia, JobsType, JobsRead, Job
  <2>3. Extracted(j, type) \in Media
    BY <2>2 DEF Extracted, Media
  <2>4. MediaOK'
    BY <1>21, <2>3 DEF createFileAndMedia, MediaOK
  <2>5. CountsOK' /\ ext' \subseteq Files
    <3>1. /\ OnEnter(counts[FolderOf[j.file]], Extracted(j, type)) \in CountsType
          /\ OnInsert(counts[FolderOf[j.file]], Extracted(j, type)) \in CountsType
      BY <2>1, <2>3, TriggerTypes DEF CountsOK
    <3>. HIDE DEF CountsType
    <3>. QED  BY <1>21, <2>1, <3>1 DEF createFileAndMedia, CreatedOrOverridden, CountsOK
  <2>6. TasksType'
    BY <1>21, <2>1 DEF createFileAndMedia, TasksType
  <2>7. JobsType'
    BY <1>21, PhaseType DEF createFileAndMedia
  <2>8. RemovalType'
    BY <1>21, <2>1 DEF createFileAndMedia, RemovalType
  <2>. QED  BY <1>21, <1>c, <2>4, <2>5, <2>6, <2>7, <2>8, Untouched DEF createFileAndMedia, disk
<1>22. ASSUME NEW j \in jobs, NEW type \in {"Audio", "Video"}, refreshMedia(j, type)
       PROVE  TypeInv'
  <2>1. /\ j \in Job /\ j.file \in Files /\ FolderOf[j.file] \in Folders
    BY TreeAssumption DEF JobsType, JobsRead, Job
  <2>2. j.content \in Versions /\ j.date \in Versions
    BY <1>22, <2>1 DEF refreshMedia, JobsType, JobsRead, Job
  <2>3. JobsType'
    BY <1>22, PhaseType DEF refreshMedia
  <2>4. MediaOK' /\ CountsOK'
    <3>1. CASE ~Writes(j)
      BY <1>22, <3>1, Untouched DEF refreshMedia
    <3>2. CASE Writes(j)
      <4>. DEFINE longer == [media[j.file] EXCEPT !.content = j.content]
                  m == [longer EXCEPT !.type = type]
                  c == counts[FolderOf[j.file]]
      <4>2. media[j.file] \in Media
        BY <2>1, <3>2 DEF MediaOK, Writes
      <4>3. longer \in Media
        BY <2>2, <4>2 DEF Media
      <4>1. m \in Media
        BY <4>3 DEF Media
      <4>4. OnChange(OnChange(c, media[j.file], longer), longer, m) \in CountsType
        <5>1. c \in CountsType
          BY <2>1 DEF CountsOK
        <5>. HIDE DEF c, longer, m
        <5>. QED  BY <4>1, <4>2, <4>3, <5>1, ChangeType
      <4>5. /\ media' = [media EXCEPT ![j.file] = m]
            /\ counts' = [counts EXCEPT ![FolderOf[j.file]] =
                              OnChange(OnChange(c, media[j.file], longer), longer, m)]
        BY <1>22, <3>2 DEF refreshMedia
      <4>. HIDE DEF m, longer, c
      <4>. QED  BY <4>1, <4>4, <4>5, <2>1 DEF MediaOK, CountsOK
    <3>. QED  BY <3>1, <3>2
  <2>. QED  BY <1>22, <1>c, <2>3, <2>4, Untouched DEF refreshMedia, disk
<1>23. ASSUME NEW x \in Folders \cup Files, Vanish(x) PROVE TypeInv'
  <2>1. DiskTypes'
    BY <1>23 DEF Vanish, DiskTypes
  <2>2. WorkOK'
    BY <1>23, SpendWork DEF Vanish, Change
  <2>. QED  BY <1>23, <2>1, <2>2, Untouched DEF Vanish, Change, db
<1>24. ASSUME NEW x \in Folders \cup Files, Appear(x) PROVE TypeInv'
  <2>1. DiskTypes'
    BY <1>24 DEF Appear, DiskTypes
  <2>2. WorkOK'
    BY <1>24 DEF Appear, Change, WorkOK
  <2>. QED  BY <1>24, <2>1, <2>2, Untouched DEF Appear, Change, db
<1>25. CASE UNCHANGED vars
  BY <1>25, <1>c, Untouched DEF vars, disk, db
<1>. QED
  BY <1>1, <1>2, <1>3, <1>4, <1>5, <1>6, <1>7, <1>8, <1>9, <1>10, <1>11, <1>12, <1>13,
     <1>14, <1>15, <1>16, <1>17, <1>18, <1>19, <1>20, <1>21, <1>22, <1>23, <1>24, <1>25,
     <1>a, <1>b, <1>d
     DEF Next

-----------------------------------------------------------------------------
(* What a step does to the media, the jobs and the work.                   *)

\* Only the analysis adds or changes a media.
MediaOnlyLost == \A f \in Files : media'[f] \in {media[f], None}

\* No job is added, and what it read is kept.
JobsOnlyLost ==
    \A j \in jobs' : \E k \in jobs :
        /\ j.file = k.file /\ j.kind = k.kind /\ j.date = k.date /\ j.content = k.content
        /\ ~j.stale => ~k.stale

\* How far it is as well.
JobsKept ==
    \A j \in jobs' : \E k \in jobs :
        /\ j.file = k.file /\ j.kind = k.kind /\ j.date = k.date /\ j.content = k.content
        /\ j.again = k.again /\ j.phase = k.phase
        /\ ~j.stale => ~k.stale

\* No file is added to the work.
WorkOnlyLost == work' = NoWork \/ (work'.date = work.date /\ work'.add \subseteq work.add)

\* The job leaves the parser.
Ends(j) == Fail(j) \/ Discard(j) \/ saveParserStep(j)

LEMMA LoseContentLoses == ASSUME NEW G, LoseContent(G) PROVE MediaOnlyLost
BY DEF LoseContent, MediaOnlyLost

LEMMA OrphanLoses ==
    ASSUME JobsType, NEW F, jobs' = Orphan(F)
    PROVE  JobsKept
BY DEF Orphan, JobsKept, JobsType, Job

LEMMA RemovedLoses ==
    ASSUME TypeInv, removed
    PROVE  MediaOnlyLost /\ JobsKept /\ UNCHANGED ext
<1>1. UNCHANGED <<media, jobs>> => MediaOnlyLost /\ JobsKept
  BY DEF MediaOnlyLost, JobsKept
<1>2. CASE UNCHANGED <<media, ext, counts, tasks, jobs>>
  BY <1>1, <1>2
<1>3. CASE Destroy({removal.folder})
  <2>1. LoseContent(Cascade({removal.folder})) /\ JobsType
    BY <1>3 DEF Destroy, TypeInv
  <2>2. jobs' = Orphan(Inside(Cascade({removal.folder}))) /\ UNCHANGED ext
    BY <2>1 DEF LoseContent
  <2>. QED  BY <2>1, <2>2, LoseContentLoses, OrphanLoses
<1>. QED  BY <1>2, <1>3 DEF removed

LEMMA MediaSteps ==
    ASSUME TypeInv, [Next]_vars
    PROVE  \/ MediaOnlyLost
           \/ \E j \in jobs : updateFsInfo(j)
           \/ \E j \in jobs, type \in {"Audio", "Video"} :
                  createFileAndMedia(j, type) \/ refreshMedia(j, type)
<1>1. UNCHANGED media => MediaOnlyLost
  BY DEF MediaOnlyLost
<1>2. CASE reload \/ interrupt \/ FilesDone \/ Restart \/ UNCHANGED vars
  BY <1>1, <1>2 DEF reload, interrupt, FilesDone, Restart, vars, db
<1>3. ASSUME NEW p \in Folders, addRoot(p) \/ reloadRoot(p) \/ remove(p) \/ ToggleNoMedia(p)
      PROVE  MediaOnlyLost
  BY <1>1, <1>3 DEF addRoot, reloadRoot, remove, ToggleNoMedia, Change, db
<1>4. ASSUME NEW p \in Folders, ban(p) \/ unban(p)
      PROVE  MediaOnlyLost
  <2>1. \E G : LoseContent(G)
    BY <1>4 DEF ban, unban, Destroy
  <2>. QED  BY <2>1, LoseContentLoses
<1>5. ASSUME NEW p \in Folders, convertFolder(p)
      PROVE  MediaOnlyLost
  BY <1>5 DEF convertFolder, ConvertToExternal, MediaOnlyLost
<1>6. ASSUME NEW e \in pending, checkHidden(e) \/ checkRefused(e) \/ checkFolder(e)
      PROVE  MediaOnlyLost
  <2>1. UNCHANGED media \/ \E G : LoseContent(G)
    BY <1>6 DEF checkHidden, checkRefused, checkFolder, Destroy, db
  <2>. QED  BY <2>1, <1>1, LoseContentLoses
<1>7. ASSUME NEW f \in Files, removeFile(f)
      PROVE  MediaOnlyLost
  BY <1>7 DEF removeFile, MediaOnlyLost
<1>8. ASSUME NEW f \in Files, onUpdatedFile(f) \/ onDiscoveredFile(f) \/ Modify(f)
      PROVE  MediaOnlyLost
  BY <1>1, <1>8 DEF onUpdatedFile, onDiscoveredFile, Modify, Change, db
<1>9. ASSUME NEW j \in jobs, RestoreEntities(j) \/ Extract(j) \/ Ends(j)
      PROVE  MediaOnlyLost
  BY <1>1, <1>9 DEF RestoreEntities, Extract, Ends, Fail, Discard, saveParserStep, db
<1>10. ASSUME NEW x \in Folders \cup Files, Vanish(x) \/ Appear(x)
       PROVE  MediaOnlyLost
  BY <1>1, <1>10 DEF Vanish, Appear, Change, db
<1>. QED
  BY <1>2, <1>3, <1>4, <1>5, <1>6, <1>7, <1>8, <1>9, <1>10, RemovedLoses DEF Next, Ends

LEMMA JobSteps ==
    ASSUME TypeInv, [Next]_vars
    PROVE  \/ JobsKept
           \/ Restart
           \/ \E f \in Files : onUpdatedFile(f) \/ onDiscoveredFile(f)
           \/ \E j \in jobs : RestoreEntities(j) \/ Extract(j) \/ updateFsInfo(j)
           \/ \E j \in jobs, type \in {"Audio", "Video"} :
                  createFileAndMedia(j, type) \/ refreshMedia(j, type)
<1>0. JobsType
  BY DEF TypeInv
<1>1. jobs' \subseteq jobs => JobsKept
  BY DEF JobsKept
<1>2. CASE reload \/ interrupt \/ FilesDone \/ UNCHANGED vars
  BY <1>1, <1>2 DEF reload, interrupt, FilesDone, vars
<1>3. ASSUME NEW p \in Folders, \/ addRoot(p) \/ reloadRoot(p) \/ remove(p) \/ convertFolder(p)
                                \/ ToggleNoMedia(p)
      PROVE  JobsKept
  BY <1>1, <1>3 DEF addRoot, reloadRoot, remove, convertFolder, ToggleNoMedia, Change
<1>4. ASSUME NEW p \in Folders, ban(p) \/ unban(p)
      PROVE  JobsKept
  <2>1. \E F : jobs' = Orphan(F)
    BY <1>4 DEF ban, unban, Destroy, LoseContent
  <2>. QED  BY <2>1, <1>0, OrphanLoses
<1>6. ASSUME NEW e \in pending, checkHidden(e) \/ checkRefused(e) \/ checkFolder(e)
      PROVE  JobsKept
  <2>1. jobs' = jobs \/ \E F : jobs' = Orphan(F)
    BY <1>6 DEF checkHidden, checkRefused, checkFolder, Destroy, LoseContent
  <2>. QED  BY <2>1, <1>0, <1>1, OrphanLoses
<1>7. ASSUME NEW f \in Files, removeFile(f) \/ Modify(f)
      PROVE  JobsKept
  BY <1>0, <1>1, <1>7, OrphanLoses DEF removeFile, Modify, Change
<1>8. ASSUME NEW j \in jobs, Ends(j)
      PROVE  JobsKept
  BY <1>1, <1>8 DEF Ends, Fail, Discard, saveParserStep
<1>10. ASSUME NEW x \in Folders \cup Files, Vanish(x) \/ Appear(x)
       PROVE  JobsKept
  BY <1>1, <1>10 DEF Vanish, Appear, Change
<1>. QED
  BY <1>2, <1>3, <1>4, <1>6, <1>7, <1>8, <1>10, RemovedLoses DEF Next, Ends

\* A job that moves on is still the same job.
Moved(j, k, x) ==
    /\ jobs' = (jobs \ {j}) \cup {k}
    /\ k.file = j.file /\ k.kind = j.kind /\ k.date = j.date /\ k.content = j.content
    /\ k.stale = j.stale /\ k.again = j.again /\ k.phase = x

LEMMA PhaseMoves ==
    ASSUME TypeInv, NEW j \in jobs, NEW x, Becomes(j, [j EXCEPT !.phase = x])
    PROVE  Moved(j, [j EXCEPT !.phase = x], x)
<1>1. j \in Job
  BY DEF TypeInv, JobsType
<1>. QED  BY <1>1 DEF Moved, Becomes, Job

LEMMA ReadSteps ==
    ASSUME TypeInv, [Next]_vars
    PROVE  \/ JobsOnlyLost
           \/ Restart
           \/ \E f \in Files : onUpdatedFile(f) \/ onDiscoveredFile(f)
           \/ \E j \in jobs : RestoreEntities(j) \/ Extract(j)
<1>1. JobsKept => JobsOnlyLost
  BY DEF JobsKept, JobsOnlyLost
<1>2. ASSUME NEW j \in jobs, NEW x, Becomes(j, [j EXCEPT !.phase = x]) PROVE JobsOnlyLost
  <2>. DEFINE k == [j EXCEPT !.phase = x]
  <2>1. Moved(j, k, x)
    BY <1>2, PhaseMoves
  <2>. HIDE DEF k
  <2>. QED  BY <2>1 DEF Moved, JobsOnlyLost
<1>3. ASSUME NEW j \in jobs, updateFsInfo(j) PROVE JobsOnlyLost
  BY <1>2, <1>3 DEF updateFsInfo
<1>4. ASSUME NEW j \in jobs, NEW type \in {"Audio", "Video"},
             createFileAndMedia(j, type) \/ refreshMedia(j, type)
      PROVE  JobsOnlyLost
  BY <1>2, <1>4 DEF createFileAndMedia, refreshMedia
<1>. QED  BY <1>1, <1>3, <1>4, JobSteps

LEMMA WorkSteps ==
    ASSUME TypeInv, [Next]_vars
    PROVE  WorkOnlyLost \/ \E e \in pending : checkFolder(e)
<1>1. UNCHANGED work => WorkOnlyLost
  BY DEF WorkOnlyLost
<1>2. CASE interrupt \/ FilesDone \/ Restart
  BY <1>2 DEF interrupt, FilesDone, Restart, WorkOnlyLost
<1>3. CASE reload \/ removed \/ UNCHANGED vars
  BY <1>1, <1>3 DEF reload, removed, vars
<1>4. ASSUME NEW p \in Folders, \/ addRoot(p) \/ reloadRoot(p) \/ ToggleNoMedia(p) \/ ban(p)
                                \/ unban(p) \/ remove(p) \/ convertFolder(p)
      PROVE  WorkOnlyLost
  BY <1>1, <1>4 DEF addRoot, reloadRoot, ToggleNoMedia, Change, ban, unban, remove, convertFolder
<1>5. ASSUME NEW e \in pending, checkHidden(e) \/ checkRefused(e)
      PROVE  WorkOnlyLost
  BY <1>1, <1>5 DEF checkHidden, checkRefused
<1>6. ASSUME NEW f \in Files, removeFile(f) \/ onUpdatedFile(f) \/ onDiscoveredFile(f)
      PROVE  WorkOnlyLost
  <2>1. PICK D \in SUBSET Files : work \in WorkType(D)
    BY DEF TypeInv, WorkOK, WorkType
  <2>. QED  BY <1>6, <2>1 DEF removeFile, onUpdatedFile, onDiscoveredFile, WorkOnlyLost, WorkType
<1>7. ASSUME NEW f \in Files, Modify(f)
      PROVE  WorkOnlyLost
  BY <1>1, <1>7 DEF Modify, Change
<1>8. ASSUME NEW j \in jobs, RestoreEntities(j) \/ Extract(j) \/ updateFsInfo(j) \/ Ends(j)
      PROVE  WorkOnlyLost
  BY <1>1, <1>8 DEF RestoreEntities, Extract, updateFsInfo, Ends, Fail, Discard, saveParserStep
<1>9. ASSUME NEW j \in jobs, NEW type \in {"Audio", "Video"},
             createFileAndMedia(j, type) \/ refreshMedia(j, type)
      PROVE  WorkOnlyLost
  BY <1>1, <1>9 DEF createFileAndMedia, refreshMedia
<1>10. ASSUME NEW x \in Folders \cup Files, Vanish(x) \/ Appear(x)
       PROVE  WorkOnlyLost
  BY <1>1, <1>10 DEF Vanish, Appear, Change
<1>. QED
  BY <1>2, <1>3, <1>4, <1>5, <1>6, <1>7, <1>8, <1>9, <1>10 DEF Next, Ends

\* The version of a file only grows.
LEMMA MtimeGrows ==
    ASSUME TypeInv, [Next]_vars
    PROVE  \A f \in Files : mtime[f] <= mtime'[f]
<1>0. mtime \in [Files -> Int]
  BY DEF TypeInv, MtimeType, Versions
<1>1. UNCHANGED mtime \/ \E f \in Files : Modify(f)
  <2>1. CASE reload \/ removed \/ interrupt \/ FilesDone \/ Restart \/ UNCHANGED vars
    BY <2>1 DEF reload, Command, removed, interrupt, FilesDone, Restart, vars, disk
  <2>2. ASSUME NEW p \in Folders, \/ addRoot(p) \/ reloadRoot(p) \/ ToggleNoMedia(p) \/ ban(p)
                                  \/ unban(p) \/ remove(p) \/ convertFolder(p)
        PROVE  UNCHANGED mtime
    BY <2>2 DEF addRoot, reloadRoot, ToggleNoMedia, ban, unban, remove, convertFolder, Command, disk
  <2>3. ASSUME NEW e \in pending, checkHidden(e) \/ checkRefused(e) \/ checkFolder(e)
        PROVE  UNCHANGED mtime
    BY <2>3 DEF checkHidden, checkRefused, checkFolder, disk
  <2>4. ASSUME NEW f \in Files, removeFile(f) \/ onUpdatedFile(f) \/ onDiscoveredFile(f)
        PROVE  UNCHANGED mtime
    BY <2>4 DEF removeFile, onUpdatedFile, onDiscoveredFile, disk
  <2>5. ASSUME NEW j \in jobs, RestoreEntities(j) \/ Extract(j) \/ updateFsInfo(j) \/ Ends(j)
        PROVE  UNCHANGED mtime
    BY <2>5 DEF RestoreEntities, Extract, updateFsInfo, Ends, Fail, Discard, saveParserStep, disk
  <2>6. ASSUME NEW j \in jobs, NEW type \in {"Audio", "Video"},
               createFileAndMedia(j, type) \/ refreshMedia(j, type)
        PROVE  UNCHANGED mtime
    BY <2>6 DEF createFileAndMedia, refreshMedia, disk
  <2>7. ASSUME NEW x \in Folders \cup Files, Vanish(x) \/ Appear(x)
        PROVE  UNCHANGED mtime
    BY <2>7 DEF Vanish, Appear
  <2>. QED  BY <2>1, <2>2, <2>3, <2>4, <2>5, <2>6, <2>7 DEF Next, Ends
<1>2. CASE UNCHANGED mtime
  BY <1>0, <1>2
<1>3. ASSUME NEW f \in Files, Modify(f) PROVE \A g \in Files : mtime[g] <= mtime'[g]
  BY <1>0, <1>3 DEF Modify
<1>. QED  BY <1>1, <1>2, <1>3

-----------------------------------------------------------------------------
(* The dates.                                                              *)

LEMMA JobFields ==
    ASSUME TypeInv, NEW j \in jobs
    PROVE  /\ j \in Job /\ j.file \in Files /\ j.date \in Versions \cup {Unread}
           /\ j.content \in Versions \cup {Unread} /\ j.date \in Int /\ j.content \in Int
BY DEF TypeInv, JobsType, Job, Versions, Unread

\* The tasks of the next start: nothing of the files is read.
LEMMA RestartedJobs ==
    ASSUME TypeInv, Restart, NEW j \in jobs'
    PROVE  /\ j.date = Unread /\ j.content = Unread /\ j.phase = "todo" /\ ~j.stale
           /\ \/ /\ j.kind = "Creation" /\ j.file \in Files
                 /\ tasks[j.file] = CreationRow(j)
              \/ j.kind = "Refresh" /\ \E k \in jobs : Same(j, k) /\ j.again = k.again
<1>1. CASE \E f \in Files : /\ tasks[f] \in {"todo", "created"}
                            /\ j = [file |-> f, kind |-> "Creation", date |-> Unread,
                                    content |-> Unread, stale |-> FALSE,
                                    again |-> tasks[f] = "created", phase |-> "todo"]
  <2>1. PICK f \in Files : /\ tasks[f] \in {"todo", "created"}
                           /\ j = [file |-> f, kind |-> "Creation", date |-> Unread,
                                   content |-> Unread, stale |-> FALSE,
                                   again |-> tasks[f] = "created", phase |-> "todo"]
    BY <1>1
  <2>2. /\ j.date = Unread /\ j.content = Unread /\ j.phase = "todo" /\ ~j.stale
        /\ j.kind = "Creation" /\ j.file = f /\ j.again = (tasks[f] = "created")
    BY <2>1
  <2>. QED  BY <2>1, <2>2 DEF CreationRow
<1>2. CASE \E k \in jobs : /\ k.kind = "Refresh" /\ ~k.stale
                           /\ j = [k EXCEPT !.date = Unread, !.content = Unread, !.phase = "todo"]
  <2>1. PICK k \in jobs : /\ k.kind = "Refresh" /\ ~k.stale
                          /\ j = [k EXCEPT !.date = Unread, !.content = Unread, !.phase = "todo"]
    BY <1>2
  <2>2. /\ j.date = Unread /\ j.content = Unread /\ j.phase = "todo" /\ j.stale = k.stale
        /\ j.kind = k.kind /\ j.file = k.file /\ j.again = k.again
    BY <2>1, JobFields DEF Job
  <2>. QED  BY <2>1, <2>2 DEF Same
<1>. QED  BY <1>1, <1>2 DEF Restart

LEMMA ReadDatesStep ==
    ASSUME TypeInv, WorkDates, JobsDates, [Next]_vars
    PROVE  WorkDates' /\ JobsDates'
<1>0. mtime \in [Files -> Int] /\ \A f \in Files : mtime'[f] \in Int /\ mtime[f] <= mtime'[f]
  BY MtimeGrows, TypeStep DEF TypeInv, MtimeType, Versions
<1>1. \A j \in jobs : DatesWithin(j, mtime)
  BY DEF JobsDates
<1>2. /\ DOMAIN work.date \subseteq Files /\ \A f \in DOMAIN work.date : work.date[f] \in Int
      /\ \A f \in work.add \cup work.refresh : f \in DOMAIN work.date /\ work.date[f] <= mtime[f]
  BY DEF TypeInv, WorkOK, Versions, WorkDates
<1>3. WorkDates'
  <2>1. CASE work' = NoWork
    BY <2>1 DEF WorkDates, NoWork
  <2>2. CASE work'.date = work.date
    <3>1. ASSUME NEW f \in DOMAIN work.date PROVE work.date[f] <= mtime'[f]
      <4>1. f \in Files /\ work.date[f] \in Int /\ work.date[f] <= mtime[f]
        BY <1>2 DEF WorkDates
      <4>. QED  BY <4>1, <1>0
    <3>. QED  BY <2>2, <3>1 DEF WorkDates
  <2>3. ASSUME NEW e \in pending, checkFolder(e) PROVE WorkDates'
    BY <2>3, <1>0 DEF checkFolder, Listing, WorkDates, disk, Inside
  <2>. QED  BY <2>1, <2>2, <2>3, WorkSteps DEF WorkOnlyLost
<1>4. JobsDates'
  <2>0. ASSUME NEW j \in jobs, NEW k, k.file = j.file, k.date = j.date, k.content = j.content
        PROVE  DatesWithin(k, mtime')
    <3>1. /\ j.file \in Files /\ mtime[j.file] \in Int /\ mtime'[j.file] \in Int
          /\ j.date \in Int /\ j.content \in Int /\ mtime[j.file] <= mtime'[j.file]
      BY <1>0, JobFields
    <3>2. DatesWithin(j, mtime)
      BY <1>1
    <3>. QED  BY <2>0, <3>1, <3>2 DEF DatesWithin
  <2>1. CASE JobsOnlyLost
    BY <2>0, <2>1 DEF JobsOnlyLost, JobsDates
  <2>2. CASE Restart
    <3>1. ASSUME NEW j \in jobs' PROVE j.date = Unread /\ j.content = Unread
      BY <2>2, RestartedJobs
    <3>. QED  BY <3>1 DEF JobsDates, DatesWithin
  <2>5. ASSUME NEW k, DatesWithin(k, mtime'), jobs' \subseteq jobs \cup {k} PROVE JobsDates'
    BY <2>0, <2>5 DEF JobsDates
  <2>3. ASSUME NEW f \in work.add \cup work.refresh, NEW kind \in {"Creation", "Refresh"},
               jobs' \subseteq jobs \cup {NewJob(f, kind)}, UNCHANGED mtime
        PROVE  JobsDates'
    <3>. DEFINE n == NewJob(f, kind)
    <3>1. n.date = work.date[f] /\ n.content = Unread /\ n.file = f
      BY DEF NewJob
    <3>2. jobs' \subseteq jobs \cup {n}
      BY <2>3
    <3>. HIDE DEF n
    <3>3. DatesWithin(n, mtime')
      BY <1>2, <2>3, <3>1 DEF DatesWithin
    <3>. QED  BY <2>5, <3>2, <3>3
  <2>4. ASSUME NEW f \in Files, onUpdatedFile(f) \/ onDiscoveredFile(f) PROVE JobsDates'
    <3>1. CASE onUpdatedFile(f)
      <4>1. jobs' \subseteq jobs \cup {NewJob(f, "Refresh")} /\ f \in work.refresh /\ UNCHANGED mtime
        BY <3>1 DEF onUpdatedFile, disk
      <4>. QED  BY <4>1, <2>3
    <3>2. CASE onDiscoveredFile(f)
      <4>1. jobs' \subseteq jobs \cup {NewJob(f, "Creation")} /\ f \in work.add /\ UNCHANGED mtime
        BY <3>2 DEF onDiscoveredFile, disk
      <4>. QED  BY <4>1, <2>3
    <3>. QED  BY <2>4, <3>1, <3>2
  <2>6. ASSUME NEW j \in jobs, RestoreEntities(j) PROVE JobsDates'
    <3>1. mtime[j.file] \in Int /\ UNCHANGED mtime
      BY <1>0, <2>6, JobFields DEF RestoreEntities, disk
    <3>2. j.content = Unread
      BY <2>6 DEF RestoreEntities, TypeInv, JobsType, JobsRead
    <3>. DEFINE k == [j EXCEPT !.date = mtime[j.file]]
    <3>3. k.file = j.file /\ k.date = mtime[j.file] /\ k.content = Unread
      BY <3>2, JobFields DEF Job
    <3>4. jobs' \subseteq jobs \cup {k}
      BY <2>6 DEF RestoreEntities, Becomes
    <3>. HIDE DEF k
    <3>5. DatesWithin(k, mtime')
      BY <3>1, <3>3 DEF DatesWithin
    <3>. QED  BY <2>5, <3>4, <3>5
  <2>7. ASSUME NEW j \in jobs, Extract(j) PROVE JobsDates'
    <3>1. /\ mtime[j.file] \in Int /\ UNCHANGED mtime /\ j.date # Unread
          /\ j.date <= mtime[j.file]
      BY <1>0, <1>1, <2>7, JobFields DEF Extract, DatesWithin, disk
    <3>. DEFINE k == [j EXCEPT !.content = mtime[j.file]]
    <3>2. k.file = j.file /\ k.content = mtime[j.file] /\ k.date = j.date
      BY JobFields DEF Job
    <3>3. jobs' \subseteq jobs \cup {k}
      BY <2>7 DEF Extract, Becomes
    <3>. HIDE DEF k
    <3>4. DatesWithin(k, mtime')
      BY <3>1, <3>2 DEF DatesWithin
    <3>. QED  BY <2>5, <3>3, <3>4
  <2>. QED  BY <2>1, <2>2, <2>4, <2>6, <2>7, ReadSteps
<1>. QED  BY <1>3, <1>4

\* What a media is, and what it was before it went.
LEMMA MediaFields ==
    ASSUME MediaOK
    PROVE  \A f \in Files : /\ media[f].content \in Int /\ media[f].date \in Int
                            /\ media[f] # None => media[f] \in Media
BY BoundsAssumption DEF MediaOK, Media, None, Versions

\* No media is added, and what was extracted for those that stay is the same.
ContentKept ==
    \A f \in Files : media'[f] # None => media[f] # None /\ media'[f].content = media[f].content

LEMMA MediaDatesStep ==
    ASSUME TypeInv, WorkDates, JobsDates, MediaDates, TasksOK, [Next]_vars
    PROVE  MediaDates'
<1>0. \A f \in Files : /\ mtime[f] \in Nat /\ mtime'[f] \in Nat /\ mtime[f] <= mtime'[f]
                       /\ media[f].content \in Int
  BY MtimeGrows, TypeStep, MediaFields, BoundsAssumption DEF TypeInv, MtimeType, Versions
<1>1. \A f \in Files : media[f].content <= mtime[f]
  BY DEF MediaDates
<1>2. \A j \in jobs : /\ Advances(j, media) /\ j.file \in Files /\ j.date \in Int /\ j.content \in Int
                      /\ j.content # Unread => j.date <= j.content /\ j.content <= mtime[j.file]
                      /\ j.phase # "todo" => j.content # Unread
  BY JobFields DEF MediaDates, JobsDates, DatesWithin, TypeInv, JobsType, JobsRead
<1>3. ASSUME ContentKept PROVE \A f \in Files : media'[f].content <= mtime'[f]
  <2>1. None.content = -1
    BY DEF None
  <2>. QED  BY <1>0, <1>1, <1>3, <2>1 DEF ContentKept
<1>4. ASSUME ContentKept, NEW j, Advances(j, media), j.file \in Files
      PROVE Advances(j, media')
  BY <1>4 DEF ContentKept, Advances, Refreshes
<1>5. ASSUME ContentKept, NEW j, Advances(j, media'), jobs' \subseteq jobs \cup {j}
      PROVE  MediaDates'
  BY <1>2, <1>3, <1>4, <1>5 DEF MediaDates
<1>6. MediaOnlyLost => ContentKept
  BY DEF MediaOnlyLost, ContentKept
<1>7. ASSUME NEW j, j.content = Unread, j.phase = "todo" PROVE Advances(j, media')
  BY <1>7 DEF Advances
<1>8. CASE ContentKept /\ JobsKept
  <2>1. ASSUME NEW j \in jobs' PROVE Advances(j, media')
    <3>1. PICK k \in jobs : /\ j.file = k.file /\ j.kind = k.kind /\ j.date = k.date
                            /\ j.content = k.content /\ j.phase = k.phase
                            /\ ~j.stale => ~k.stale
      BY <1>8 DEF JobsKept
    <3>2. Advances(k, media')
      BY <1>2, <1>4, <1>8
    <3>. QED  BY <3>1, <3>2 DEF Advances, Refreshes
  <2>. QED  BY <1>3, <1>8, <2>1 DEF MediaDates
<1>9. CASE ContentKept /\ Restart
  BY <1>3, <1>7, <1>9, RestartedJobs DEF MediaDates
<1>10. ASSUME ContentKept, NEW f \in Files, onUpdatedFile(f) \/ onDiscoveredFile(f)
       PROVE  MediaDates'
  <2>1. PICK kind \in {"Creation", "Refresh"} : jobs' \subseteq jobs \cup {NewJob(f, kind)}
    BY <1>10 DEF onUpdatedFile, onDiscoveredFile
  <2>. DEFINE n == NewJob(f, kind)
  <2>2. n.content = Unread /\ n.phase = "todo" /\ jobs' \subseteq jobs \cup {n}
    BY <2>1 DEF NewJob
  <2>. HIDE DEF n
  <2>. QED  BY <1>5, <1>7, <1>10, <2>2
<1>11. ASSUME ContentKept, NEW j \in jobs, RestoreEntities(j) PROVE MediaDates'
  <2>. DEFINE k == [j EXCEPT !.date = mtime[j.file]]
  <2>1. j.content = Unread /\ j.phase = "todo"
    BY <1>2, <1>11 DEF RestoreEntities, TypeInv, JobsType, JobsRead
  <2>2. k.content = Unread /\ k.phase = "todo"
    BY <2>1, JobFields DEF Job
  <2>3. jobs' \subseteq jobs \cup {k}
    BY <1>11 DEF RestoreEntities, Becomes
  <2>. HIDE DEF k
  <2>. QED  BY <1>5, <1>7, <1>11, <2>2, <2>3
<1>12. ASSUME ContentKept, NEW j \in jobs, Extract(j) PROVE MediaDates'
  <2>. DEFINE k == [j EXCEPT !.content = mtime[j.file]]
  <2>1. j.content = Unread /\ j.phase = "todo"
    BY <1>2, <1>12 DEF Extract, JobsRead
  <2>2. k.content = mtime[j.file] /\ k.phase = "todo" /\ k.file = j.file
    BY <2>1, JobFields DEF Job
  <2>3. jobs' \subseteq jobs \cup {k}
    BY <1>12 DEF Extract, Becomes
  <2>. HIDE DEF k
  <2>4. Advances(k, media)
    BY <1>1, <1>2, <2>2 DEF Advances
  <2>. QED  BY <1>2, <1>4, <1>5, <1>12, <2>2, <2>3, <2>4
<1>13. ASSUME NEW j \in jobs, updateFsInfo(j) PROVE MediaDates'
  <2>1. ContentKept
    BY <1>2, <1>13 DEF updateFsInfo, Writes, ContentKept, TypeInv, MediaOK, Media
  <2>. DEFINE k == [j EXCEPT !.phase = "dated"]
  <2>2. Moved(j, k, "dated")
    BY <1>13, PhaseMoves DEF updateFsInfo
  <2>. HIDE DEF k
  <2>3. Advances(k, media) /\ k.file \in Files /\ jobs' \subseteq jobs \cup {k}
    BY <1>2, <2>2 DEF Moved, Advances, Refreshes
  <2>. QED  BY <1>4, <1>5, <2>1, <2>3
<1>14. ASSUME NEW j \in jobs, NEW k, NEW m, NEW x, Moved(j, k, x),
              media' = [media EXCEPT ![j.file] = m], m.content = j.content, j.content # Unread,
              Advances(k, media'),
              \A i \in jobs : i # j /\ i.file = j.file => ~Refreshes(i, media')
       PROVE  MediaDates'
  <2>1. ASSUME NEW f \in Files PROVE media'[f].content <= mtime'[f]
    <3>1. CASE f = j.file
      BY <1>0, <1>2, <1>14, <3>1 DEF TypeInv, MediaOK
    <3>2. CASE f # j.file
      BY <1>0, <1>1, <1>14, <3>2 DEF TypeInv, MediaOK
    <3>. QED  BY <3>1, <3>2
  <2>2. ASSUME NEW i \in jobs, i # j PROVE Advances(i, media')
    <3>1. CASE i.file = j.file
      BY <1>14, <2>2, <3>1 DEF Advances
    <3>2. CASE i.file # j.file
      BY <1>2, <1>14, <3>2 DEF Advances, Refreshes, TypeInv, MediaOK
    <3>. QED  BY <3>1, <3>2
  <2>3. jobs' = (jobs \ {j}) \cup {k}
    BY <1>14 DEF Moved
  <2>. QED  BY <1>14, <2>1, <2>2, <2>3 DEF MediaDates
<1>15. ASSUME NEW j \in jobs, NEW type \in {"Audio", "Video"}, createFileAndMedia(j, type)
       PROVE  MediaDates'
  <2>. DEFINE k == [j EXCEPT !.phase = "dated"]
              m == Extracted(j, type)
  <2>1. Moved(j, k, "dated") /\ media' = [media EXCEPT ![j.file] = m] /\ m.content = j.content
    BY <1>15, PhaseMoves DEF createFileAndMedia, Extracted
  <2>. HIDE DEF k, m
  <2>2. /\ j.kind = "Creation" /\ j.content # Unread
        /\ tasks[j.file] = "todo"
    BY <1>15 DEF createFileAndMedia, TasksOK, Follows, CreationRow
  <2>3. Advances(k, media')
    BY <2>1, <2>2 DEF Moved, Advances, Refreshes
  <2>4. ASSUME NEW i \in jobs, i.file = j.file PROVE ~Refreshes(i, media')
    BY <2>2, <2>4 DEF TasksOK, Follows, Refreshes
  <2>. QED  BY <1>14, <2>1, <2>2, <2>3, <2>4
<1>16. ASSUME NEW j \in jobs, NEW type \in {"Audio", "Video"}, refreshMedia(j, type)
       PROVE  MediaDates'
  <2>. DEFINE k == [j EXCEPT !.phase = "stored"]
  <2>1. Moved(j, k, "stored") /\ j.kind = "Refresh" /\ j.content # Unread
    BY <1>16, PhaseMoves DEF refreshMedia
  <2>. HIDE DEF k
  <2>2. CASE ~Writes(j)
    <3>1. UNCHANGED media
      BY <1>16, <2>2 DEF refreshMedia
    <3>2. Advances(k, media')
      BY <2>1, <2>2, <3>1 DEF Moved, Advances, Refreshes, Writes
    <3>3. ContentKept /\ jobs' \subseteq jobs \cup {k}
      BY <2>1, <3>1 DEF ContentKept, Moved
    <3>. QED  BY <1>5, <3>2, <3>3
  <2>3. CASE Writes(j)
    <3>. DEFINE m == [[media[j.file] EXCEPT !.content = j.content] EXCEPT !.type = type]
    <3>1. media' = [media EXCEPT ![j.file] = m]
      BY <1>16, <2>3 DEF refreshMedia
    <3>2. m.content = j.content
      BY <1>2, <2>3, MediaFields DEF Writes, Media, TypeInv
    <3>. HIDE DEF m
    <3>3. Advances(k, media')
      BY <1>2, <2>1, <3>1, <3>2 DEF Moved, Advances, Refreshes, TypeInv, MediaOK
    <3>4. ASSUME NEW i \in jobs, i # j, i.file = j.file PROVE ~Refreshes(i, media')
      BY <2>1, <2>3, <3>4 DEF TasksOK, Same, Refreshes, Writes
    <3>. QED  BY <1>14, <2>1, <3>1, <3>2, <3>3, <3>4
  <2>. QED  BY <2>2, <2>3
<1>17. CASE MediaOnlyLost
  BY <1>6, <1>8, <1>9, <1>10, <1>11, <1>12, <1>13, <1>15, <1>16, <1>17, JobSteps
<1>. QED  BY <1>13, <1>15, <1>16, <1>17, MediaSteps

\* A date gets ahead of what was extracted only when a creation is run again.
LEMMA NoUpdateStep ==
    ASSUME TypeInv, DatesOK, [Next]_vars, NEW f \in Files,
           media[f].content >= media[f].date, media'[f].content < media'[f].date
    PROVE  \E j \in jobs : j.file = f /\ j.again
<1>0. \A j \in jobs : /\ Advances(j, media) /\ j.file \in Files /\ j.date \in Int /\ j.content \in Int
                      /\ j.content # Unread => j.date <= j.content
                      /\ j.phase = "stored" => j.kind = "Refresh"
  BY JobFields DEF DatesOK, MediaDates, JobsDates, DatesWithin, TypeInv, JobsType, JobsRead
<1>6. media' # media
  BY MediaFields DEF TypeInv
<1>1. CASE MediaOnlyLost
  <2>1. ~(None.content < None.date)
    BY DEF None
  <2>. QED  BY <1>1, <2>1, MediaFields DEF MediaOnlyLost, TypeInv
<1>2. ASSUME NEW j \in jobs, updateFsInfo(j), ~j.again PROVE FALSE
  <2>0. Writes(j) /\ media' = [media EXCEPT ![j.file].date = j.date]
    BY <1>2, <1>6 DEF updateFsInfo
  <2>1. j.file = f /\ Writes(j) /\ media' = [media EXCEPT ![f].date = j.date]
    <3>1. j.file # f => media'[f] = media[f]
      BY <2>0 DEF TypeInv, MediaOK
    <3>2. media[f].content \in Int /\ media[f].date \in Int
      BY MediaFields DEF TypeInv
    <3>3. j.file = f
      BY <3>1, <3>2
    <3>. QED  BY <2>0, <3>3
  <2>2. media'[f].date = j.date /\ media'[f].content = media[f].content
    BY <2>1, MediaFields DEF TypeInv, MediaOK, Media, Writes
  <2>3. j.phase = "stored" /\ j.kind = "Refresh"
    BY <1>0, <1>2 DEF updateFsInfo
  <2>4. j.date <= media[f].content
    BY <1>0, <2>1, <2>3 DEF Advances, Refreshes, Writes
  <2>. QED  BY <1>0, <2>2, <2>4, MediaFields DEF TypeInv
<1>3. ASSUME NEW j \in jobs, NEW type \in {"Audio", "Video"}, createFileAndMedia(j, type)
      PROVE  FALSE
  <2>1. media' = [media EXCEPT ![j.file] = Extracted(j, type)] /\ j.content # Unread
    BY <1>3 DEF createFileAndMedia
  <2>2. Extracted(j, type).content = j.content /\ Extracted(j, type).date = j.date
    BY DEF Extracted
  <2>. HIDE DEF Extracted
  <2>. QED  BY <1>0, <2>1, <2>2, MediaFields DEF TypeInv, MediaOK
<1>4. ASSUME NEW j \in jobs, NEW type \in {"Audio", "Video"}, refreshMedia(j, type)
      PROVE  FALSE
  <2>1. Writes(j) /\ j.kind = "Refresh" /\ j.content # Unread
    BY <1>4, <1>6 DEF refreshMedia
  <2>. DEFINE m == [[media[j.file] EXCEPT !.content = j.content] EXCEPT !.type = type]
  <2>2. media' = [media EXCEPT ![j.file] = m]
    BY <1>4, <2>1 DEF refreshMedia
  <2>3. m.content = j.content /\ m.date = media[j.file].date
    BY <1>0, <2>1, MediaFields DEF Writes, Media, TypeInv
  <2>. HIDE DEF m
  <2>4. media[j.file].content <= j.content
    BY <1>0, <2>1 DEF Advances, Refreshes, Writes
  <2>5. f = j.file
    BY <2>2, MediaFields DEF TypeInv, MediaOK
  <2>6. media'[f].content = j.content /\ media'[f].date = media[f].date
    BY <2>2, <2>3, <2>5 DEF TypeInv, MediaOK
  <2>. QED  BY <1>0, <2>4, <2>5, <2>6, MediaFields DEF TypeInv
<1>5. ASSUME NEW j \in jobs, updateFsInfo(j) PROVE j.file = f
  BY <1>5, MediaFields DEF updateFsInfo, TypeInv, MediaOK
<1>. QED  BY <1>1, <1>2, <1>3, <1>4, <1>5, MediaSteps

-----------------------------------------------------------------------------
(* The rows of the tasks.                                                  *)

\* A step that only loses jobs.
LEMMA TasksKept ==
    ASSUME TypeInv, TypeInv', TasksOK, JobsKept, MediaOnlyLost,
           \A f \in Files : media'[f] # None => tasks'[f] = tasks[f] \/ HasFile(f)',
           \A j \in jobs' : ~j.stale =>
               \/ tasks'[j.file] = tasks[j.file]
               \/ j.kind # "Creation" /\ HasFile(j.file)'
    PROVE  TasksOK'
<1>1. \A f \in Files : media'[f] # None => HasFile(f)'
  BY DEF TasksOK, MediaOnlyLost, HasFile
<1>2. ASSUME NEW j \in jobs', ~j.stale
      PROVE  \E k \in jobs : /\ Same(j, k) /\ j.date = k.date /\ j.content = k.content
                             /\ j.again = k.again /\ j.phase = k.phase
  BY <1>2 DEF JobsKept, Same
<1>3. ASSUME NEW j \in jobs' PROVE Follows(j, tasks')
  <2>1. CASE j.stale
    BY <2>1 DEF Follows
  <2>2. CASE ~j.stale
    <3>1. PICK k \in jobs : Same(j, k) /\ j.again = k.again /\ j.phase = k.phase
      BY <1>2, <2>2
    <3>2. Follows(k, tasks)
      BY DEF TasksOK
    <3>. QED  BY <2>2, <3>1, <3>2 DEF Follows, Same, CreationRow, HasFile
  <2>. QED  BY <2>1, <2>2
<1>4. ASSUME NEW i \in jobs', NEW j \in jobs', Same(i, j) PROVE i = j
  <2>1. PICK k \in jobs : /\ Same(i, k) /\ i.date = k.date /\ i.content = k.content
                          /\ i.again = k.again /\ i.phase = k.phase
    BY <1>2, <1>4 DEF Same
  <2>2. PICK l \in jobs : /\ Same(j, l) /\ j.date = l.date /\ j.content = l.content
                          /\ j.again = l.again /\ j.phase = l.phase
    BY <1>2, <1>4 DEF Same
  <2>3. k = l
    BY <1>4, <2>1, <2>2 DEF Same, TasksOK
  <2>4. i \in Job /\ j \in Job
    BY DEF TypeInv, JobsType
  <2>. QED  BY <1>4, <2>1, <2>2, <2>3, <2>4 DEF Same, Job
<1>. QED  BY <1>1, <1>3, <1>4 DEF TasksOK

\* A job that becomes another one, or a new one.
LEMMA TasksMoved ==
    ASSUME TasksOK, NEW J, J \subseteq jobs, NEW k, jobs' = J \cup {k},
           \A i \in J : ~Same(i, k), Follows(k, tasks'),
           \A i \in J : Follows(i, tasks'),
           \A f \in Files : media'[f] # None => HasFile(f)'
    PROVE  TasksOK'
<1>1. \A j \in jobs' : Follows(j, tasks')
  OBVIOUS
<1>2. ASSUME NEW i \in jobs', NEW j \in jobs', Same(i, j) PROVE i = j
  <2>1. Same(j, i)
    BY <1>2 DEF Same
  <2>. QED  BY <1>2, <2>1 DEF TasksOK
<1>. QED  BY <1>1, <1>2 DEF TasksOK

LEMMA TasksStep ==
    ASSUME TypeInv, TasksOK, [Next]_vars
    PROVE  TasksOK'
<1>0. TypeInv' /\ JobsType
  BY TypeStep DEF TypeInv
<1>1. \A f \in Files : media[f] # None => HasFile(f)
  BY DEF TasksOK
<1>2. \A j \in jobs : Follows(j, tasks) /\ j.file \in Files /\ j \in Job
  BY JobFields DEF TasksOK
<1>3. \A i, j \in jobs : Same(i, j) => i = j
  BY DEF TasksOK
<1>4. ASSUME JobsKept, UNCHANGED tasks, MediaOnlyLost PROVE TasksOK'
  BY <1>0, <1>4, TasksKept
<1>5. ASSUME UNCHANGED <<media, tasks, jobs>> PROVE TasksOK'
  BY <1>5 DEF TasksOK, HasFile
<1>6. ASSUME NEW F, jobs' = Orphan(F), MediaOnlyLost,
             \A f \in Files : f \in F => media'[f] = None,
             \A f \in Files : f \notin F => tasks'[f] = tasks[f]
      PROVE  TasksOK'
  <2>1. JobsKept
    BY <1>0, <1>6, OrphanLoses
  <2>2. \A j \in jobs' : ~j.stale => j.file \notin F /\ j.file \in Files
    BY <1>2, <1>6 DEF Orphan, Job
  <2>. QED  BY <1>0, <1>6, <2>1, <2>2, TasksKept
<1>7. ASSUME NEW G, LoseContent(G) PROVE TasksOK'
  <2>1. /\ jobs' = Orphan(Inside(G)) /\ MediaOnlyLost
        /\ \A f \in Files : f \in Inside(G) => media'[f] = None
        /\ \A f \in Files : f \notin Inside(G) => tasks'[f] = tasks[f]
    BY <1>7, LoseContentLoses DEF LoseContent
  <2>. QED  BY <1>6, <2>1
<1>8. ASSUME NEW f \in Files, removeFile(f) PROVE TasksOK'
  <2>1. /\ jobs' = Orphan({f}) /\ media' = [media EXCEPT ![f] = None]
        /\ tasks' = [tasks EXCEPT ![f] = "none"]
    BY <1>8 DEF removeFile
  <2>2. MediaOnlyLost
    BY <2>1 DEF MediaOnlyLost
  <2>. QED  BY <1>6, <2>1, <2>2 DEF TypeInv, MediaOK, TasksType
<1>9. ASSUME NEW f \in Files, onUpdatedFile(f) PROVE TasksOK'
  <2>1. CASE UNCHANGED jobs
    BY <1>5, <1>9, <2>1 DEF onUpdatedFile, db
  <2>2. CASE jobs' # jobs
    <3>. DEFINE n == NewJob(f, "Refresh")
    <3>1. n.file = f /\ n.kind = "Refresh" /\ ~n.stale
      BY DEF NewJob
    <3>2. /\ jobs' = jobs \cup {n} /\ UNCHANGED <<media, tasks>>
          /\ ~IsRefreshing(f) /\ media[f] # None
      BY <1>9, <2>2 DEF onUpdatedFile, db
    <3>. HIDE DEF n
    <3>3. \A i \in jobs : ~Same(i, n)
      BY <3>1, <3>2 DEF Same, IsRefreshing
    <3>4. Follows(n, tasks')
      BY <1>1, <3>1, <3>2 DEF Follows, HasFile
    <3>5. \A i \in jobs : Follows(i, tasks')
      BY <1>2, <3>2
    <3>6. \A g \in Files : media'[g] # None => HasFile(g)'
      BY <1>1, <3>2 DEF HasFile
    <3>. QED  BY <3>2, <3>3, <3>4, <3>5, <3>6, TasksMoved
  <2>. QED  BY <2>1, <2>2
<1>10. ASSUME NEW f \in Files, onDiscoveredFile(f) PROVE TasksOK'
  <2>1. CASE tasks[f] # "none"
    BY <1>5, <1>10, <2>1 DEF onDiscoveredFile
  <2>2. CASE tasks[f] = "none"
    <3>. DEFINE n == NewJob(f, "Creation")
    <3>1. n.file = f /\ n.kind = "Creation" /\ ~n.stale /\ ~n.again /\ n.phase = "todo"
      BY DEF NewJob
    <3>2. /\ jobs' = jobs \cup {n} /\ UNCHANGED media
          /\ tasks' = [tasks EXCEPT ![f] = "todo"]
      BY <1>10, <2>2 DEF onDiscoveredFile
    <3>. HIDE DEF n
    <3>3. ASSUME NEW i \in jobs, ~i.stale PROVE i.file # f
      BY <1>2, <2>2, <3>3 DEF Follows, CreationRow
    <3>4. \A i \in jobs : ~Same(i, n)
      BY <3>1, <3>3 DEF Same
    <3>5. Follows(n, tasks')
      BY <3>1, <3>2 DEF Follows, CreationRow, TypeInv, TasksType
    <3>6. \A i \in jobs : Follows(i, tasks')
      BY <1>2, <3>2, <3>3 DEF Follows, TypeInv, TasksType
    <3>7. \A g \in Files : media'[g] # None => HasFile(g)'
      BY <1>1, <2>2, <3>2 DEF HasFile, TypeInv, TasksType
    <3>. QED  BY <3>2, <3>4, <3>5, <3>6, <3>7, TasksMoved
  <2>. QED  BY <2>1, <2>2
<1>11. ASSUME NEW j \in jobs, NEW k, jobs' = (jobs \ {j}) \cup {k}, Follows(k, tasks'),
              k.file = j.file, k.kind = j.kind, k.stale = j.stale,
              \A i \in jobs \ {j} : Follows(i, tasks'),
              \A f \in Files : media'[f] # None => HasFile(f)'
       PROVE  TasksOK'
  <2>1. \A i \in jobs \ {j} : ~Same(i, k)
    BY <1>3, <1>11 DEF Same
  <2>. QED  BY <1>11, <2>1, TasksMoved
<1>12. ASSUME NEW j \in jobs, RestoreEntities(j) PROVE TasksOK'
  <2>0. UNCHANGED media /\ MediaOnlyLost
    BY <1>12 DEF RestoreEntities, MediaOnlyLost
  <2>1. CASE j.file \in onDisk
    <3>. DEFINE k == [j EXCEPT !.date = mtime[j.file]]
    <3>1. /\ k.file = j.file /\ k.kind = j.kind /\ k.stale = j.stale
          /\ k.again = j.again /\ k.phase = j.phase
      BY <1>2 DEF Job
    <3>2. jobs' = (jobs \ {j}) \cup {k} /\ UNCHANGED tasks
      BY <1>12, <2>1 DEF RestoreEntities, Becomes
    <3>. HIDE DEF k
    <3>3. Follows(k, tasks')
      BY <1>2, <3>1, <3>2 DEF Follows, CreationRow
    <3>. QED  BY <1>1, <1>2, <1>11, <2>0, <3>1, <3>2, <3>3 DEF HasFile
  <2>2. CASE j.file \notin onDisk
    <3>1. jobs' = jobs \ {j} /\ JobsKept
      BY <1>12, <2>2 DEF RestoreEntities, JobsKept
    <3>2. CASE UNCHANGED tasks
      BY <1>4, <2>0, <3>1, <3>2
    <3>3. CASE tasks' # tasks
      <4>1. /\ j.kind = "Creation" /\ ~j.stale /\ ~j.again
            /\ tasks' = [tasks EXCEPT ![j.file] = "none"]
        BY <1>12, <2>2, <3>3 DEF RestoreEntities
      <4>2. j.phase = "todo"
        BY <1>0, <1>12 DEF RestoreEntities, JobsType, JobsRead
      <4>3. tasks[j.file] = "todo"
        BY <1>2, <4>1, <4>2 DEF Follows, CreationRow
      <4>4. media[j.file] = None
        BY <1>1, <1>2, <4>3 DEF HasFile
      <4>5. ASSUME NEW i \in jobs', ~i.stale PROVE i.file # j.file
        <5>1. i.kind = "Creation" => ~Same(i, j)
          BY <1>3, <3>1, <4>5
        <5>. QED  BY <1>2, <3>1, <4>1, <4>3, <4>5, <5>1 DEF Same, Follows, Job
      <4>6. \A f \in Files : media'[f] # None => tasks'[f] = tasks[f]
        BY <2>0, <4>1, <4>4 DEF TypeInv, TasksType
      <4>7. \A i \in jobs' : ~i.stale => tasks'[i.file] = tasks[i.file]
        BY <1>2, <3>1, <4>1, <4>5 DEF TypeInv, TasksType
      <4>. QED  BY <1>0, <2>0, <3>1, <4>6, <4>7, TasksKept
    <3>. QED  BY <3>2, <3>3
  <2>. QED  BY <2>1, <2>2
<1>13. ASSUME NEW j \in jobs, Extract(j) PROVE TasksOK'
  <2>. DEFINE k == [j EXCEPT !.content = mtime[j.file]]
  <2>1. /\ k.file = j.file /\ k.kind = j.kind /\ k.stale = j.stale
        /\ k.again = j.again /\ k.phase = j.phase
    BY <1>2 DEF Job
  <2>2. jobs' = (jobs \ {j}) \cup {k} /\ UNCHANGED <<media, tasks>>
    BY <1>13 DEF Extract, Becomes, db
  <2>. HIDE DEF k
  <2>3. Follows(k, tasks')
    BY <1>2, <2>1, <2>2 DEF Follows, CreationRow
  <2>. QED  BY <1>1, <1>2, <1>11, <2>1, <2>2, <2>3 DEF HasFile
<1>14. ASSUME NEW j \in jobs, NEW k, NEW x \in {"stored", "dated"}, Moved(j, k, x), UNCHANGED tasks,
              j.kind = "Creation" /\ ~j.stale => j.again \/ j.phase # "todo",
              \A f \in Files : media'[f] # None => media[f] # None
       PROVE  TasksOK'
  <2>1. Follows(k, tasks')
    BY <1>2, <1>14 DEF Follows, CreationRow, Moved
  <2>. QED  BY <1>1, <1>2, <1>11, <1>14, <2>1 DEF HasFile, Moved
<1>15. ASSUME NEW j \in jobs, updateFsInfo(j) PROVE TasksOK'
  <2>1. Moved(j, [j EXCEPT !.phase = "dated"], "dated") /\ UNCHANGED tasks
    BY <1>15, PhaseMoves DEF updateFsInfo
  <2>2. j.again \/ j.phase # "todo"
    BY <1>15 DEF updateFsInfo
  <2>3. \A f \in Files : media'[f] # None => media[f] # None
    BY <1>15 DEF updateFsInfo, Writes, TypeInv, MediaOK
  <2>. QED  BY <1>14, <2>1, <2>2, <2>3
<1>16. ASSUME NEW j \in jobs, NEW type \in {"Audio", "Video"}, refreshMedia(j, type)
       PROVE  TasksOK'
  <2>1. /\ Moved(j, [j EXCEPT !.phase = "stored"], "stored") /\ UNCHANGED tasks
        /\ j.kind = "Refresh"
    BY <1>16, PhaseMoves DEF refreshMedia
  <2>2. \A f \in Files : media'[f] # None => media[f] # None
    BY <1>2, <1>16 DEF refreshMedia, Writes, TypeInv, MediaOK
  <2>. QED  BY <1>14, <2>1, <2>2
<1>17. ASSUME NEW j \in jobs, NEW type \in {"Audio", "Video"}, createFileAndMedia(j, type)
       PROVE  TasksOK'
  <2>. DEFINE k == [j EXCEPT !.phase = "dated"]
  <2>1. Moved(j, k, "dated") /\ tasks' = [tasks EXCEPT ![j.file] = "created"]
    BY <1>17, PhaseMoves DEF createFileAndMedia
  <2>. HIDE DEF k
  <2>2. j.kind = "Creation" /\ ~j.stale /\ tasks[j.file] = "todo"
    BY <1>2, <1>17 DEF createFileAndMedia, Follows, CreationRow
  <2>3. Follows(k, tasks')
    BY <1>2, <2>1, <2>2 DEF Moved, Follows, CreationRow, TypeInv, TasksType
  <2>4. ASSUME NEW i \in jobs \ {j} PROVE Follows(i, tasks')
    <3>1. CASE i.file = j.file
      BY <1>2, <1>3, <2>2, <2>4, <3>1 DEF Follows, Same, Job
    <3>2. CASE i.file # j.file
      BY <1>2, <2>1, <3>2 DEF Follows, TypeInv, TasksType
    <3>. QED  BY <3>1, <3>2
  <2>5. \A f \in Files : media'[f] # None => HasFile(f)'
    BY <1>1, <1>2, <1>17, <2>1 DEF createFileAndMedia, HasFile, TypeInv, TasksType, MediaOK
  <2>. QED  BY <1>11, <2>1, <2>3, <2>4, <2>5 DEF Moved
<1>18. ASSUME NEW j \in jobs, Ends(j) PROVE TasksOK'
  <2>1. jobs' = jobs \ {j} /\ JobsKept /\ MediaOnlyLost /\ UNCHANGED media
    BY <1>18 DEF Ends, Fail, Discard, saveParserStep, JobsKept, MediaOnlyLost, db
  <2>2. CASE UNCHANGED tasks
    BY <1>4, <2>1, <2>2
  <2>3. CASE tasks' # tasks /\ Discard(j)
    <3>1. j.kind = "Creation" /\ j.phase = "todo" /\ ~j.stale /\ ~j.again /\ media[j.file] # None
      BY <2>3 DEF Discard
    <3>. QED  BY <1>1, <1>2, <3>1 DEF Follows, CreationRow, HasFile
  <2>4. CASE tasks' # tasks /\ saveParserStep(j)
    <3>1. /\ tasks' = [tasks EXCEPT ![j.file] = "done"] /\ j.kind = "Creation" /\ ~j.stale
      BY <2>4 DEF saveParserStep
    <3>2. \A f \in Files : tasks'[f] = tasks[f] \/ HasFile(f)'
      BY <3>1 DEF HasFile, TypeInv, TasksType
    <3>3. ASSUME NEW i \in jobs', ~i.stale
          PROVE  tasks'[i.file] = tasks[i.file] \/ (i.kind # "Creation" /\ HasFile(i.file)')
      <4>1. CASE i.file = j.file
        BY <1>2, <1>3, <2>1, <3>1, <3>2, <3>3, <4>1 DEF Same
      <4>2. CASE i.file # j.file
        BY <1>2, <2>1, <3>1, <4>2 DEF TypeInv, TasksType
      <4>. QED  BY <4>1, <4>2
    <3>. QED  BY <1>0, <2>1, <3>2, <3>3, TasksKept
  <2>. QED  BY <1>18, <2>2, <2>3, <2>4 DEF Ends, Fail, db
<1>19. CASE Restart
  <2>1. UNCHANGED <<media, tasks>>
    BY <1>19 DEF Restart, db
  <2>2. ASSUME NEW j \in jobs' PROVE Follows(j, tasks')
    BY <1>2, <1>19, <2>1, RestartedJobs DEF Follows, Same
  <2>3. ASSUME NEW i \in jobs', NEW j \in jobs', Same(i, j) PROVE i = j
    <3>1. /\ i \in Job /\ j \in Job /\ i.date = j.date /\ i.content = j.content
          /\ i.phase = "todo" /\ j.phase = "todo"
      BY <1>0, <1>19, RestartedJobs DEF TypeInv, JobsType
    <3>2. i.again = j.again
      <4>1. CASE i.kind = "Creation"
        BY <1>19, <2>3, <3>1, <4>1, RestartedJobs DEF Same, CreationRow, Job
      <4>2. CASE i.kind = "Refresh"
        <5>1. PICK k \in jobs : Same(i, k) /\ i.again = k.again
          BY <1>19, <4>2, RestartedJobs
        <5>2. PICK l \in jobs : Same(j, l) /\ j.again = l.again
          BY <1>19, <2>3, <4>2, RestartedJobs DEF Same
        <5>. QED  BY <1>3, <2>3, <5>1, <5>2 DEF Same
      <4>. QED  BY <3>1, <4>1, <4>2 DEF Job
    <3>. QED  BY <2>3, <3>1, <3>2 DEF Same, Job
  <2>. QED  BY <1>1, <2>1, <2>2, <2>3 DEF TasksOK, HasFile
<1>20. ASSUME NEW p \in Folders, convertFolder(p) PROVE TasksOK'
  <2>1. JobsKept /\ UNCHANGED tasks /\ MediaOnlyLost
    BY <1>20 DEF convertFolder, ConvertToExternal, MediaOnlyLost, JobsKept
  <2>. QED  BY <1>4, <2>1
<1>21. CASE removed
  BY <1>5, <1>7, <1>21 DEF removed, Destroy
<1>22. ASSUME NEW p \in Folders, ban(p) \/ unban(p) PROVE TasksOK'
  BY <1>7, <1>22 DEF ban, unban, Destroy
<1>23. ASSUME NEW p \in Folders, addRoot(p) \/ reloadRoot(p) \/ remove(p) \/ ToggleNoMedia(p)
       PROVE  TasksOK'
  BY <1>5, <1>23 DEF addRoot, reloadRoot, remove, ToggleNoMedia, Change, db
<1>24. CASE reload \/ interrupt \/ FilesDone \/ UNCHANGED vars
  BY <1>5, <1>24 DEF reload, interrupt, FilesDone, vars, db
<1>25. ASSUME NEW e \in pending, checkHidden(e) \/ checkRefused(e) \/ checkFolder(e)
       PROVE  TasksOK'
  BY <1>5, <1>7, <1>25 DEF checkHidden, checkRefused, checkFolder, Destroy, db
<1>26. ASSUME NEW f \in Files, Modify(f) PROVE TasksOK'
  BY <1>5, <1>26 DEF Modify, Change, db
<1>27. ASSUME NEW x \in Folders \cup Files, Vanish(x) \/ Appear(x) PROVE TasksOK'
  BY <1>5, <1>27 DEF Vanish, Appear, Change, db
<1>. QED
  BY <1>8, <1>9, <1>10, <1>12, <1>13, <1>15, <1>16, <1>17, <1>18, <1>19, <1>20, <1>21, <1>22,
     <1>23, <1>24, <1>25, <1>26, <1>27 DEF Next, Ends

-----------------------------------------------------------------------------
(* The removal of a folder.                                                *)

\* What is cascaded to depends on the rows only.
LEMMA CascadeSame == UNCHANGED row => \A P : Cascade(P)' = Cascade(P)
BY DEF Cascade

\* A step that leaves the rows and the scan alone.
LEMMA RemovalKept ==
    ASSUME RemovalOK, UNCHANGED <<row, pending, work, removal>>, clean' => clean,
           \A f \in Files : media'[f] # None => media[f] # None
    PROVE  RemovalOK'
BY DEF RemovalOK, Removing, Scanning, Cascade, Inside

LEMMA RemovalStep ==
    ASSUME TypeInv, RemovalOK, [Next]_vars
    PROVE  RemovalOK'
<1>0. removal.toConvert \subseteq Folders /\ FolderOf \in [Files -> Folders]
  BY TreeAssumption DEF TypeInv, RemovalType
<1>1. MediaOnlyLost => \A f \in Files : media'[f] # None => media[f] # None
  BY DEF MediaOnlyLost
<1>2. ASSUME UNCHANGED removal, ~Removing PROVE RemovalOK'
  BY <1>2 DEF RemovalOK, Removing
<1>3. Removing => pending = {} /\ work = NoWork
  BY DEF RemovalOK, Scanning
<1>4. CASE interrupt \/ FilesDone
  BY <1>2, <1>3, <1>4 DEF interrupt, FilesDone, Scanning
<1>5. CASE Restart \/ removed
  BY <1>5 DEF Restart, removed, RemovalOK, Removing
<1>6. ASSUME NEW p \in Folders, remove(p) PROVE RemovalOK'
  <2>1. /\ removal' = [folder |-> p, toConvert |-> Cascade({p}), late |-> {}]
        /\ UNCHANGED <<row, pending, work, media>> /\ clean' = FALSE /\ row[p] \in Known
        /\ ~Scanning
    BY <1>6 DEF remove, Crawled, Command, db
  <2>2. removal'.folder = p /\ removal'.toConvert = Cascade({p})
    BY <2>1
  <2>3. ~Scanning' /\ ~clean' /\ removal'.folder \in Folders /\ row'[removal'.folder] \in Known
    BY <2>1, <2>2 DEF Scanning
  <2>0. UNCHANGED row
    BY <2>1
  <2>4. Cascade({removal.folder})' = Cascade({p})
    BY <2>0, <2>2 DEF Cascade
  <2>5. removal'.toConvert = Cascade({removal.folder})'
    BY <2>2, <2>4
  <2>. QED  BY <2>3, <2>5 DEF RemovalOK, Inside
<1>7. ASSUME NEW q \in Folders, convertFolder(q) PROVE RemovalOK'
  <2>1. /\ removal' = [removal EXCEPT !.toConvert = @ \ {q}] /\ UNCHANGED <<row, pending, work, clean>>
        /\ media' = [f \in Files |-> IF f \in Inside({q}) THEN None ELSE media[f]]
        /\ q \in removal.toConvert
    BY <1>7 DEF convertFolder, ConvertToExternal
  <2>2. /\ removal'.folder = removal.folder /\ removal'.late = removal.late
        /\ removal'.toConvert = removal.toConvert \ {q}
    BY <2>1 DEF TypeInv, RemovalType
  <2>3. Removing
    BY <2>1 DEF Removing, NoRemoval
  <2>4. Cascade({removal.folder})' = Cascade({removal.folder})
    BY <2>1, <2>2 DEF Cascade
  <2>5. ASSUME NEW f \in Files, media'[f] # None,
               FolderOf[f] \in Cascade({removal.folder}) \ removal'.toConvert
        PROVE  f \in removal'.late
    BY <2>1, <2>2, <2>3, <2>5 DEF RemovalOK, Inside
  <2>. QED  BY <2>1, <2>2, <2>3, <2>4, <2>5 DEF RemovalOK, Inside, Scanning
<1>8. ASSUME NEW p \in Folders, ban(p) \/ unban(p) \/ addRoot(p) \/ reloadRoot(p)
      PROVE  RemovalOK'
  BY <1>2, <1>8 DEF ban, unban, addRoot, reloadRoot, Command
<1>9. CASE reload
  BY <1>2, <1>9 DEF reload, Command
<1>10. ASSUME NEW p \in Folders, ToggleNoMedia(p) PROVE RemovalOK'
  BY <1>10, RemovalKept DEF ToggleNoMedia, Change, db
<1>11. ASSUME NEW e \in pending, checkHidden(e) \/ checkRefused(e) \/ checkFolder(e)
       PROVE  RemovalOK'
  BY <1>2, <1>3, <1>11 DEF checkHidden, checkRefused, checkFolder
<1>12. ASSUME NEW f \in Files, removeFile(f) \/ onUpdatedFile(f) \/ onDiscoveredFile(f)
       PROVE  RemovalOK'
  <2>1. NoWork.remove = {} /\ NoWork.refresh = {} /\ NoWork.add = {}
    BY DEF NoWork
  <2>. QED  BY <1>2, <1>3, <1>12, <2>1 DEF removeFile, onUpdatedFile, onDiscoveredFile
<1>13. ASSUME NEW f \in Files, Modify(f) PROVE RemovalOK'
  BY <1>13, RemovalKept DEF Modify, Change, db
<1>14. ASSUME NEW x \in Folders \cup Files, Vanish(x) \/ Appear(x) PROVE RemovalOK'
  BY <1>14, RemovalKept DEF Vanish, Appear, Change, db
<1>15. ASSUME NEW j \in jobs, RestoreEntities(j) \/ Extract(j) \/ Ends(j) PROVE RemovalOK'
  <2>1. UNCHANGED <<row, pending, work, removal, media>>
    BY <1>15 DEF RestoreEntities, Extract, Ends, Fail, Discard, saveParserStep, db
  <2>2. clean' => clean
    BY <1>15 DEF RestoreEntities, Extract, Ends, Fail, Discard, saveParserStep
  <2>. QED  BY <2>1, <2>2, RemovalKept
<1>16. ASSUME NEW j \in jobs, updateFsInfo(j) \/ \E type \in {"Audio", "Video"} : refreshMedia(j, type)
       PROVE  RemovalOK'
  <2>1. \A f \in Files : media'[f] # None => media[f] # None
    BY <1>16 DEF updateFsInfo, refreshMedia, Writes, TypeInv, MediaOK
  <2>. QED  BY <1>16, <2>1, RemovalKept DEF updateFsInfo, refreshMedia
<1>17. ASSUME NEW j \in jobs, NEW type \in {"Audio", "Video"}, createFileAndMedia(j, type)
       PROVE  RemovalOK'
  <2>1. /\ removal' = [removal EXCEPT !.late = IF Removing THEN @ \cup {j.file} ELSE @]
        /\ UNCHANGED <<row, pending, work, clean>>
        /\ media' = [media EXCEPT ![j.file] = Extracted(j, type)]
    BY <1>17 DEF createFileAndMedia
  <2>2. CASE ~Removing
    <3>1. removal' = removal
      BY <2>1, <2>2 DEF TypeInv, RemovalType
    <3>. QED  BY <1>2, <2>2, <3>1
  <2>3. CASE Removing
    <3>1. /\ removal'.folder = removal.folder /\ removal'.late = removal.late \cup {j.file}
          /\ removal'.toConvert = removal.toConvert
      BY <2>1, <2>3 DEF TypeInv, RemovalType
    <3>2. Cascade({removal.folder})' = Cascade({removal.folder})
      BY <2>1, <3>1 DEF Cascade
    <3>3. ASSUME NEW f \in Files, media'[f] # None,
                 FolderOf[f] \in Cascade({removal.folder}) \ removal.toConvert
          PROVE  f \in removal'.late
      <4>1. CASE f = j.file
        BY <3>1, <4>1
      <4>2. CASE f # j.file
        BY <2>1, <2>3, <3>1, <3>3, <4>2 DEF RemovalOK, Inside, TypeInv, MediaOK
      <4>. QED  BY <4>1, <4>2
    <3>. QED  BY <2>1, <2>3, <3>1, <3>2, <3>3 DEF RemovalOK, Inside, Scanning
  <2>. QED  BY <2>2, <2>3
<1>18. CASE UNCHANGED vars
  BY <1>18, RemovalKept DEF vars, db
<1>. QED
  BY <1>4, <1>5, <1>6, <1>7, <1>8, <1>9, <1>10, <1>11, <1>12, <1>13, <1>14, <1>15, <1>16,
     <1>17, <1>18 DEF Next, Ends

\* The end of a removal.
LEMMA RemovedMeans ==
    ASSUME RemovalOK, removed
    PROVE  /\ pending = {} /\ work = NoWork /\ UNCHANGED <<pending, work>> /\ ~clean /\ ~clean'
           /\ removal.folder \in Folders /\ row[removal.folder] \in Known
           /\ \A f \in Inside(Cascade({removal.folder})) : media[f] # None => f \in removal.late
BY DEF RemovalOK, removed, Scanning

-----------------------------------------------------------------------------
(* The external media.                                                     *)

LEMMA OneMediaStep == TypeInv /\ OneMediaPerFile /\ [Next]_vars => OneMediaPerFile'
<1>. SUFFICES ASSUME TypeInv, OneMediaPerFile, [Next]_vars PROVE OneMediaPerFile'
  OBVIOUS
<1>0. ext \subseteq Files /\ media \in [Files -> Media \cup {None}]
  BY DEF TypeInv, MediaOK
<1>1. CASE MediaOnlyLost /\ UNCHANGED ext
  BY <1>0, <1>1 DEF MediaOnlyLost, OneMediaPerFile
<1>2. ASSUME NEW p \in Folders, convertFolder(p) PROVE OneMediaPerFile'
  <2>. DEFINE F == Inside({p})
  <2>1. /\ ext' = ext \cup {f \in F : media[f] # None}
        /\ media' = [f \in Files |-> IF f \in F THEN None ELSE media[f]]
    BY <1>2 DEF convertFolder, ConvertToExternal
  <2>2. F \subseteq Files
    BY DEF Inside
  <2>. HIDE DEF F
  <2>. QED  BY <1>0, <2>1, <2>2 DEF OneMediaPerFile
<1>3. ASSUME NEW j \in jobs, NEW type \in {"Audio", "Video"}, createFileAndMedia(j, type)
      PROVE  OneMediaPerFile'
  <2>1. ext' = ext \ {j.file} /\ media' = [media EXCEPT ![j.file] = Extracted(j, type)]
    BY <1>3 DEF createFileAndMedia, CreatedOrOverridden
  <2>. QED  BY <1>0, <2>1 DEF OneMediaPerFile
<1>4. ASSUME NEW j \in jobs, updateFsInfo(j) \/ \E type \in {"Audio", "Video"} : refreshMedia(j, type)
      PROVE  OneMediaPerFile'
  <2>1. ext' = ext /\ \A f \in Files : media[f] = None => media'[f] = None
    BY <1>0, <1>4 DEF refreshMedia, updateFsInfo, Writes
  <2>. QED  BY <1>0, <2>1 DEF OneMediaPerFile
<1>5. \/ UNCHANGED ext
      \/ \E p \in Folders : convertFolder(p)
      \/ \E j \in jobs, type \in {"Audio", "Video"} : createFileAndMedia(j, type)
  <2>1. CASE reload \/ interrupt \/ FilesDone \/ Restart \/ UNCHANGED vars
    BY <2>1 DEF reload, interrupt, FilesDone, Restart, vars, db
  <2>2. ASSUME NEW p \in Folders, addRoot(p) \/ reloadRoot(p) \/ remove(p) \/ ToggleNoMedia(p)
        PROVE  UNCHANGED ext
    BY <2>2 DEF addRoot, reloadRoot, remove, ToggleNoMedia, Change, db
  <2>3. ASSUME NEW p \in Folders, ban(p) \/ unban(p) PROVE UNCHANGED ext
    BY <2>3 DEF ban, unban, Destroy, LoseContent
  <2>4. ASSUME NEW e \in pending, checkHidden(e) \/ checkRefused(e) \/ checkFolder(e)
        PROVE  UNCHANGED ext
    BY <2>4 DEF checkHidden, checkRefused, checkFolder, Destroy, LoseContent, db
  <2>5. ASSUME NEW f \in Files, removeFile(f) \/ onUpdatedFile(f) \/ onDiscoveredFile(f) \/ Modify(f)
        PROVE  UNCHANGED ext
    BY <2>5 DEF removeFile, onUpdatedFile, onDiscoveredFile, Modify, Change, db
  <2>6. ASSUME NEW j \in jobs, RestoreEntities(j) \/ Extract(j) \/ updateFsInfo(j) \/ Ends(j)
        PROVE  UNCHANGED ext
    BY <2>6 DEF RestoreEntities, Extract, updateFsInfo, Ends, Fail, Discard, saveParserStep, db
  <2>7. ASSUME NEW j \in jobs, NEW type \in {"Audio", "Video"}, refreshMedia(j, type)
        PROVE  UNCHANGED ext
    BY <2>7 DEF refreshMedia
  <2>8. ASSUME NEW x \in Folders \cup Files, Vanish(x) \/ Appear(x)
        PROVE  UNCHANGED ext
    BY <2>8 DEF Vanish, Appear, Change, db
  <2>. QED
    BY <2>1, <2>2, <2>3, <2>4, <2>5, <2>6, <2>7, <2>8, RemovedLoses DEF Next, Ends
<1>. QED  BY <1>1, <1>2, <1>3, <1>4, <1>5, MediaSteps

-----------------------------------------------------------------------------
(* The disk.                                                               *)

LEMMA DiskStep == TypeInv /\ DiskIsATree /\ [Next]_vars => DiskIsATree'
<1>. SUFFICES ASSUME TypeInv, DiskIsATree, [Next]_vars PROVE DiskIsATree'
  OBVIOUS
<1>0. onDisk \subseteq Folders \cup Files
  BY DEF TypeInv, DiskTypes
<1>1. UNCHANGED onDisk => DiskIsATree'
  BY DEF DiskIsATree
<1>2. ASSUME NEW x \in Folders \cup Files, Vanish(x) PROVE DiskIsATree'
  <2>1. CASE x \in Files
    <3>1. onDisk' = onDisk \ {x} /\ x \notin Folders
      BY <1>2, <2>1, TreeAssumption DEF Vanish
    <3>2. \A p \in Folders : Up[p] \subseteq Folders
      BY UpSelf
    <3>. QED  BY <3>1, <3>2, TreeAssumption DEF DiskIsATree
  <2>2. CASE x \in Folders
    <3>. DEFINE in == {q \in Folders : x \in Up[q]}
    <3>1. onDisk' = onDisk \ (in \cup Inside(in)) /\ x \notin Files
      BY <1>2, <2>2, TreeAssumption DEF Vanish
    <3>2. ASSUME NEW p \in Folders, p \in onDisk' PROVE Up[p] \subseteq onDisk'
      <4>1. p \in onDisk /\ x \notin Up[p]
        BY <3>1, <3>2
      <4>2. Up[p] \subseteq onDisk /\ Up[p] \subseteq Folders
        BY <4>1, UpSelf DEF DiskIsATree
      <4>3. \A y \in Up[p] : y \notin in
        BY <4>1, UpTransitive
      <4>4. \A y \in Up[p] : y \notin Files
        BY <4>2, TreeAssumption
      <4>. QED  BY <3>1, <4>2, <4>3, <4>4 DEF Inside
    <3>3. ASSUME NEW f \in Files, f \in onDisk' PROVE FolderOf[f] \in onDisk'
      <4>1. f \in onDisk /\ FolderOf[f] \in Folders /\ FolderOf[f] \notin in
        BY <3>1, <3>3, TreeAssumption DEF Inside
      <4>2. FolderOf[f] \in onDisk /\ FolderOf[f] \notin Files
        BY <4>1, TreeAssumption DEF DiskIsATree
      <4>. QED  BY <3>1, <4>1, <4>2 DEF Inside
    <3>. QED  BY <3>2, <3>3 DEF DiskIsATree
  <2>. QED  BY <2>1, <2>2
<1>3. ASSUME NEW x \in Folders \cup Files, Appear(x) PROVE DiskIsATree'
  <2>1. CASE x \in Files
    <3>1. /\ onDisk' = onDisk \cup {x} /\ x \notin Folders
          /\ FolderOf[x] \in onDisk
      BY <1>3, <2>1, TreeAssumption DEF Appear
    <3>. QED  BY <3>1 DEF DiskIsATree
  <2>2. CASE x \in Folders
    <3>1. /\ onDisk' = onDisk \cup {x} /\ x \notin Files
          /\ Parent[x] \in onDisk \cup {NoFolder} /\ Parent[x] \in Folders \cup {NoFolder}
      BY <1>3, <2>2, TreeAssumption DEF Appear
    <3>2. Up[x] \subseteq onDisk'
      BY <2>2, <3>1, UpUnfolds DEF DiskIsATree
    <3>. QED  BY <3>1, <3>2 DEF DiskIsATree
  <2>. QED  BY <2>1, <2>2
<1>4. UNCHANGED onDisk \/ \E x \in Folders \cup Files : Vanish(x) \/ Appear(x)
  <2>1. CASE reload \/ removed \/ interrupt \/ FilesDone \/ Restart \/ UNCHANGED vars
    BY <2>1 DEF reload, removed, Command, interrupt, FilesDone, Restart, vars, disk
  <2>2. ASSUME NEW p \in Folders,
               \/ addRoot(p) \/ reloadRoot(p) \/ ToggleNoMedia(p)
               \/ ban(p) \/ unban(p) \/ remove(p) \/ convertFolder(p)
        PROVE  UNCHANGED onDisk
    BY <2>2 DEF addRoot, reloadRoot, ToggleNoMedia, ban, unban, remove, convertFolder, Command,
               disk
  <2>3. ASSUME NEW e \in pending, checkHidden(e) \/ checkRefused(e) \/ checkFolder(e)
        PROVE  UNCHANGED onDisk
    BY <2>3 DEF checkHidden, checkRefused, checkFolder, disk
  <2>4. ASSUME NEW f \in Files, removeFile(f) \/ onUpdatedFile(f) \/ onDiscoveredFile(f) \/ Modify(f)
        PROVE  UNCHANGED onDisk
    BY <2>4 DEF removeFile, onUpdatedFile, onDiscoveredFile, Modify, disk
  <2>5. ASSUME NEW j \in jobs, RestoreEntities(j) \/ Extract(j) \/ updateFsInfo(j) \/ Ends(j)
        PROVE  UNCHANGED onDisk
    BY <2>5 DEF RestoreEntities, Extract, updateFsInfo, Ends, Fail, Discard, saveParserStep,
               disk
  <2>6. ASSUME NEW j \in jobs, NEW type \in {"Audio", "Video"},
               createFileAndMedia(j, type) \/ refreshMedia(j, type)
        PROVE  UNCHANGED onDisk
    BY <2>6 DEF createFileAndMedia, refreshMedia, disk
  <2>. QED  BY <2>1, <2>2, <2>3, <2>4, <2>5, <2>6 DEF Next, Ends
<1>. QED  BY <1>1, <1>2, <1>3, <1>4

\* The reasons why a media may be lost.
Reason(f) ==
    \/ f \in ext'
    \/ f \notin onDisk \/ f \in work.remove \/ f \in removal.late
    \/ \E p \in Up[FolderOf[f]] : p \in noMedia \/ row[p] \in Banned \/ row'[p] \in Banned

LEMMA LossStep ==
    ASSUME TypeInv, RemovalOK, DiskIsATree, [Next]_vars,
           NEW f \in Files, media[f] # None, media'[f] = None
    PROVE  Reason(f)
<1>0. /\ FolderOf[f] \in Folders /\ media \in [Files -> Media \cup {None}]
      /\ Up[FolderOf[f]] \subseteq Folders
  BY TreeAssumption, UpSelf DEF TypeInv, MediaOK
<1>10. ~UNCHANGED media
  OBVIOUS
\* A folder above f that is not on the disk.
<1>1. ASSUME NEW p \in Up[FolderOf[f]], p \notin onDisk
      PROVE  f \notin onDisk
  BY <1>0, <1>1 DEF DiskIsATree
\* The content of the rows that go with those of P.
<1>2. ASSUME NEW P, LoseContent(Cascade(P))
      PROVE  \E p \in P : p \in Up[FolderOf[f]]
  BY <1>0, <1>2 DEF LoseContent, Cascade, Inside
<1>3. ASSUME NEW p \in Folders, ban(p) PROVE Reason(f)
  <2>1. LoseContent(IF row[p] = "none" THEN {} ELSE Cascade({p})) /\ row'[p] = "bannedRoot"
    BY <1>3 DEF ban
  <2>2. row[p] # "none"
    BY <1>0, <2>1 DEF LoseContent, Inside
  <2>3. p \in Up[FolderOf[f]]
    BY <1>2, <2>1, <2>2
  <2>. QED  BY <2>1, <2>3 DEF Reason, Banned
<1>4. ASSUME NEW p \in Folders, unban(p) PROVE Reason(f)
  BY <1>2, <1>4 DEF unban, Destroy, Reason
<1>5. ASSUME NEW p \in Folders, convertFolder(p) PROVE Reason(f)
  BY <1>0, <1>5 DEF convertFolder, ConvertToExternal, Reason
<1>17. CASE removed
  <2>1. LoseContent(Cascade({removal.folder}))
    BY <1>10, <1>17 DEF removed, Destroy
  <2>2. FolderOf[f] \in Cascade({removal.folder})
    BY <1>0, <2>1 DEF LoseContent, Inside
  <2>. QED  BY <1>17, <2>2, RemovedMeans DEF Reason, Inside
<1>6. ASSUME NEW e \in pending, checkHidden(e) PROVE Reason(f)
  <2>1. LoseContent(Cascade({e.dir})) /\ (e.dir \notin onDisk \/ e.dir \in noMedia)
    BY <1>6 DEF checkHidden, Destroy, IsHidden, db
  <2>2. e.dir \in Up[FolderOf[f]]
    BY <1>2, <2>1
  <2>. QED  BY <1>1, <2>1, <2>2 DEF Reason
<1>7. ASSUME NEW e \in pending, checkFolder(e) PROVE Reason(f)
  <2>1. PICK p \in SubRows(e.dir) \ SubDirs(e.dir) : p \in Up[FolderOf[f]]
    BY <1>2, <1>7 DEF checkFolder
  <2>2. p \notin onDisk
    BY <2>1 DEF SubRows, SubDirs
  <2>. QED  BY <1>1, <2>1, <2>2 DEF Reason
<1>8. ASSUME NEW g \in Files, removeFile(g) PROVE Reason(f)
  BY <1>0, <1>8 DEF removeFile, Reason
<1>9. ASSUME NEW j \in jobs, NEW type \in {"Audio", "Video"}, createFileAndMedia(j, type)
      PROVE  FALSE
  <2>1. media' = [media EXCEPT ![j.file] = Extracted(j, type)] \/ UNCHANGED media
    BY <1>9 DEF createFileAndMedia
  <2>2. Extracted(j, type) # None
    <3>1. Extracted(j, type).type = type /\ None.type = "none"
      BY DEF Extracted, None
    <3>. QED  BY <3>1
  <2>. QED  BY <1>0, <2>1, <2>2
<1>18. ASSUME NEW j \in jobs, NEW type \in {"Audio", "Video"}, refreshMedia(j, type)
       PROVE  FALSE
  <2>. DEFINE m == [[media[j.file] EXCEPT !.content = j.content] EXCEPT !.type = type]
  <2>1. media' = [media EXCEPT ![j.file] = m] /\ media[j.file] # None
    BY <1>10, <1>18 DEF refreshMedia, Writes
  <2>2. m.type = type
    BY <1>0, <2>1, JobFields DEF Media
  <2>3. None.type = "none"
    BY DEF None
  <2>. HIDE DEF m
  <2>. QED  BY <1>0, <2>1, <2>2, <2>3
<1>19. ASSUME NEW j \in jobs, updateFsInfo(j) PROVE FALSE
  <2>1. media' = [media EXCEPT ![j.file].date = j.date] /\ media[j.file] # None
    BY <1>10, <1>19 DEF updateFsInfo, Writes
  <2>2. media'[j.file].type = media[j.file].type
    BY <1>0, <2>1, JobFields DEF Media
  <2>3. None.type = "none" /\ \A m \in Media : m.type # "none"
    BY DEF None, Media
  <2>. QED  BY <1>0, <2>1, <2>2, <2>3, JobFields
<1>11. ~(reload \/ interrupt \/ FilesDone \/ Restart \/ UNCHANGED vars)
  BY <1>10 DEF reload, interrupt, FilesDone, Restart, vars, db
<1>12. ASSUME NEW p \in Folders, addRoot(p) \/ reloadRoot(p) \/ remove(p) \/ ToggleNoMedia(p)
       PROVE  FALSE
  BY <1>10, <1>12 DEF addRoot, reloadRoot, remove, ToggleNoMedia, Change, db
<1>13. ASSUME NEW e \in pending, checkRefused(e) PROVE FALSE
  BY <1>10, <1>13 DEF checkRefused, db
<1>14. ASSUME NEW g \in Files, onUpdatedFile(g) \/ onDiscoveredFile(g) \/ Modify(g)
       PROVE  FALSE
  BY <1>10, <1>14 DEF onUpdatedFile, onDiscoveredFile, Modify, Change, db
<1>15. ASSUME NEW j \in jobs, RestoreEntities(j) \/ Extract(j) \/ Ends(j)
       PROVE  FALSE
  BY <1>10, <1>15 DEF RestoreEntities, Extract, Ends, Fail, Discard, saveParserStep, db
<1>16. ASSUME NEW x \in Folders \cup Files, Vanish(x) \/ Appear(x)
       PROVE  FALSE
  BY <1>10, <1>16 DEF Vanish, Appear, Change, db
<1>. QED
  BY <1>3, <1>4, <1>5, <1>6, <1>7, <1>8, <1>9, <1>11, <1>12, <1>13, <1>14, <1>15, <1>16,
     <1>17, <1>18, <1>19 DEF Next, Ends

-----------------------------------------------------------------------------
(* The rows and what hangs from them.                                      *)

\* The rows below a set are closed downwards, through parent_id.
LEMMA CascadeDown ==
    ASSUME NEW P, NEW q \in Folders, row[q] \in {"child", "bannedChild"},
           Parent[q] # NoFolder, Parent[q] \in Cascade(P)
    PROVE  q \in Cascade(P)
<1>1. Up[q] = {q} \cup Up[Parent[q]]
  BY UpUnfolds
<1>. QED  BY <1>1 DEF Cascade

LEMMA CascadeSelf == ASSUME NEW P \in SUBSET Folders PROVE P \subseteq Cascade(P)
<1>1. \A p \in P : p \in Folders /\ p \in Up[p]
  BY UpSelf
<1>. QED  BY <1>1 DEF Cascade

\* The folders G lose their rows, and nothing refers to them any more.
Loss(G) ==
    /\ \A p \in Folders \ G : Holds(p) => Holds(p)'
    /\ \A f \in Inside(G) : media'[f] = None /\ tasks'[f] = "none"
    /\ \A j \in jobs' : j.file \in Inside(G) => j.stale
    /\ work = NoWork

LEMMA LoseContentLoss ==
    ASSUME TypeInv, NEW G, LoseContent(G), work = NoWork,
           \A p \in Folders \ G : Holds(p) => Holds(p)'
    PROVE  Loss(G)
<1>1. \A f \in Inside(G) : media'[f] = None /\ tasks'[f] = "none"
  BY DEF LoseContent, Inside
<1>2. \A j \in jobs' : j.file \in Inside(G) => j.stale
  BY DEF LoseContent, Orphan, TypeInv, JobsType, Job
<1>. QED  BY <1>1, <1>2 DEF Loss

LEMMA CommandWork == Command => work = NoWork /\ pending = {}
BY DEF Command, Scanning

LEMMA RowSteps ==
    ASSUME TypeInv, RemovalOK, [Next]_vars
    PROVE  \/ \A p \in Folders : Holds(p) => Holds(p)'
           \/ \E G : Loss(G)
<1>0. row \in [Folders -> {"none"} \cup Known \cup Banned]
  BY DEF TypeInv, RowType
<1>1. UNCHANGED row => \A p \in Folders : Holds(p) => Holds(p)'
  BY DEF Holds
<1>2. CASE reload \/ interrupt \/ FilesDone \/ Restart \/ UNCHANGED vars
  BY <1>1, <1>2 DEF reload, interrupt, FilesDone, Restart, vars, db
<1>3. ASSUME NEW p \in Folders, \/ reloadRoot(p) \/ remove(p) \/ convertFolder(p)
                                \/ ToggleNoMedia(p)
      PROVE  UNCHANGED row
  BY <1>3 DEF reloadRoot, remove, convertFolder, ToggleNoMedia, Change, db
<1>4. ASSUME NEW p \in Folders, addRoot(p)
      PROVE  \A q \in Folders : Holds(q) => Holds(q)'
  BY <1>0, <1>4 DEF addRoot, Holds
<1>5. ASSUME NEW p \in Folders, ban(p) PROVE \E G : Loss(G)
  <2>. DEFINE G == IF row[p] = "none" THEN {} ELSE Cascade({p})
  <2>1. /\ LoseContent(G)
        /\ row' = [q \in Folders |-> IF q = p THEN "bannedRoot"
                                     ELSE IF q \in G THEN "none" ELSE row[q]]
    BY <1>5 DEF ban
  <2>2. row[p] = "none" \/ p \in G
    BY CascadeSelf
  <2>. HIDE DEF G
  <2>3. \A q \in Folders \ G : Holds(q) => Holds(q)'
    BY <2>1, <2>2 DEF Holds
  <2>. QED  BY <1>5, <2>1, <2>3, CommandWork, LoseContentLoss DEF ban
<1>6. ASSUME NEW P, Destroy(P), work = NoWork PROVE \E G : Loss(G)
  <2>1. \A q \in Folders \ Cascade(P) : Holds(q) => Holds(q)'
    BY <1>6 DEF Destroy, Holds
  <2>. QED  BY <1>6, <2>1, LoseContentLoss DEF Destroy
<1>7. CASE removed
  <2>1. removal.folder \in Folders /\ row[removal.folder] \in Known /\ work = NoWork
    BY <1>7, RemovedMeans
  <2>2. CASE Destroy({removal.folder})
    BY <1>6, <2>1, <2>2
  <2>3. CASE row' = [row EXCEPT ![removal.folder] = "bannedChild"]
    BY <1>0, <2>1, <2>3 DEF Holds
  <2>. QED  BY <1>7, <2>2, <2>3 DEF removed
<1>8. ASSUME NEW e \in pending, checkHidden(e)
      PROVE  UNCHANGED row \/ \E G : Loss(G)
  BY <1>6, <1>8 DEF checkHidden, db
<1>9. ASSUME NEW e \in pending, checkRefused(e) PROVE UNCHANGED row
  BY <1>9 DEF checkRefused, db
<1>10. ASSUME NEW e \in pending, checkFolder(e) PROVE \E G : Loss(G)
  <2>. DEFINE G == Cascade(SubRows(e.dir) \ SubDirs(e.dir))
  <2>1. /\ LoseContent(G) /\ work = NoWork
        /\ row' = [p \in Folders |-> IF p \in G THEN "none"
                                     ELSE IF p = e.dir /\ ~e.known THEN "child" ELSE row[p]]
    BY <1>10 DEF checkFolder
  <2>. HIDE DEF G
  <2>2. \A q \in Folders \ G : Holds(q) => Holds(q)'
    BY <2>1 DEF Holds
  <2>. QED  BY <2>1, <2>2, LoseContentLoss
<1>11. ASSUME NEW f \in Files, removeFile(f) \/ onUpdatedFile(f) \/ onDiscoveredFile(f) \/ Modify(f)
       PROVE  UNCHANGED row
  BY <1>11 DEF removeFile, onUpdatedFile, onDiscoveredFile, Modify, Change, db
<1>12. ASSUME NEW j \in jobs, RestoreEntities(j) \/ Extract(j) \/ updateFsInfo(j) \/ Ends(j)
       PROVE  UNCHANGED row
  BY <1>12 DEF RestoreEntities, Extract, updateFsInfo, Ends, Fail, Discard, saveParserStep, db
<1>13. ASSUME NEW j \in jobs, NEW type \in {"Audio", "Video"},
              createFileAndMedia(j, type) \/ refreshMedia(j, type)
       PROVE  UNCHANGED row
  BY <1>13 DEF createFileAndMedia, refreshMedia
<1>14. ASSUME NEW x \in Folders \cup Files, Vanish(x) \/ Appear(x)
       PROVE  UNCHANGED row
  BY <1>14 DEF Vanish, Appear, Change, db
<1>15. ASSUME NEW p \in Folders, unban(p) PROVE \E G : Loss(G)
  BY <1>6, <1>15, CommandWork DEF unban
<1>. QED
  BY <1>1, <1>2, <1>3, <1>4, <1>5, <1>7, <1>8, <1>9, <1>10, <1>11, <1>12, <1>13, <1>14, <1>15
     DEF Next, Ends

\* A task is for a file that is being added, or whose job is held.
TaskIsNew(f) ==
    f \in work.add \/ \E j \in jobs : j.file = f /\ j.kind = "Creation" /\ ~j.stale

LEMMA TaskSteps ==
    ASSUME TypeInv, [Next]_vars
    PROVE  \A f \in Files : tasks'[f] # "none" => tasks[f] # "none" \/ TaskIsNew(f)
<1>. DEFINE Kept == \A f \in Files : tasks'[f] \in {tasks[f], "none"}
            Fresh == \A f \in Files : tasks'[f] = tasks[f] \/ TaskIsNew(f)
<1>0. tasks \in [Files -> {"none", "todo", "created", "done"}]
  BY DEF TypeInv, TasksType
<1>1. UNCHANGED tasks => Kept
  OBVIOUS
<1>2. ASSUME reload \/ removed \/ interrupt \/ FilesDone \/ Restart \/ UNCHANGED vars
      PROVE  Kept
  BY <1>1, <1>2 DEF reload, removed, Destroy, LoseContent, interrupt, FilesDone, Restart, vars, db
<1>3. ASSUME NEW p \in Folders, \/ addRoot(p) \/ reloadRoot(p) \/ remove(p) \/ convertFolder(p)
                                \/ ToggleNoMedia(p)
      PROVE  Kept
  BY <1>1, <1>3 DEF addRoot, reloadRoot, remove, convertFolder, ToggleNoMedia, Change, db
<1>4. ASSUME NEW p \in Folders, ban(p) \/ unban(p)
      PROVE  Kept
  BY <1>1, <1>4 DEF ban, unban, Destroy, LoseContent
<1>5. ASSUME NEW e \in pending, checkHidden(e) \/ checkRefused(e) \/ checkFolder(e)
      PROVE  Kept
  BY <1>1, <1>5 DEF checkHidden, checkRefused, checkFolder, Destroy, LoseContent, db
<1>6. ASSUME NEW f \in Files, removeFile(f) \/ onUpdatedFile(f) \/ Modify(f)
      PROVE  Kept
  BY <1>0, <1>1, <1>6 DEF removeFile, onUpdatedFile, Modify, Change, db
<1>7. ASSUME NEW f \in Files, onDiscoveredFile(f)
      PROVE  Fresh
  BY <1>0, <1>7 DEF onDiscoveredFile, TaskIsNew
<1>8. ASSUME NEW j \in jobs, \/ RestoreEntities(j) \/ Extract(j) \/ updateFsInfo(j) \/ Fail(j)
                             \/ Discard(j)
      PROVE  Kept
  BY <1>0, <1>1, <1>8 DEF RestoreEntities, Extract, updateFsInfo, Fail, Discard, db
<1>13. ASSUME NEW j \in jobs, saveParserStep(j) PROVE Fresh
  BY <1>0, <1>13 DEF saveParserStep, TaskIsNew
<1>9. ASSUME NEW j \in jobs, NEW type \in {"Audio", "Video"}, createFileAndMedia(j, type)
      PROVE  Fresh
  BY <1>0, <1>9 DEF createFileAndMedia, TaskIsNew
<1>10. ASSUME NEW j \in jobs, NEW type \in {"Audio", "Video"}, refreshMedia(j, type)
       PROVE  Kept
  BY <1>1, <1>10 DEF refreshMedia
<1>11. ASSUME NEW x \in Folders \cup Files, Vanish(x) \/ Appear(x)
       PROVE  Kept
  BY <1>1, <1>11 DEF Vanish, Appear, Change, db
<1>12. Kept \/ Fresh
  <2>. HIDE DEF Kept, Fresh
  <2>. QED
    BY <1>2, <1>3, <1>4, <1>5, <1>6, <1>7, <1>8, <1>9, <1>10, <1>11, <1>13 DEF Next
<1>. QED  BY <1>12

LEMMA HeldStep ==
    ASSUME TypeInv, TasksOK, RemovalOK, RowsHang, PendingOK, [Next]_vars
    PROVE  FilesHeld' /\ AddHeld' /\ JobsHeld'
<1>0. /\ FolderOf \in [Files -> Folders] /\ media \in [Files -> Media \cup {None}]
      /\ work.add \subseteq Files
  BY TreeAssumption DEF TypeInv, MediaOK, WorkOK
<1>1. \A j \in jobs : j.file \in Files /\ (j.kind = "Creation" /\ ~j.stale => Holds(FolderOf[j.file]))
  BY JobFields DEF RowsHang, JobsHeld
<1>2. \A f \in Files : TaskIsNew(f) => Holds(FolderOf[f])
  BY <1>1 DEF TaskIsNew, RowsHang, AddHeld
\* What held before a step and is left holds after it.
<1>3. \A f \in Files :
          Holds(FolderOf[f]) =>
              \/ Holds(FolderOf[f])'
              \/ /\ media'[f] = None /\ tasks'[f] = "none" /\ work = NoWork
                 /\ \A j \in jobs' : j.file = f => j.stale
  BY <1>0, RowSteps DEF Loss, Inside
<1>4. FilesHeld'
  <2>. SUFFICES ASSUME NEW f \in Files, media'[f] # None \/ tasks'[f] # "none"
                PROVE  Holds(FolderOf[f])
    BY <1>3 DEF FilesHeld
  <2>1. CASE tasks'[f] # "none"
    BY <2>1, <1>2, TaskSteps DEF RowsHang, FilesHeld
  <2>2. CASE media'[f] # None /\ MediaOnlyLost
    BY <2>2 DEF MediaOnlyLost, RowsHang, FilesHeld
  <2>4. ASSUME NEW j \in jobs, updateFsInfo(j), media'[f] # None PROVE Holds(FolderOf[f])
    BY <1>0, <2>4 DEF updateFsInfo, Writes, RowsHang, FilesHeld
  <2>3. ASSUME NEW j \in jobs, NEW type \in {"Audio", "Video"},
               createFileAndMedia(j, type) \/ refreshMedia(j, type), media'[f] # None
        PROVE  Holds(FolderOf[f])
    <3>1. CASE media[f] # None
      BY <3>1 DEF RowsHang, FilesHeld
    <3>2. CASE media[f] = None
      <4>1. j.file = f /\ createFileAndMedia(j, type)
        BY <1>0, <2>3, <3>2 DEF createFileAndMedia, refreshMedia, Writes
      <4>2. j.kind = "Creation" /\ ~j.stale
        BY <4>1 DEF createFileAndMedia
      <4>. QED  BY <1>1, <4>1, <4>2
    <3>. QED  BY <3>1, <3>2
  <2>. QED  BY <2>1, <2>2, <2>3, <2>4, MediaSteps
<1>5. AddHeld'
  <2>1. CASE WorkOnlyLost
    <3>1. NoWork.add = {}
      BY DEF NoWork
    <3>. QED  BY <1>0, <1>3, <2>1, <3>1 DEF WorkOnlyLost, AddHeld, RowsHang
  <2>2. ASSUME NEW e \in pending, checkFolder(e) PROVE AddHeld'
    <3>1. /\ e \in [dir: Folders, known: BOOLEAN]
          /\ e.known => row[e.dir] \in Known
          /\ row \in [Folders -> {"none"} \cup Known \cup Banned]
      BY DEF TypeInv, PendingType, RowType, PendingOK
    <3>2. e.dir \notin Cascade(SubRows(e.dir) \ SubDirs(e.dir))
      <4>. SUFFICES ASSUME NEW q \in Up[e.dir], Parent[q] = e.dir, q \in Folders
                    PROVE  FALSE
        BY DEF Cascade, SubRows
      <4>1. Parent[q] # NoFolder /\ e.dir \in Folders
        BY <3>1, TreeAssumption
      <4>. QED  BY <4>1, TreeAssumption
    <3>3. row'[e.dir] = IF ~e.known THEN "child" ELSE row[e.dir]
      BY <2>2, <3>1, <3>2 DEF checkFolder
    <3>4. Holds(e.dir)'
      BY <3>1, <3>3 DEF Holds, Known
    <3>5. \A f \in work'.add : FolderOf[f] = e.dir
      BY <2>2 DEF checkFolder, Listing, Inside
    <3>. QED  BY <3>4, <3>5 DEF AddHeld, Holds
  <2>. QED  BY <2>1, <2>2, WorkSteps
<1>6. JobsHeld'
  <2>. SUFFICES ASSUME NEW j \in jobs', j.kind = "Creation", ~j.stale
                PROVE  j.file \in Files /\ Holds(FolderOf[j.file])
    BY <1>3 DEF JobsHeld
  <2>1. CASE JobsOnlyLost
    BY <1>1, <2>1 DEF JobsOnlyLost
  <2>2. CASE Restart
    <3>1. j.file \in Files /\ tasks[j.file] # "none"
      BY <2>2, RestartedJobs DEF CreationRow
    <3>. QED  BY <3>1 DEF RowsHang, FilesHeld
  <2>3. ASSUME NEW f \in Files, onUpdatedFile(f) \/ onDiscoveredFile(f)
        PROVE  j.file \in Files /\ Holds(FolderOf[j.file])
    <3>1. CASE j \in jobs
      BY <1>1, <3>1
    <3>2. CASE j = NewJob(f, "Refresh")
      BY <3>2 DEF NewJob
    <3>3. CASE j = NewJob(f, "Creation") /\ onDiscoveredFile(f)
      BY <3>3 DEF NewJob, onDiscoveredFile, RowsHang, AddHeld
    <3>. QED  BY <2>3, <3>1, <3>2, <3>3 DEF onUpdatedFile, onDiscoveredFile
  <2>4. ASSUME NEW k \in jobs, RestoreEntities(k) \/ Extract(k)
        PROVE  j.file \in Files /\ Holds(FolderOf[j.file])
    <3>1. CASE j \in jobs
      BY <1>1, <3>1
    <3>2. ASSUME NEW d, j = [k EXCEPT !.date = d] \/ j = [k EXCEPT !.content = d]
          PROVE  j.file \in Files /\ Holds(FolderOf[j.file])
      <4>1. j.file = k.file /\ j.kind = k.kind /\ j.stale = k.stale
        BY <3>2, JobFields DEF Job
      <4>. QED  BY <1>1, <4>1
    <3>3. CASE jobs' = jobs \ {k}
      BY <3>1, <3>3
    <3>4. ASSUME NEW d, \/ jobs' = (jobs \ {k}) \cup {[k EXCEPT !.date = d]}
                        \/ jobs' = (jobs \ {k}) \cup {[k EXCEPT !.content = d]}
          PROVE  j.file \in Files /\ Holds(FolderOf[j.file])
      <4>1. j \in jobs \/ j = [k EXCEPT !.date = d] \/ j = [k EXCEPT !.content = d]
        BY <3>4
      <4>. QED  BY <3>1, <3>2, <4>1
    <3>. QED  BY <2>4, <3>3, <3>4 DEF RestoreEntities, Extract, Becomes
  <2>. QED  BY <2>1, <2>2, <2>3, <2>4, ReadSteps
<1>. QED  BY <1>4, <1>5, <1>6

\* A folder above another one is that one or the parent of one above it.
LEMMA UpChild ==
    ASSUME NEW q \in Folders, NEW x \in Up[q], x # q
    PROVE  \E y \in Up[q] : Parent[y] = x
<1>. DEFINE P == {z \in Up[q] : z = q \/ \E y \in Up[q] : Parent[y] = z}
<1>1. q \in P /\ P \in SUBSET Folders
  BY UpSelf
<1>2. Closed(P)
  BY UpClosed DEF Closed
<1>3. Up[q] \subseteq P
  <2>. HIDE DEF P
  <2>. QED  BY <1>1, <1>2, UpInduction
<1>. QED  BY <1>3

\* No folder below others is above their parent.
LEMMA ChildrenAreBelow ==
    ASSUME NEW p \in Folders, NEW P, \A q \in P : q \in Folders /\ Parent[q] = p
    PROVE  Up[p] \cap Cascade(P) = {}
<1>. SUFFICES ASSUME NEW q \in Folders, q \in Up[p], NEW x \in P, x \in Up[q]
              PROVE  FALSE
  BY DEF Cascade
<1>1. x \in Up[p]
  BY UpTransitive
<1>2. Parent[x] # NoFolder
  BY TreeAssumption
<1>. QED  BY <1>1, <1>2, TreeAssumption

\* The rows below a folder: it, or those whose parent's row is.
LEMMA CascadeUp ==
    ASSUME NEW p \in Folders, NEW q \in Cascade({p}), q # p
    PROVE  /\ Parent[q] \in Cascade({p}) /\ Parent[q] # NoFolder
           /\ row[q] \in {"child", "bannedChild"}
<1>1. /\ q \in Folders /\ p \in Up[q]
      /\ \A x \in Up[q] \ Up[p] : row[x] \in {"child", "bannedChild"}
  BY DEF Cascade
<1>2. Parent[q] # NoFolder /\ p \in Up[Parent[q]] /\ Parent[q] \in Folders
  BY <1>1, UpUnfolds, TreeAssumption
<1>3. Up[Parent[q]] \subseteq Up[q] /\ q \in Up[q]
  BY <1>1, <1>2, UpUnfolds
<1>4. q \notin Up[p]
  BY <1>1, UpAntisymmetric
<1>. QED  BY <1>1, <1>2, <1>3, <1>4 DEF Cascade

\* The rows below a child are below its parent.
LEMMA CascadeOfChild ==
    ASSUME NEW q \in Folders, Parent[q] # NoFolder, row[q] \in {"child", "bannedChild"}
    PROVE  Cascade({q}) \subseteq Cascade({Parent[q]})
<1>1. Up[q] = {q} \cup Up[Parent[q]] /\ Parent[q] \in Up[q]
  BY UpUnfolds, UpSelf, TreeAssumption
<1>2. ASSUME NEW x \in Folders, q \in Up[x] PROVE Parent[q] \in Up[x]
  BY <1>1, <1>2, UpTransitive
<1>. QED  BY <1>1, <1>2 DEF Cascade

\* Rows that are deleted are below nothing.
LEMMA CascadeShrinks ==
    ASSUME \A q \in Folders : row'[q] \in {"child", "bannedChild"} => row[q] = row'[q], NEW P
    PROVE  Cascade(P)' \subseteq Cascade(P)
BY UpSelf DEF Cascade

\* A new row has nothing below it.
LEMMA CascadeGrows ==
    ASSUME NEW d \in Folders, \A q \in Folders \ {d} : row'[q] = row[q],
           \A q \in Folders : Parent[q] = d => row[q] \notin {"child", "bannedChild"},
           NEW p \in Folders \ {d}
    PROVE  /\ Cascade({p})' \subseteq Cascade({p}) \cup {d}
           /\ d \in Cascade({p})' => Parent[d] \in Cascade({p})
<1>1. ASSUME NEW q \in Folders \ {d}, q \in Cascade({p})'
      PROVE  q \in Cascade({p})
  <2>1. /\ p \in Up[q] /\ Up[q] \subseteq Folders
        /\ \A x \in Up[q] \ Up[p] : row'[x] \in {"child", "bannedChild"}
    BY <1>1, UpSelf DEF Cascade
  <2>2. ASSUME d \in Up[q] \ Up[p] PROVE FALSE
    <3>1. PICK y \in Up[q] : Parent[y] = d
      BY <2>2, <1>1, UpChild
    <3>2. y \in Folders /\ y # d
      <4>1. y \in Folders
        BY <2>1
      <4>2. y # d
        BY <3>1, <4>1, UpSelf, TreeAssumption
      <4>. QED  BY <4>1, <4>2
    <3>3. y \notin Up[p]
      BY <2>2, <3>1, UpClosed, TreeAssumption DEF Closed
    <3>. QED  BY <2>1, <3>1, <3>2, <3>3
  <2>. QED  BY <2>1, <2>2 DEF Cascade
<1>2. ASSUME d \in Cascade({p})' PROVE Parent[d] \in Cascade({p})
  <2>1. /\ p \in Up[d]
        /\ \A x \in Up[d] \ Up[p] : row'[x] \in {"child", "bannedChild"}
    BY <1>2 DEF Cascade
  <2>2. Parent[d] \in Folders /\ p \in Up[Parent[d]]
    BY <2>1, UpUnfolds, TreeAssumption
  <2>3. Up[Parent[d]] \subseteq Up[d] /\ d \notin Up[Parent[d]] /\ Up[d] \subseteq Folders
    BY <2>2, UpUnfolds, UpSelf, TreeAssumption
  <2>. QED  BY <2>1, <2>2, <2>3 DEF Cascade
<1>3. Cascade({p})' \subseteq Folders
  BY DEF Cascade
<1>. QED  BY <1>1, <1>2, <1>3

\* The steps that change rows.
LEMMA RowChanges ==
    ASSUME TypeInv, [Next]_vars
    PROVE  \/ UNCHANGED row
           \/ \E p \in Folders : addRoot(p) \/ ban(p) \/ unban(p)
           \/ removed
           \/ \E e \in pending : (e.known /\ checkHidden(e)) \/ checkFolder(e)
<1>1. CASE reload \/ interrupt \/ FilesDone \/ Restart \/ UNCHANGED vars
  BY <1>1 DEF reload, interrupt, FilesDone, Restart, vars, db
<1>2. ASSUME NEW p \in Folders, \/ reloadRoot(p) \/ remove(p) \/ convertFolder(p)
                                \/ ToggleNoMedia(p)
      PROVE  UNCHANGED row
  BY <1>2 DEF reloadRoot, remove, convertFolder, ToggleNoMedia, Change, db
<1>3. ASSUME NEW e \in pending, checkRefused(e) \/ (~e.known /\ checkHidden(e))
      PROVE  UNCHANGED row
  BY <1>3 DEF checkRefused, checkHidden, db
<1>4. ASSUME NEW f \in Files,
             removeFile(f) \/ onUpdatedFile(f) \/ onDiscoveredFile(f) \/ Modify(f)
      PROVE  UNCHANGED row
  BY <1>4 DEF removeFile, onUpdatedFile, onDiscoveredFile, Modify, Change, db
<1>5. ASSUME NEW j \in jobs, RestoreEntities(j) \/ Extract(j) \/ updateFsInfo(j) \/ Ends(j)
      PROVE  UNCHANGED row
  BY <1>5 DEF RestoreEntities, Extract, updateFsInfo, Ends, Fail, Discard, saveParserStep, db
<1>6. ASSUME NEW j \in jobs, NEW type \in {"Audio", "Video"},
             createFileAndMedia(j, type) \/ refreshMedia(j, type)
      PROVE  UNCHANGED row
  BY <1>6 DEF createFileAndMedia, refreshMedia
<1>7. ASSUME NEW x \in Folders \cup Files, Vanish(x) \/ Appear(x) PROVE UNCHANGED row
  BY <1>7 DEF Vanish, Appear, Change, db
<1>. QED  BY <1>1, <1>2, <1>3, <1>4, <1>5, <1>6, <1>7 DEF Next, Ends

\* Deleting the rows below others keeps the foreign keys of those that are left.
LEMMA DestroyHangs ==
    ASSUME RowType, ParentsHold, NEW P, NEW d \in {"child", "none"}, NEW p \in Folders,
           \A q \in Folders : row'[q] = IF q \in Cascade(P) THEN "none"
                                        ELSE IF q = p /\ d = "child" THEN "child" ELSE row[q],
           d = "child" => /\ row[p] = "none" /\ Parent[p] # NoFolder
                          /\ Holds(Parent[p]) /\ Parent[p] \notin Cascade(P)
    PROVE  ParentsHold'
<1>. SUFFICES ASSUME NEW q \in Folders, row'[q] \in {"child", "bannedChild"}
              PROVE  Parent[q] # NoFolder /\ Holds(Parent[q])'
  BY DEF ParentsHold
<1>1. Parent[q] # NoFolder /\ Holds(Parent[q]) /\ Parent[q] \notin Cascade(P)
  <2>1. CASE q = p /\ d = "child"
    BY <2>1
  <2>2. CASE ~(q = p /\ d = "child")
    BY <2>2, CascadeDown DEF ParentsHold
  <2>. QED  BY <2>1, <2>2
<1>2. Parent[q] \in Folders
  BY <1>1, TreeAssumption
<1>. QED  BY <1>1, <1>2 DEF Holds

\* The entries of a checked directory.
LEMMA CheckedEntry ==
    ASSUME TypeInv, PendingOK, NEW e \in pending
    PROVE  /\ e.dir \in Folders /\ e.known \in BOOLEAN
           /\ e.known => row[e.dir] \in Known
           /\ ~e.known => Parent[e.dir] # NoFolder /\ row[Parent[e.dir]] \in Known
BY DEF TypeInv, PendingType, PendingOK

LEMMA ParentsHoldStep ==
    ASSUME TypeInv, RemovalOK, ParentsHold, PendingOK, [Next]_vars
    PROVE  ParentsHold'
<1>0. row \in [Folders -> {"none"} \cup Known \cup Banned] /\ RowType
  BY DEF TypeInv, RowType
<1>1. UNCHANGED row => ParentsHold'
  BY DEF ParentsHold, Holds
<1>2. ASSUME NEW p \in Folders, addRoot(p) PROVE ParentsHold'
  BY <1>0, <1>2 DEF addRoot, ParentsHold, Holds
<1>3. ASSUME NEW p \in Folders, ban(p) PROVE ParentsHold'
  <2>. DEFINE G == IF row[p] = "none" THEN {} ELSE Cascade({p})
  <2>1. row' = [q \in Folders |-> IF q = p THEN "bannedRoot"
                                  ELSE IF q \in G THEN "none" ELSE row[q]]
    BY <1>3 DEF ban
  <2>2. ASSUME NEW q \in Folders \ G, q # p, row[q] \in {"child", "bannedChild"}
        PROVE  Parent[q] # p /\ Parent[q] \notin G
    <3>1. Parent[q] # NoFolder /\ Holds(Parent[q])
      BY <2>2 DEF ParentsHold
    <3>2. Parent[q] = p => p \in Cascade({p}) /\ row[p] # "none"
      BY <3>1, CascadeSelf DEF Holds
    <3>. QED  BY <2>2, <3>1, <3>2, CascadeDown
  <2>. HIDE DEF G
  <2>. QED  BY <2>1, <2>2, TreeAssumption DEF ParentsHold, Holds
<1>4. ASSUME NEW P, Destroy(P) PROVE ParentsHold'
  <2>1. \A q \in Folders : row'[q] = IF q \in Cascade(P) THEN "none" ELSE row[q]
    BY <1>4 DEF Destroy
  <2>2. \A p \in Folders : \A q \in Folders :
            row'[q] = IF q \in Cascade(P) THEN "none"
                      ELSE IF q = p /\ "none" = "child" THEN "child" ELSE row[q]
    BY <2>1
  <2>3. CASE Folders = {}
    BY <2>3 DEF ParentsHold
  <2>4. ASSUME NEW p \in Folders PROVE ParentsHold'
    BY <1>0, <2>2, DestroyHangs
  <2>. QED  BY <2>3, <2>4
<1>5. CASE removed
  <2>0. removal.folder \in Folders /\ row[removal.folder] \in Known
    BY <1>5, RemovedMeans
  <2>1. CASE row[removal.folder] = "root"
    BY <1>4, <1>5, <2>1 DEF removed
  <2>2. CASE row[removal.folder] # "root"
    <3>1. row' = [row EXCEPT ![removal.folder] = "bannedChild"] /\ row[removal.folder] = "child"
      BY <1>5, <2>0, <2>2 DEF removed, Known
    <3>2. \A q \in Folders : Holds(q) => Holds(q)'
      BY <1>0, <3>1 DEF Holds
    <3>3. \A q \in Folders :
              row'[q] \in {"child", "bannedChild"} => row[q] \in {"child", "bannedChild"}
      BY <1>0, <3>1
    <3>. QED  BY <3>2, <3>3, TreeAssumption DEF ParentsHold
  <2>. QED  BY <2>1, <2>2
<1>6. ASSUME NEW e \in pending, e.known, checkHidden(e) PROVE ParentsHold'
  BY <1>4, <1>6 DEF checkHidden
<1>7. ASSUME NEW e \in pending, checkFolder(e) PROVE ParentsHold'
  <2>. DEFINE P == SubRows(e.dir) \ SubDirs(e.dir)
              d == IF e.known THEN "none" ELSE "child"
  <2>1. /\ e.dir \in Folders /\ e.known \in BOOLEAN
        /\ ~e.known => /\ Parent[e.dir] # NoFolder /\ row[Parent[e.dir]] \in Known
                       /\ row[e.dir] = "none"
    BY <1>7, CheckedEntry DEF checkFolder
  <2>2. \A q \in Folders : row'[q] = IF q \in Cascade(P) THEN "none"
                      ELSE IF q = e.dir /\ d = "child" THEN "child" ELSE row[q]
    BY <1>7 DEF checkFolder
  <2>3. ~e.known => Holds(Parent[e.dir]) /\ Parent[e.dir] \notin Cascade(P)
    <3>1. Up[e.dir] \cap Cascade(P) = {}
      BY <2>1, ChildrenAreBelow DEF SubRows
    <3>. QED  BY <2>1, <3>1, UpClosed, UpSelf DEF Closed, Holds, Known
  <2>4. d \in {"child", "none"} /\ (d = "child" => ~e.known)
    OBVIOUS
  <2>. HIDE DEF P, d
  <2>. QED  BY <1>0, <2>1, <2>2, <2>3, <2>4, DestroyHangs
<1>. QED  BY <1>1, <1>2, <1>3, <1>4, <1>5, <1>6, <1>7, RowChanges DEF unban

\* The second half of PendingOK, for one pair: checking d does not delete what e needs.
Safe(e, d) ==
    d.known => IF e.known THEN e.dir \in Cascade({d.dir}) => e.dir = d.dir
               ELSE Parent[e.dir] \notin Cascade({d.dir})

Rooted(e) == IF e.known THEN row[e.dir] \in Known
             ELSE Parent[e.dir] # NoFolder /\ row[Parent[e.dir]] \in Known

LEMMA PendingMeans ==
    PendingOK <=> (\A e \in pending : Rooted(e)) /\ \A e, d \in pending : Safe(e, d)
BY DEF PendingOK, Rooted, Safe

\* A directory is checked: those that are left were pushed for other reasons, and its
\* subdirectories hang from it.
LEMMA CheckFolderPending ==
    ASSUME TypeInv, ParentsHold, PendingOK, NEW e \in pending, checkFolder(e)
    PROVE  PendingOK'
<1>. DEFINE D == e.dir
            P == SubRows(D) \ SubDirs(D)
            G == Cascade(P)
            New == {Entry(q, q \in SubRows(D)) : q \in SubDirs(D)}
<1>1. /\ D \in Folders /\ e.known \in BOOLEAN
      /\ e.known => row[D] \in Known
      /\ ~e.known => /\ Parent[D] # NoFolder /\ row[Parent[D]] \in Known
                     /\ row[D] = "none"
  BY CheckedEntry DEF checkFolder
<1>2. /\ \A q \in Folders : row'[q] = IF q \in G THEN "none"
                                      ELSE IF q = D /\ ~e.known THEN "child" ELSE row[q]
      /\ pending' = (pending \ {e}) \cup New
  BY DEF checkFolder
<1>3. \A q \in SubRows(D) : q \in Folders /\ Parent[q] = D /\ row[q] = "child"
  BY DEF SubRows
<1>4. \A q \in SubDirs(D) : q \in Folders /\ Parent[q] = D
  BY DEF SubDirs
<1>5. Up[D] \cap G = {} /\ D \notin G
  <2>1. Up[D] \cap G = {}
    BY <1>1, <1>3, ChildrenAreBelow
  <2>. QED  BY <2>1, <1>1, UpSelf
<1>6. D # NoFolder
  BY <1>1, TreeAssumption
<1>7. e.known => G \subseteq Cascade({D}) \ {D}
  <2>1. ASSUME NEW q \in G PROVE q \in Cascade({D})
    <3>1. PICK x \in P : q \in Cascade({x})
      BY DEF Cascade
    <3>2. x \in Folders /\ Parent[x] = D /\ row[x] = "child"
      BY <1>3
    <3>. QED  BY <3>1, <3>2, <1>6, CascadeOfChild
  <2>. QED  BY <2>1, <1>5
\* A folder that is not known has no rows below it.
<1>8. ~e.known => /\ \A q \in Folders : Parent[q] = D => row[q] \notin {"child", "bannedChild"}
                  /\ SubRows(D) = {} /\ G = {}
  <2>1. ~e.known => \A q \in Folders :
                        Parent[q] = D => row[q] \notin {"child", "bannedChild"}
    BY <1>1 DEF ParentsHold, Holds
  <2>2. ~e.known => SubRows(D) = {}
    BY <2>1, <1>3
  <2>. QED  BY <2>1, <2>2 DEF Cascade
<1>9. row'[D] \in Known
  BY <1>1, <1>2, <1>5 DEF Known
\* The rows below an entry, after the step.
<1>10. e.known => \A x : Cascade({x})' \subseteq Cascade({x})
  <2>1. e.known => \A q \in Folders :
            row'[q] \in {"child", "bannedChild"} => row[q] = row'[q]
    BY <1>2
  <2>. QED  BY <2>1, CascadeShrinks
<1>11. ~e.known => \A x \in Folders \ {D} :
           /\ Cascade({x})' \subseteq Cascade({x}) \cup {D}
           /\ D \in Cascade({x})' => Parent[D] \in Cascade({x})
  <2>1. ~e.known => \A q \in Folders \ {D} : row'[q] = row[q]
    BY <1>2, <1>8
  <2>. QED  BY <1>1, <1>8, <2>1, CascadeGrows
<1>12. \A q \in Folders : Parent[q] = D => q \notin Up[D]
  BY <1>6, TreeAssumption
<1>13. ASSUME NEW n \in New
       PROVE  /\ n.dir \in SubDirs(D) /\ n.dir \in Folders /\ Parent[n.dir] = D
              /\ n.known => n.dir \in SubRows(D) /\ e.known
              /\ n.known \in BOOLEAN
  <2>1. PICK q \in SubDirs(D) : n = [dir |-> q, known |-> q \in SubRows(D)]
    BY DEF Entry
  <2>. DEFINE b == q \in SubRows(D)
  <2>2. n.dir = q /\ (n.known <=> q \in SubRows(D)) /\ n.known \in BOOLEAN
    <3>1. b \in BOOLEAN /\ n = [dir |-> q, known |-> b]
      BY <2>1
    <3>2. \A c \in BOOLEAN : LET r == [dir |-> q, known |-> c]
                             IN  r.dir = q /\ r.known = c
      OBVIOUS
    <3>3. n.dir = q /\ n.known = b
      <4>. HIDE DEF b
      <4>. QED  BY <3>1, <3>2
    <3>. QED  BY <3>1, <3>3
  <2>. QED  BY <2>2, <1>1, <1>4, <1>8
<1>14. ASSUME NEW o \in pending
       PROVE  /\ o.dir \in Folders /\ o.known \in BOOLEAN
              /\ o = [dir |-> o.dir, known |-> o.known]
              /\ Rooted(o) /\ Safe(o, e) /\ Safe(e, o)
  <2>1. o \in [dir: Folders, known: BOOLEAN]
    BY DEF TypeInv, PendingType
  <2>. QED  BY <2>1, PendingMeans
<1>15. ASSUME NEW o \in pending \ {e}, o.known, e.known PROVE o.dir # D
  BY <1>15, <1>14
<1>. HIDE DEF New, P, G
<1>16. ASSUME NEW o \in pending \ {e} PROVE Rooted(o)'
  <2>1. CASE o.known
    <3>1. row[o.dir] \in Known /\ o.dir \in Folders
      BY <2>1, <1>14 DEF Rooted
    <3>2. o.dir \notin G
      BY <1>1, <1>7, <1>8, <1>14, <1>15, <2>1 DEF Safe
    <3>3. row'[o.dir] \in Known
      BY <1>2, <3>1, <3>2 DEF Known
    <3>. QED  BY <2>1, <3>3 DEF Rooted
  <2>2. CASE ~o.known
    <3>1. row[Parent[o.dir]] \in Known /\ Parent[o.dir] # NoFolder /\ Parent[o.dir] \in Folders
      BY <2>2, <1>14, TreeAssumption DEF Rooted
    <3>2. Parent[o.dir] \notin G
      BY <1>1, <1>7, <1>8, <1>14, <2>2 DEF Safe
    <3>3. row'[Parent[o.dir]] \in Known
      BY <1>2, <3>1, <3>2 DEF Known
    <3>. QED  BY <2>2, <3>1, <3>3 DEF Rooted
  <2>. QED  BY <2>1, <2>2
<1>17. ASSUME NEW n \in New PROVE Rooted(n)'
  <2>1. CASE n.known
    <3>1. n.dir \notin G
      <4>. SUFFICES ASSUME NEW x \in P, x \in Up[n.dir] PROVE FALSE
        BY DEF G, Cascade
      <4>1. x \in Folders /\ Parent[x] = D /\ x # n.dir
        BY <1>3, <1>13 DEF P
      <4>2. Up[n.dir] = {n.dir} \cup Up[D]
        BY <1>13, <1>6, UpUnfolds
      <4>. QED  BY <4>1, <4>2, <1>12
    <3>2. row'[n.dir] \in Known
      BY <2>1, <1>2, <1>3, <1>13, <3>1 DEF Known
    <3>. QED  BY <2>1, <3>2 DEF Rooted
  <2>2. CASE ~n.known
    BY <2>2, <1>6, <1>9, <1>13 DEF Rooted
  <2>. QED  BY <2>1, <2>2
\* Two entries that were there.
<1>18. ASSUME NEW o \in pending \ {e}, NEW d \in pending \ {e} PROVE Safe(o, d)'
  <2>. SUFFICES ASSUME d.known
                PROVE  IF o.known THEN o.dir \in Cascade({d.dir})' => o.dir = d.dir
                       ELSE Parent[o.dir] \notin Cascade({d.dir})'
    BY DEF Safe
  <2>1. IF o.known THEN o.dir \in Cascade({d.dir}) => o.dir = d.dir
        ELSE Parent[o.dir] \notin Cascade({d.dir})
    BY PendingMeans DEF Safe
  <2>2. CASE e.known
    BY <1>10, <2>1, <2>2
  <2>3. CASE ~e.known
    <3>1. d.dir # D /\ (o.known => o.dir # D) /\ (~o.known => Parent[o.dir] # D)
      BY <2>3, <1>1, <1>14 DEF Rooted, Known
    <3>. QED  BY <1>11, <1>14, <2>1, <2>3, <3>1
  <2>. QED  BY <1>1, <2>2, <2>3
\* One that was there does not delete D, nor what is below it.
<1>19. ASSUME NEW d \in pending \ {e}, d.known PROVE D \notin Cascade({d.dir})'
  <2>1. CASE e.known
    <3>1. D \in Cascade({d.dir}) => D = d.dir
      BY <1>14, <1>19, <2>1 DEF Safe
    <3>. QED  BY <1>10, <1>15, <1>19, <2>1, <3>1
  <2>2. CASE ~e.known
    <3>1. Parent[D] \notin Cascade({d.dir})
      BY <1>14, <1>19, <2>2 DEF Safe
    <3>2. d.dir # D
      BY <1>1, <1>14, <1>19, <2>2 DEF Rooted, Known
    <3>. QED  BY <1>11, <1>14, <2>2, <3>1, <3>2
  <2>. QED  BY <1>1, <2>1, <2>2
<1>20. ASSUME NEW n \in New, NEW d \in pending \ {e} PROVE Safe(n, d)'
  <2>. SUFFICES ASSUME d.known
                PROVE  IF n.known THEN n.dir \in Cascade({d.dir})' => n.dir = d.dir
                       ELSE Parent[n.dir] \notin Cascade({d.dir})'
    BY DEF Safe
  <2>1. D \notin Cascade({d.dir})'
    BY <1>19
  <2>2. CASE n.known
    <3>. SUFFICES ASSUME n.dir \in Cascade({d.dir})', n.dir # d.dir PROVE FALSE
      BY <2>2
    <3>1. n.dir \in Cascade({d.dir})
      BY <1>10, <1>13, <2>2
    <3>2. D \in Cascade({d.dir})
      BY <1>13, <1>14, <3>1, CascadeUp
    <3>3. D = d.dir
      BY <1>13, <1>14, <2>2, <3>2 DEF Safe
    <3>. QED  BY <1>13, <1>15, <2>2, <3>3
  <2>3. CASE ~n.known
    BY <2>1, <2>3, <1>13
  <2>. QED  BY <2>2, <2>3
\* The new ones delete what is below D only.
<1>21. ASSUME NEW d \in New, d.known
       PROVE  /\ e.known /\ Cascade({d.dir})' \subseteq Cascade({D}) \ {D}
              /\ \A x \in Cascade({d.dir})' : d.dir \in Up[x]
  <2>1. /\ e.known /\ d.dir \in Folders /\ Parent[d.dir] = D
        /\ row[d.dir] \in {"child", "bannedChild"}
    BY <1>3, <1>13, <1>21
  <2>2. Cascade({d.dir})' \subseteq Cascade({D})
    BY <2>1, <1>6, <1>10, CascadeOfChild
  <2>3. \A x \in Cascade({d.dir})' : d.dir \in Up[x]
    BY DEF Cascade
  <2>. QED  BY <2>1, <2>2, <2>3, <1>12
<1>22. ASSUME NEW o \in pending \ {e}, NEW d \in New PROVE Safe(o, d)'
  <2>. SUFFICES ASSUME d.known
                PROVE  IF o.known THEN o.dir \in Cascade({d.dir})' => o.dir = d.dir
                       ELSE Parent[o.dir] \notin Cascade({d.dir})'
    BY DEF Safe
  <2>1. e.known /\ Cascade({d.dir})' \subseteq Cascade({D}) \ {D}
    BY <1>21
  <2>2. IF o.known THEN o.dir \in Cascade({D}) => o.dir = D
        ELSE Parent[o.dir] \notin Cascade({D})
    BY <1>14, <2>1 DEF Safe
  <2>. QED  BY <2>1, <2>2
<1>23. ASSUME NEW n \in New, NEW d \in New PROVE Safe(n, d)'
  <2>. SUFFICES ASSUME d.known
                PROVE  IF n.known THEN n.dir \in Cascade({d.dir})' => n.dir = d.dir
                       ELSE Parent[n.dir] \notin Cascade({d.dir})'
    BY DEF Safe
  <2>1. /\ D \notin Cascade({d.dir})' /\ d.dir \in Folders /\ Parent[d.dir] = D
        /\ \A x \in Cascade({d.dir})' : d.dir \in Up[x]
    BY <1>13, <1>21
  <2>2. ASSUME n.dir \in Cascade({d.dir})', n.dir # d.dir PROVE FALSE
    <3>1. Up[n.dir] = {n.dir} \cup Up[D]
      BY <1>13, <1>6, UpUnfolds
    <3>. QED  BY <2>1, <2>2, <3>1, <1>12
  <2>. QED  BY <1>13, <2>1, <2>2
<1>24. \A x \in pending' : Rooted(x)'
  BY <1>2, <1>16, <1>17
<1>25. \A x, y \in pending' : Safe(x, y)'
  BY <1>2, <1>18, <1>20, <1>22, <1>23
<1>. QED  BY <1>24, <1>25 DEF PendingOK, Rooted, Safe

LEMMA PendingStep ==
    ASSUME TypeInv, RemovalOK, ParentsHold, PendingOK, [Next]_vars
    PROVE  PendingOK'
<1>1. UNCHANGED row /\ pending' \subseteq pending => PendingOK'
  BY DEF PendingOK, Cascade
<1>2. pending' = {} => PendingOK'
  BY DEF PendingOK
<1>3. CASE interrupt \/ FilesDone \/ Restart \/ UNCHANGED vars
  BY <1>1, <1>2, <1>3 DEF interrupt, FilesDone, Restart, vars, db
<1>4. CASE reload
  <2>. DEFINE Roots == {q \in Folders : row[q] = "root"}
  <2>1. pending' = {Entry(p, TRUE) : p \in Roots} /\ UNCHANGED row
    BY <1>4 DEF reload, db
  <2>2. ASSUME NEW p \in Roots, NEW q \in Roots, p \in Cascade({q}) PROVE p = q
    BY <2>2, CascadeUp
  <2>3. \A e \in pending' : e.dir \in Roots /\ e.known
    BY <2>1 DEF Entry
  <2>4. \A p \in Roots : row'[p] \in Known
    BY <2>1 DEF Known
  <2>5. \A p, q \in Roots : p \in Cascade({q})' => p = q
    BY <2>1, <2>2 DEF Cascade
  <2>. HIDE DEF Roots
  <2>. QED  BY <2>3, <2>4, <2>5 DEF PendingOK
\* A single folder that is known.
<1>5. ASSUME NEW q, row[q] \in Known => row'[q] \in Known,
             \A e \in pending' : e.dir = q /\ e.known /\ row[q] \in Known
      PROVE  PendingOK'
  BY <1>5 DEF PendingOK
<1>6. ASSUME NEW p \in Folders, reloadRoot(p) PROVE PendingOK'
  <2>1. row' = row /\ row[p] \in Known /\ \A e \in pending' : e.dir = p /\ e.known
    BY <1>6 DEF reloadRoot, db, Entry
  <2>. QED  BY <2>1, <1>5
<1>7. ASSUME NEW p \in Folders, unban(p) PROVE PendingOK'
  <2>1. \A e \in pending' : /\ e.dir = Parent[p] /\ e.known /\ e.dir \in Folders
                            /\ row[Parent[p]] \in Known
    BY <1>7 DEF unban, Entry
  <2>2. \A q \in Folders : row'[q] = IF q \in Cascade({p}) THEN "none" ELSE row[q]
    BY <1>7 DEF unban, Destroy
  <2>3. Parent[p] \in Folders => Parent[p] \notin Cascade({p})
    BY TreeAssumption DEF Cascade
  <2>4. pending' # {} => (row[Parent[p]] \in Known => row'[Parent[p]] \in Known)
    BY <2>1, <2>2, <2>3
  <2>. QED  BY <1>2, <2>1, <2>4, <1>5
<1>16. CASE removed
  BY <1>2, <1>16, RemovedMeans
<1>17. ASSUME NEW p \in Folders, convertFolder(p) PROVE PendingOK'
  BY <1>1, <1>17 DEF convertFolder
<1>8. ASSUME NEW p \in Folders, addRoot(p) \/ ban(p) \/ remove(p) PROVE PendingOK'
  BY <1>2, <1>8, CommandWork DEF addRoot, ban, remove
<1>9. ASSUME NEW p \in Folders, ToggleNoMedia(p) PROVE PendingOK'
  BY <1>1, <1>9 DEF ToggleNoMedia, Change, db
<1>10. ASSUME NEW e \in pending, e.known, checkHidden(e) PROVE PendingOK'
  <2>1. /\ pending' = pending \ {e}
        /\ \A q \in Folders : row'[q] = IF q \in Cascade({e.dir}) THEN "none" ELSE row[q]
    BY <1>10 DEF checkHidden, Destroy
  <2>2. \A P : Cascade(P)' \subseteq Cascade(P)
    BY <2>1, CascadeShrinks
  <2>3. ASSUME NEW o \in pending \ {e} PROVE Rooted(o)'
    <3>1. /\ o \in [dir: Folders, known: BOOLEAN] /\ e \in [dir: Folders, known: BOOLEAN]
          /\ Rooted(o) /\ Safe(o, e)
      BY PendingMeans DEF TypeInv, PendingType
    <3>2. CASE o.known
      <4>1. o.dir \notin Cascade({e.dir})
        BY <1>10, <3>1, <3>2 DEF Safe
      <4>. QED  BY <2>1, <3>1, <3>2, <4>1 DEF Rooted
    <3>3. CASE ~o.known
      <4>1. Parent[o.dir] \notin Cascade({e.dir})
        BY <1>10, <3>1, <3>3 DEF Safe
      <4>2. Parent[o.dir] \in Folders
        BY <3>1, <3>3, TreeAssumption DEF Rooted
      <4>. QED  BY <2>1, <3>1, <3>3, <4>1, <4>2 DEF Rooted
    <3>. QED  BY <3>2, <3>3
  <2>4. \A o, d \in pending \ {e} : Safe(o, d)'
    BY <2>2, PendingMeans DEF Safe
  <2>. QED  BY <2>1, <2>3, <2>4 DEF PendingOK, Rooted, Safe
<1>11. ASSUME NEW e \in pending, checkRefused(e) \/ (~e.known /\ checkHidden(e))
       PROVE  PendingOK'
  BY <1>1, <1>11 DEF checkRefused, checkHidden, db
<1>12. ASSUME NEW f \in Files,
              removeFile(f) \/ onUpdatedFile(f) \/ onDiscoveredFile(f) \/ Modify(f)
       PROVE  PendingOK'
  BY <1>1, <1>12 DEF removeFile, onUpdatedFile, onDiscoveredFile, Modify, Change, db
<1>13. ASSUME NEW j \in jobs, RestoreEntities(j) \/ Extract(j) \/ updateFsInfo(j) \/ Ends(j) PROVE PendingOK'
  BY <1>1, <1>13 DEF RestoreEntities, Extract, updateFsInfo, Ends, Fail, Discard, saveParserStep, db
<1>14. ASSUME NEW j \in jobs, NEW type \in {"Audio", "Video"},
              createFileAndMedia(j, type) \/ refreshMedia(j, type)
       PROVE  PendingOK'
  BY <1>1, <1>14 DEF createFileAndMedia, refreshMedia
<1>15. ASSUME NEW x \in Folders \cup Files, Vanish(x) \/ Appear(x) PROVE PendingOK'
  BY <1>1, <1>15 DEF Vanish, Appear, Change, db
<1>. QED
  BY <1>3, <1>4, <1>6, <1>7, <1>8, <1>9, <1>10, <1>11, <1>12, <1>13, <1>14, <1>15,
     <1>16, <1>17, CheckFolderPending DEF Next, Ends

\* Whatever the rows, when they hang from one another, no media is below a ban but for
\* another root.
LEMMA BansHold ==
    ASSUME TypeInv, ParentsHold, FilesHeld
    PROVE  BannedFoldersHoldNothing
<1>. SUFFICES ASSUME NEW f \in Files, media[f] # None, NEW b \in Up[FolderOf[f]],
                     row[b] = "bannedRoot",
                     \A r \in Up[FolderOf[f]] \ Up[b] : row[r] # "root"
              PROVE  FALSE
  BY DEF BannedFoldersHoldNothing
<1>. DEFINE p == FolderOf[f]
            P == {x \in Up[p] : x \notin Up[b] /\ row[x] \in {"child", "bannedChild"}}
<1>1. p \in Folders /\ Holds(p) /\ b \in Folders /\ Up[p] \subseteq Folders
  BY UpSelf, TreeAssumption DEF FilesHeld
<1>2. \A x \in Up[p] \ Up[b] : Holds(x) => row[x] \in {"child", "bannedChild"}
  BY <1>1 DEF TypeInv, RowType, Holds, Known, Banned
<1>3. p \in P
  <2>1. p \notin Up[b]
    BY <1>1, UpAntisymmetric DEF Holds
  <2>. QED  BY <1>1, <1>2, <2>1, UpSelf
<1>4. ASSUME NEW x \in P PROVE Parent[x] \in P
  <2>1. x \in Folders /\ x \in Up[p] /\ x \notin Up[b]
    BY <1>1
  <2>2. Parent[x] # NoFolder /\ Holds(Parent[x]) /\ Parent[x] \in Folders
    BY <2>1, TreeAssumption DEF ParentsHold
  <2>3. Parent[x] \in Up[p]
    BY <1>1, <2>1, <2>2, UpClosed DEF Closed
  <2>4. Parent[x] \notin Up[b]
    <3>1. b \in Up[x] /\ b # x
      BY <1>1, <2>1, UpLinear, UpSelf
    <3>2. b \in Up[Parent[x]]
      BY <2>1, <2>2, <3>1, UpUnfolds
    <3>. QED  BY <1>1, <2>2, <3>2, UpAntisymmetric DEF Holds
  <2>. QED  BY <1>2, <2>2, <2>3, <2>4
<1>5. Up[p] \subseteq P
  <2>1. P \in SUBSET Folders /\ Closed(P)
    BY <1>1, <1>4 DEF Closed
  <2>. HIDE DEF P
  <2>. QED  BY <1>1, <1>3, <2>1, UpInduction
<1>. QED  BY <1>1, <1>5, UpSelf

-----------------------------------------------------------------------------
(* The videos of the folders.                                              *)

LEMMA NbVideoMeans ==
    NbVideoIsExact <=>
        \A p \in Folders : counts[p].video = Cardinality(Videos(media, Inside({p})))
BY DEF NbVideoIsExact, Videos

LEMMA VideosFinite ==
    ASSUME NEW m, NEW p
    PROVE  IsFiniteSet(Videos(m, Inside({p}))) /\ Cardinality(Videos(m, Inside({p}))) \in Nat
<1>1. Videos(m, Inside({p})) \subseteq Files
  BY DEF Videos, Inside
<1>. QED  BY <1>1, TreeAssumption, FS_Subset, FS_CardinalityType

\* A trigger sees one media change.
LEMMA OneFileCounts ==
    ASSUME TypeInv, NbVideoIsExact, NEW f \in Files, NEW m, NEW c,
           media' = [media EXCEPT ![f] = m],
           counts' = [counts EXCEPT ![FolderOf[f]] = c],
           c.video = counts[FolderOf[f]].video + One("Video", m) - One("Video", media[f])
    PROVE  NbVideoIsExact'
<1>0. /\ FolderOf[f] \in Folders /\ counts \in [Folders -> CountsType]
      /\ media \in [Files -> Media \cup {None}]
  BY TreeAssumption DEF TypeInv, CountsOK, MediaOK
<1>1. ASSUME NEW p \in Folders
      PROVE  counts'[p].video = Cardinality(Videos(media', Inside({p})))
  <2>. DEFINE V == Videos(media, Inside({p}))
  <2>1. counts[p].video = Cardinality(V)
    BY NbVideoMeans
  <2>2. IsFiniteSet(V) /\ Cardinality(V) \in Nat
    BY VideosFinite
  <2>3. CASE p # FolderOf[f]
    <3>1. Videos(media', Inside({p})) = V
      BY <1>0, <2>3 DEF Videos, Inside
    <3>. QED  BY <1>0, <2>1, <2>3, <3>1
  <2>4. CASE p = FolderOf[f]
    <3>1. Videos(media', Inside({p})) = IF m.type = "Video" THEN V \cup {f} ELSE V \ {f}
      BY <1>0, <2>4 DEF Videos, Inside
    <3>2. f \in V <=> media[f].type = "Video"
      BY <2>4 DEF Videos, Inside
    <3>3. counts'[p].video = Cardinality(V) + One("Video", m) - One("Video", media[f])
      BY <1>0, <2>1, <2>4
    <3>. HIDE DEF V
    <3>4. Cardinality(V \cup {f}) = IF f \in V THEN Cardinality(V) ELSE Cardinality(V) + 1
      BY <2>2, FS_AddElement
    <3>5. Cardinality(V \ {f}) = IF f \in V THEN Cardinality(V) - 1 ELSE Cardinality(V)
      BY <2>2, FS_RemoveElement
    <3>. QED  BY <2>2, <3>1, <3>2, <3>3, <3>4, <3>5 DEF One
  <2>. QED  BY <2>3, <2>4
<1>. QED  BY <1>1 DEF NbVideoIsExact, Videos

\* Folders lose their media and their counters.
LEMMA LoseContentCounts ==
    ASSUME TypeInv, NbVideoIsExact, NEW G,
           media' = [f \in Files |-> IF f \in Inside(G) THEN None ELSE media[f]],
           counts' = [p \in Folders |-> IF p \in G THEN NoCount ELSE counts[p]]
    PROVE  NbVideoIsExact'
<1>1. ASSUME NEW p \in Folders
      PROVE  counts'[p].video = Cardinality(Videos(media', Inside({p})))
  <2>1. CASE p \in G
    <3>1. Videos(media', Inside({p})) = {}
      BY <2>1 DEF Videos, Inside, None
    <3>2. counts'[p].video = 0
      BY <2>1 DEF NoCount
    <3>. QED  BY <3>1, <3>2, FS_EmptySet
  <2>2. CASE p \notin G
    <3>1. Videos(media', Inside({p})) = Videos(media, Inside({p}))
      BY <2>2 DEF Videos, Inside
    <3>2. counts'[p] = counts[p]
      BY <2>2
    <3>. QED  BY <3>1, <3>2, NbVideoMeans
  <2>. QED  BY <2>1, <2>2
<1>. QED  BY <1>1 DEF NbVideoIsExact, Videos

LEMMA NbVideoStep == TypeInv /\ NbVideoIsExact /\ [Next]_vars => NbVideoIsExact'
<1>. SUFFICES ASSUME TypeInv, NbVideoIsExact, [Next]_vars
              PROVE  NbVideoIsExact'
  OBVIOUS
<1>0. /\ FolderOf \in [Files -> Folders] /\ counts \in [Folders -> CountsType]
      /\ media \in [Files -> Media \cup {None}]
      /\ \A j \in jobs : j.file \in Files
      /\ \A p \in Folders : counts[p].video \in Int
  BY TreeAssumption, JobFields DEF TypeInv, CountsOK, CountsType, MediaOK
<1>1. UNCHANGED media /\ UNCHANGED counts => NbVideoIsExact'
  BY DEF NbVideoIsExact
<1>2. ASSUME NEW G, LoseContent(G) PROVE NbVideoIsExact'
  BY <1>2, LoseContentCounts DEF LoseContent
<1>3. CASE reload \/ interrupt \/ FilesDone \/ Restart \/ UNCHANGED vars
  BY <1>1, <1>3 DEF reload, interrupt, FilesDone, Restart, vars, db
<1>4. ASSUME NEW p \in Folders, addRoot(p) \/ reloadRoot(p) \/ remove(p) \/ ToggleNoMedia(p)
      PROVE  NbVideoIsExact'
  BY <1>1, <1>4 DEF addRoot, reloadRoot, remove, ToggleNoMedia, Change, db
<1>5. ASSUME NEW p \in Folders, ban(p) \/ unban(p)
      PROVE  NbVideoIsExact'
  BY <1>2, <1>5 DEF ban, unban, Destroy
<1>14. CASE removed
  BY <1>1, <1>2, <1>14 DEF removed, Destroy
<1>6. ASSUME NEW p \in Folders, convertFolder(p)
      PROVE  NbVideoIsExact'
  <2>1. media' = [f \in Files |-> IF f \in Inside({p}) THEN None ELSE media[f]]
    BY <1>6 DEF convertFolder, ConvertToExternal
  <2>2. CountsAfterRemoval(p) = Removal(p, Inside({p}))
    BY Zenon DEF CountsAfterRemoval, Removal
  <2>3. counts' = [counts EXCEPT ![p] = Removal(p, Inside({p}))]
    BY <1>6, <2>2 DEF convertFolder
  <2>4. ASSUME NEW q \in Folders
        PROVE  counts'[q].video = Cardinality(Videos(media', Inside({q})))
    <3>1. counts[q].video = Cardinality(Videos(media, Inside({q})))
      BY NbVideoMeans
    <3>2. CASE q = p
      <4>1. Inside({p}) \in SUBSET Files
        BY DEF Inside
      <4>2. Removal(p, Inside({p})).video
              = counts[p].video - Cardinality(Videos(media, Inside({p})))
        BY <1>0, <4>1, RemovalCounts DEF TypeInv
      <4>3. counts'[q].video = 0
        BY <1>0, <2>3, <3>1, <3>2, <4>2
      <4>4. Videos(media', Inside({q})) = {}
        BY <2>1, <3>2 DEF Videos, Inside, None
      <4>. QED  BY <4>3, <4>4, FS_EmptySet
    <3>3. CASE q # p
      <4>1. Videos(media', Inside({q})) = Videos(media, Inside({q}))
        BY <2>1, <3>3 DEF Videos, Inside
      <4>2. counts'[q] = counts[q]
        BY <1>0, <2>3, <3>3
      <4>. QED  BY <3>1, <4>1, <4>2
    <3>. QED  BY <3>2, <3>3
  <2>. QED  BY <2>4 DEF NbVideoIsExact, Videos
<1>7. ASSUME NEW e \in pending, checkHidden(e) \/ checkRefused(e) \/ checkFolder(e)
      PROVE  NbVideoIsExact'
  BY <1>1, <1>2, <1>7 DEF checkHidden, checkRefused, checkFolder, Destroy, db
<1>8. ASSUME NEW f \in Files, removeFile(f)
      PROVE  NbVideoIsExact'
  <2>. DEFINE c == OnDelete(counts[FolderOf[f]], media[f])
  <2>1. /\ media' = [media EXCEPT ![f] = None]
        /\ counts' = [counts EXCEPT ![FolderOf[f]] = c]
    BY <1>8 DEF removeFile
  <2>2. c.video = counts[FolderOf[f]].video + One("Video", None) - One("Video", media[f])
    BY <1>0 DEF OnDelete, One, None
  <2>. HIDE DEF c
  <2>. QED  BY <2>1, <2>2, OneFileCounts
<1>9. ASSUME NEW f \in Files, onUpdatedFile(f) \/ onDiscoveredFile(f) \/ Modify(f)
      PROVE  NbVideoIsExact'
  BY <1>1, <1>9 DEF onUpdatedFile, onDiscoveredFile, Modify, Change, db
<1>10. ASSUME NEW j \in jobs, RestoreEntities(j) \/ Extract(j) \/ Ends(j)
       PROVE  NbVideoIsExact'
  BY <1>1, <1>10 DEF RestoreEntities, Extract, Ends, Fail, Discard, saveParserStep, db
<1>11. ASSUME NEW j \in jobs, NEW type \in {"Audio", "Video"}, createFileAndMedia(j, type)
       PROVE  NbVideoIsExact'
  <2>. DEFINE f == j.file
              m == Extracted(j, type)
              d == counts[FolderOf[f]]
              c == IF f \in ext THEN OnEnter(d, m) ELSE OnInsert(d, m)
  <2>1. /\ media' = [media EXCEPT ![f] = m] /\ media[f] = None
        /\ counts' = [counts EXCEPT ![FolderOf[f]] = c]
    BY <1>11 DEF createFileAndMedia, CreatedOrOverridden
  <2>2. f \in Files /\ d.video \in Int
    BY <1>0
  <2>. HIDE DEF m, d, f
  <2>3. c.video = d.video + One("Video", m)
    BY DEF OnEnter, OnInsert
  <2>4. c.video = d.video + One("Video", m) - One("Video", media[f])
    BY <2>1, <2>2, <2>3 DEF One, None
  <2>. HIDE DEF c
  <2>. QED  BY <2>1, <2>2, <2>4, OneFileCounts DEF d
<1>12. ASSUME NEW j \in jobs, NEW type \in {"Audio", "Video"}, refreshMedia(j, type)
       PROVE  NbVideoIsExact'
  <2>. DEFINE f == j.file
              o == media[f]
              n == [o EXCEPT !.content = j.content]
              m == [n EXCEPT !.type = type]
              d == counts[FolderOf[f]]
              c == OnChange(OnChange(d, o, n), n, m)
  <2>1. CASE ~Writes(j)
    BY <1>1, <1>12, <2>1 DEF refreshMedia
  <2>2. CASE Writes(j)
    <3>1. /\ media' = [media EXCEPT ![f] = m]
          /\ counts' = [counts EXCEPT ![FolderOf[f]] = c]
      BY <1>12, <2>2 DEF refreshMedia
    <3>2. f \in Files /\ d.video \in Int /\ o \in Media /\ n.type = o.type
      BY <1>0, <2>2 DEF Media, Writes
    <3>. HIDE DEF f, o, m, n, d
    <3>3. \A x, a, b : x.video \in Int =>
              OnChange(x, a, b).video = x.video + One("Video", b) - One("Video", a)
      BY DEF OnChange, OnEnter, OnLeave, One
    <3>4. OnChange(d, o, n).video = d.video
      BY <3>2, <3>3 DEF One
    <3>5. c.video = d.video + One("Video", m) - One("Video", o)
      BY <3>2, <3>3, <3>4 DEF One
    <3>. HIDE DEF c
    <3>. QED  BY <3>1, <3>2, <3>5, OneFileCounts DEF d, o
  <2>. QED  BY <2>1, <2>2
<1>15. ASSUME NEW j \in jobs, updateFsInfo(j) PROVE NbVideoIsExact'
  <2>1. \A f \in Files : media'[f].type = media[f].type
    BY <1>0, <1>15 DEF updateFsInfo, Writes, Media
  <2>2. ASSUME NEW p \in Folders
        PROVE  Videos(media', Inside({p})) = Videos(media, Inside({p}))
    BY <2>1 DEF Videos, Inside
  <2>3. UNCHANGED counts
    BY <1>15 DEF updateFsInfo
  <2>. QED  BY <2>2, <2>3 DEF NbVideoIsExact, Videos
<1>13. ASSUME NEW x \in Folders \cup Files, Vanish(x) \/ Appear(x)
       PROVE  NbVideoIsExact'
  BY <1>1, <1>13 DEF Vanish, Appear, Change, db
<1>. QED
  BY <1>3, <1>4, <1>5, <1>6, <1>7, <1>8, <1>9, <1>10, <1>11, <1>12, <1>13,
     <1>14, <1>15 DEF Next, Ends

-----------------------------------------------------------------------------
(* What the scan leaves behind it.                                         *)

\* From a folder up to one above it.
Path(q, r) == {x \in Up[q] : r \in Up[x]}

\* The folder r is the root that q hangs from, and nothing on the path is banned.
Line(q, r) == row[r] = "root" /\ \A x \in Path(q, r) \ {r} : row[x] = "child"

\* Nothing on the path from the root r hides q, whether it has a row or not.
Open(q, r) ==
    row[r] = "root" /\ \A x \in Path(q, r) : row[x] \notin Banned /\ x \notin noMedia

\* A directory of the path is still to be checked, as a row or as a directory.
ToCheck(q, r) == \E e \in pending : e.known /\ e.dir \in Path(q, r)
ToFind(q, r) == \E e \in pending : e.dir \in Path(q, r) /\ (e.known \/ row[e.dir] # "root")

\* Every row hangs from one that has no parent_id.
HangsFrom(q, r) ==
    /\ row[r] \in {"root", "bannedRoot"}
    /\ \A x \in Path(q, r) \ {r} : row[x] \in {"child", "bannedChild"}
RowsRooted == \A q \in Folders : row[q] # "none" => \E r \in Up[q] : HangsFrom(q, r)

\* A task whose media was created has it, but in the folders that were removed, are being
\* removed, or were when the program ended: there it is external.
WasRemoved(q) == \E b \in Up[q] : row[b] = "bannedChild" /\ q \in Cascade({b})
IsBeingRemoved(q) == Removing /\ q \in Cascade({removal.folder})
IsExcused(q) == WasRemoved(q) \/ IsBeingRemoved(q) \/ Up[q] \cap cutShort # {}
DoneOK ==
    \A f \in Files : HasFile(f) /\ media[f] = None => f \in ext /\ IsExcused(FolderOf[f])

\* A directory that was pushed without a row did not get one as a child.
NewAreNew == \A e \in pending : ~e.known => row[e.dir] # "child"

\* What was read of the disk is still true.
WorkIsFresh ==
    /\ \A f \in DOMAIN work.date : work.date[f] = mtime[f]
    /\ work.remove \cap onDisk = {} /\ work.refresh \cup work.add \subseteq onDisk
JobsAreFresh == \A j \in jobs : j.date = mtime[j.file] /\ j.file \in onDisk

\* A row below a .nomedia file is still to be checked.
RowsAreShown ==
    \A q \in Folders : \A r \in Up[q] :
        Line(q, r) => ToCheck(q, r) \/ Path(q, r) \cap noMedia = {}

\* A refresh that recorded the date recorded the right one; another one will.
IsDated(j) == Refreshes(j, media) /\ j.phase = "dated"
DatedAreFresh == \A j \in jobs : IsDated(j) => media[j.file].date = mtime[j.file]
Undated(j, f) == j.file = f /\ j.kind = "Refresh" /\ ~j.stale /\ j.phase # "dated"
IsUndated(f) == \E j \in jobs : Undated(j, f)

\* A media is that of a file of the disk, up to date, but for what is left to do.
IsFresh(f) ==
    \/ f \in work.remove
    \/ f \in onDisk /\ (media[f].date = mtime[f] \/ f \in work.refresh \/ IsUndated(f))
MediaAreFresh ==
    \A f \in Files : \A r \in Up[FolderOf[f]] :
        media[f] # None /\ Line(FolderOf[f], r) => ToCheck(FolderOf[f], r) \/ IsFresh(f)

\* A file that nothing hides has its media, but for what is left to do.
IsFound(f) == media[f] # None \/ tasks[f] = "todo" \/ f \in work.add
FilesAreFound ==
    \A f \in Files \cap onDisk : ~WasCutShort(f) =>
        \A r \in Up[FolderOf[f]] :
            Open(FolderOf[f], r) => IsFound(f) \/ ToFind(FolderOf[f], r)

ScanOK ==
    /\ NewAreNew /\ WorkIsFresh /\ JobsAreFresh /\ DatedAreFresh
    /\ RowsAreShown /\ MediaAreFresh /\ FilesAreFound

MirrorInv == RowsRooted /\ DoneOK /\ (clean => ScanOK)

-----------------------------------------------------------------------------
(* Paths.                                                                  *)

LEMMA PathBasics ==
    ASSUME NEW q \in Folders, NEW r \in Up[q]
    PROVE  /\ r \in Folders /\ q \in Path(q, r) /\ r \in Path(q, r)
           /\ Path(q, r) \subseteq Folders /\ Path(q, r) \subseteq Up[q]
BY UpSelf DEF Path

\* The part of a path from or to a folder that is on it.
LEMMA PathParts ==
    ASSUME NEW q \in Folders, NEW r \in Up[q], NEW x \in Path(q, r)
    PROVE  /\ x \in Up[q] /\ r \in Up[x] /\ x \in Folders
           /\ Path(q, x) \subseteq Path(q, r) /\ Path(x, r) \subseteq Path(q, r)
           /\ Path(q, x) \ {x} \subseteq Path(q, r) \ {r}
<1>1. x \in Up[q] /\ r \in Up[x] /\ x \in Folders /\ Up[q] \subseteq Folders
  BY UpSelf DEF Path
<1>2. \A y \in Up[q] : x \in Up[y] => r \in Up[y]
  BY <1>1, UpTransitive
<1>3. \A y \in Up[x] : y \in Up[q]
  BY <1>1, UpTransitive
<1>4. r \in Path(q, x) => r = x
  BY <1>1, UpAntisymmetric DEF Path
<1>. QED  BY <1>1, <1>2, <1>3, <1>4 DEF Path

\* The folders above q are those of the path to r and those above r.
LEMMA PathOrAbove ==
    ASSUME NEW q \in Folders, NEW r \in Up[q]
    PROVE  /\ \A x \in Up[q] : x \notin Path(q, r) => x \in Up[r] /\ x # r
           /\ Up[q] \ Up[r] = Path(q, r) \ {r}
<1>1. ASSUME NEW x \in Up[q], x \notin Path(q, r) PROVE x \in Up[r] /\ x # r
  <2>1. x \in Folders /\ r \in Folders
    BY UpSelf
  <2>. QED  BY <1>1, <2>1, UpLinear, UpSelf DEF Path
<1>2. ASSUME NEW x \in Path(q, r), x \in Up[r] PROVE x = r
  <2>1. x \in Folders /\ r \in Folders /\ r \in Up[x]
    BY UpSelf DEF Path
  <2>. QED  BY <1>2, <2>1, UpAntisymmetric
<1>3. r \in Up[r]
  BY UpSelf
<1>. QED  BY <1>1, <1>2, <1>3 DEF Path

\* A path is its first folder, and the path of its parent.
LEMMA PathUnfolds ==
    ASSUME NEW q \in Folders, NEW r \in Up[q], r # q
    PROVE  /\ Parent[q] # NoFolder /\ Parent[q] \in Folders /\ r \in Up[Parent[q]]
           /\ Path(q, r) = {q} \cup Path(Parent[q], r)
           /\ q \notin Path(Parent[q], r)
<1>1. Parent[q] # NoFolder /\ r \in Up[Parent[q]] /\ Parent[q] \in Folders
  BY UpUnfolds, TreeAssumption
<1>2. Up[q] = {q} \cup Up[Parent[q]] /\ q \notin Up[Parent[q]]
  BY <1>1, UpUnfolds, TreeAssumption
<1>. QED  BY <1>1, <1>2 DEF Path

LEMMA PathOfOne == ASSUME NEW r \in Folders PROVE Path(r, r) = {r}
<1>1. r \in Up[r] /\ Up[r] \subseteq Folders
  BY UpSelf
<1>2. \A x \in Path(r, r) : x = r
  BY <1>1, UpAntisymmetric DEF Path
<1>. QED  BY <1>1, <1>2, PathBasics

\* Below a folder of a path that is not the last one, the path has a child of it.
LEMMA PathChild ==
    ASSUME NEW q \in Folders, NEW r \in Up[q], NEW d \in Path(q, r), d # q
    PROVE  \E y \in Path(q, r) \ {r} :
               /\ y \in Folders /\ Parent[y] = d /\ y # d
               /\ Path(q, y) \subseteq Path(q, r) /\ d \notin Path(q, y)
<1>1. d \in Up[q] /\ r \in Up[d] /\ d \in Folders
  BY PathParts
<1>2. PICK y \in Up[q] : Parent[y] = d
  BY <1>1, UpChild
<1>3. y \in Folders /\ d # NoFolder
  BY <1>1, UpSelf, TreeAssumption
<1>4. y \notin Up[d] /\ d \in Up[y]
  BY <1>2, <1>3, UpSelf, UpClosed, TreeAssumption DEF Closed
<1>5. r \in Up[y]
  BY <1>1, <1>3, <1>4, UpTransitive
<1>6. y \in Path(q, r) /\ y # r /\ y # d
  BY <1>1, <1>2, <1>4, <1>5, UpSelf DEF Path
<1>7. d \notin Path(q, y)
  BY <1>4 DEF Path
<1>. QED  BY <1>2, <1>3, <1>6, <1>7, PathParts

\* The rows that go with those of P, along a path.
LEMMA CascadePath ==
    ASSUME NEW q \in Folders, NEW p \in Up[q],
           \A x \in Path(q, p) \ {p} : row[x] \in {"child", "bannedChild"}
    PROVE  q \in Cascade({p})
BY PathOrAbove DEF Cascade

LEMMA CascadeAlong ==
    ASSUME NEW P, NEW q \in Folders, NEW x \in Up[q], x \in Cascade(P),
           \A y \in Path(q, x) \ {x} : row[y] \in {"child", "bannedChild"}
    PROVE  q \in Cascade(P)
<1>1. PICK p \in P \cap Up[x] : \A y \in Up[x] \ Up[p] : row[y] \in {"child", "bannedChild"}
  BY DEF Cascade
<1>2. x \in Folders /\ p \in Up[q]
  BY <1>1, UpSelf, UpTransitive
<1>3. ASSUME NEW y \in Up[q] \ Up[p] PROVE row[y] \in {"child", "bannedChild"}
  <2>1. y \in Up[x] \/ y \in Path(q, x) \ {x}
    BY <1>2, PathOrAbove
  <2>. QED  BY <1>1, <1>3, <2>1
<1>. QED  BY <1>1, <1>2, <1>3 DEF Cascade

\* What goes with rows that are not on the path to a root is not on it either.
LEMMA CascadeBeside ==
    ASSUME NEW q \in Folders, NEW r \in Up[q], row[r] \notin {"child", "bannedChild"},
           NEW P, P \cap Path(q, r) = {}
    PROVE  Path(q, r) \cap Cascade(P) = {}
<1>. SUFFICES ASSUME NEW x \in Path(q, r), NEW p \in P \cap Up[x],
                     \A y \in Up[x] \ Up[p] : row[y] \in {"child", "bannedChild"}
              PROVE  FALSE
  BY DEF Cascade
<1>1. x \in Up[q] /\ r \in Up[x] /\ x \in Folders /\ p \in Up[q]
  BY PathParts, UpTransitive
<1>2. p \in Up[r] /\ p # r /\ r \in Folders /\ p \in Folders
  BY <1>1, PathOrAbove, UpSelf
<1>3. r \notin Up[p]
  BY <1>2, UpAntisymmetric
<1>. QED  BY <1>1, <1>3

\* What goes with other rows and not with q leaves the rows q hangs from.
LEMMA CascadeAside ==
    ASSUME NEW q \in Folders, NEW r \in Up[q], NEW P, q \notin Cascade(P),
           \A x \in Path(q, r) \ {r} : row[x] \in {"child", "bannedChild"}
    PROVE  Path(q, r) \cap Cascade(P) = {}
<1>. SUFFICES ASSUME NEW x \in Path(q, r), x \in Cascade(P)
              PROVE  FALSE
  OBVIOUS
<1>1. x \in Up[q] /\ Path(q, x) \ {x} \subseteq Path(q, r) \ {r}
  BY PathParts
<1>. QED  BY <1>1, CascadeAlong

-----------------------------------------------------------------------------
(* The rows hang from a root, and the tasks that are completed.            *)

\* The rows that are left hang from those they hung from.
LEMMA RootedKept ==
    ASSUME RowsRooted, NEW q \in Folders, row[q] # "none", NEW P, q \notin Cascade(P),
           \A x \in Folders : x \notin Cascade(P) /\ row[x] # "none" =>
               row'[x] = row[x] \/ (row[x] = "child" /\ row'[x] = "bannedChild")
    PROVE  \E r \in Up[q] : HangsFrom(q, r)'
<1>1. PICK r \in Up[q] : HangsFrom(q, r)
  BY DEF RowsRooted
<1>2. Path(q, r) \cap Cascade(P) = {}
  BY <1>1, CascadeAside DEF HangsFrom
<1>3. r \in Path(q, r) /\ Path(q, r) \subseteq Folders
  BY PathBasics
<1>4. HangsFrom(q, r)'
  BY <1>1, <1>2, <1>3 DEF HangsFrom
<1>. QED  BY <1>4

\* The rows that go with no row.
LEMMA CascadeOfNone == Cascade({}) = {}
BY DEF Cascade

LEMMA RootedStep ==
    ASSUME TypeInv, RemovalOK, ParentsHold, PendingOK, RowsRooted, [Next]_vars
    PROVE  RowsRooted'
<1>0. row \in [Folders -> {"none"} \cup Known \cup Banned]
  BY DEF TypeInv, RowType
<1>. SUFFICES ASSUME NEW q \in Folders, row'[q] # "none"
              PROVE  \E r \in Up[q] : HangsFrom(q, r)'
  BY DEF RowsRooted
<1>1. CASE UNCHANGED row
  BY <1>1, CascadeOfNone, RootedKept
\* A folder that becomes a root.
<1>2. ASSUME row'[q] \in {"root", "bannedRoot"} PROVE \E r \in Up[q] : HangsFrom(q, r)'
  BY <1>2, PathOfOne, UpSelf DEF HangsFrom
<1>3. ASSUME NEW p \in Folders, addRoot(p) PROVE \E r \in Up[q] : HangsFrom(q, r)'
  <2>1. row' = [row EXCEPT ![p] = "root"] /\ row[p] = "none"
    BY <1>3 DEF addRoot
  <2>2. CASE q = p
    BY <1>0, <1>2, <2>1, <2>2
  <2>3. CASE q # p
    BY <1>0, <2>1, <2>3, CascadeOfNone, RootedKept
  <2>. QED  BY <2>2, <2>3
<1>4. ASSUME NEW p \in Folders, ban(p) PROVE \E r \in Up[q] : HangsFrom(q, r)'
  <2>. DEFINE P == IF row[p] = "none" THEN {} ELSE {p}
  <2>1. row' = [x \in Folders |-> IF x = p THEN "bannedRoot"
                                  ELSE IF x \in Cascade(P) THEN "none" ELSE row[x]]
    BY <1>4, CascadeOfNone DEF ban
  <2>2. row[p] # "none" => p \in Cascade(P)
    BY CascadeSelf
  <2>. HIDE DEF P
  <2>3. CASE q = p
    BY <1>2, <2>1, <2>3
  <2>4. CASE q # p
    BY <2>1, <2>2, <2>4, RootedKept
  <2>. QED  BY <2>3, <2>4
<1>5. ASSUME NEW P, Destroy(P) PROVE \E r \in Up[q] : HangsFrom(q, r)'
  BY <1>5, RootedKept DEF Destroy
<1>6. CASE removed
  <2>. DEFINE p == removal.folder
  <2>0. p \in Folders /\ row[p] \in Known
    BY <1>6, RemovedMeans
  <2>1. CASE row[p] = "root"
    BY <1>5, <1>6, <2>1 DEF removed
  <2>2. CASE row[p] # "root"
    <3>1. row' = [row EXCEPT ![p] = "bannedChild"] /\ row[p] = "child"
      BY <1>6, <2>0, <2>2 DEF removed, Known
    <3>. HIDE DEF p
    <3>. QED  BY <1>0, <3>1, CascadeOfNone, RootedKept
  <2>. QED  BY <2>1, <2>2
<1>7. ASSUME NEW e \in pending, checkFolder(e) PROVE \E r \in Up[q] : HangsFrom(q, r)'
  <2>. DEFINE D == e.dir
              P == SubRows(D) \ SubDirs(D)
  <2>1. /\ D \in Folders /\ e.known \in BOOLEAN
        /\ ~e.known => /\ Parent[D] # NoFolder /\ row[Parent[D]] \in Known
                       /\ row[D] = "none"
    BY <1>7, CheckedEntry DEF checkFolder
  <2>2. row' = [x \in Folders |-> IF x \in Cascade(P) THEN "none"
                                  ELSE IF x = D /\ ~e.known THEN "child" ELSE row[x]]
    BY <1>7 DEF checkFolder
  <2>3. Up[D] \cap Cascade(P) = {}
    BY <2>1, ChildrenAreBelow DEF SubRows
  <2>. HIDE DEF P, D
  <2>4. \A x \in Folders : x \notin Cascade(P) /\ row[x] # "none" => row'[x] = row[x]
    BY <2>1, <2>2
  <2>5. CASE row[q] # "none"
    BY <2>2, <2>4, <2>5, RootedKept
  <2>6. CASE row[q] = "none"
    <3>1. q = D /\ ~e.known /\ row'[D] = "child"
      BY <2>1, <2>2, <2>6
    <3>2. /\ Parent[D] \in Folders /\ Parent[D] \in Up[D] /\ Parent[D] # D
          /\ row[Parent[D]] # "none"
      BY <2>1, <3>1, UpSelf, UpClosed, TreeAssumption DEF Closed, Known
    <3>3. PICK r \in Up[Parent[D]] : HangsFrom(Parent[D], r)'
      BY <2>3, <2>4, <3>2, RootedKept
    <3>4. r \in Up[D] /\ r # D
      <4>1. r \in Up[D]
        BY <2>1, <3>2, UpTransitive
      <4>. QED  BY <2>1, <3>2, <4>1, UpAntisymmetric
    <3>5. Path(D, r) = {D} \cup Path(Parent[D], r)
      BY <2>1, <3>4, PathUnfolds
    <3>6. HangsFrom(D, r)'
      BY <3>1, <3>3, <3>5 DEF HangsFrom
    <3>. QED  BY <3>1, <3>4, <3>6
  <2>. QED  BY <2>5, <2>6
<1>. QED
  BY <1>1, <1>3, <1>4, <1>5, <1>6, <1>7, RowChanges DEF unban, checkHidden

\* A folder that was removed from a root stays above those it was above.
LEMMA RemovedKept ==
    ASSUME NEW q \in Folders, NEW b \in Up[q], row[b] = "bannedChild", q \in Cascade({b}),
           NEW P, q \notin Cascade(P),
           \A x \in Folders : x \notin Cascade(P) /\ row[x] # "none" =>
               row'[x] = row[x] \/ (row[x] = "child" /\ row'[x] = "bannedChild")
    PROVE  row'[b] = "bannedChild" /\ q \in Cascade({b})'
<1>1. \A x \in Path(q, b) : row[x] \in {"child", "bannedChild"}
  BY PathOrAbove DEF Cascade
<1>2. Path(q, b) \cap Cascade(P) = {}
  BY <1>1, CascadeAside
<1>3. b \in Path(q, b) /\ Path(q, b) \subseteq Folders
  BY PathBasics
<1>4. \A x \in Path(q, b) : row'[x] \in {"child", "bannedChild"}
  BY <1>1, <1>2, <1>3
<1>. QED  BY <1>2, <1>3, <1>4, PathOrAbove DEF Cascade

\* The steps of the analysis lose no media.
LEMMA MediaStay ==
    ASSUME TypeInv, NEW j \in jobs, NEW type \in {"Audio", "Video"},
           createFileAndMedia(j, type) \/ refreshMedia(j, type) \/ updateFsInfo(j)
    PROVE  /\ \A f \in Files : media'[f] = None => media[f] = None
           /\ \A f \in Files : f # j.file => media'[f] = media[f]
<1>0. media \in [Files -> Media \cup {None}] /\ j.file \in Files
  BY JobFields DEF TypeInv, MediaOK
<1>1. CASE createFileAndMedia(j, type)
  <2>1. media' = [media EXCEPT ![j.file] = Extracted(j, type)] /\ media[j.file] = None
    BY <1>1 DEF createFileAndMedia
  <2>. QED  BY <1>0, <2>1
<1>2. ASSUME NEW m, media' = [media EXCEPT ![j.file] = m], m.type \in {"Audio", "Video"}
      PROVE  /\ \A f \in Files : media'[f] = None => media[f] = None
             /\ \A f \in Files : f # j.file => media'[f] = media[f]
  BY <1>0, <1>2 DEF None
<1>3. CASE refreshMedia(j, type)
  <2>1. CASE Writes(j)
    <3>. DEFINE m == [[media[j.file] EXCEPT !.content = j.content] EXCEPT !.type = type]
    <3>1. media' = [media EXCEPT ![j.file] = m]
      BY <1>3, <2>1 DEF refreshMedia
    <3>2. m.type = type
      BY <1>0, <2>1 DEF Writes, Media
    <3>. HIDE DEF m
    <3>. QED  BY <1>2, <3>1, <3>2
  <2>2. CASE ~Writes(j)
    BY <1>3, <2>2 DEF refreshMedia
  <2>. QED  BY <2>1, <2>2
<1>4. CASE updateFsInfo(j)
  <2>1. CASE Writes(j)
    <3>. DEFINE m == [media[j.file] EXCEPT !.date = j.date]
    <3>1. media' = [media EXCEPT ![j.file] = m]
      BY <1>4, <2>1 DEF updateFsInfo
    <3>2. m.type \in {"Audio", "Video"}
      BY <1>0, <2>1 DEF Writes, Media
    <3>. HIDE DEF m
    <3>. QED  BY <1>2, <3>1, <3>2
  <2>2. CASE ~Writes(j)
    BY <1>4, <2>2 DEF updateFsInfo
  <2>. QED  BY <2>1, <2>2
<1>. QED  BY <1>1, <1>3, <1>4

LEMMA DoneStep ==
    ASSUME TypeInv, TasksOK, RemovalOK, DoneOK, [Next]_vars
    PROVE  DoneOK'
<1>0. /\ row \in [Folders -> {"none"} \cup Known \cup Banned]
      /\ tasks \in [Files -> {"none", "todo", "created", "done"}]
      /\ media \in [Files -> Media \cup {None}]
      /\ FolderOf \in [Files -> Folders] /\ NoFolder \notin Folders
      /\ \A j \in jobs : j.file \in Files /\ Follows(j, tasks)
      /\ \A f \in Files : media[f] # None => HasFile(f)
  BY JobFields, TreeAssumption DEF TypeInv, RowType, TasksType, MediaOK, TasksOK
<1>. SUFFICES ASSUME NEW f \in Files, HasFile(f)', media'[f] = None
              PROVE  f \in ext' /\ IsExcused(FolderOf[f])'
  BY DEF DoneOK
<1>. DEFINE g == FolderOf[f]
            Was == HasFile(f) /\ media[f] = None
            Goal == f \in ext' /\ IsExcused(g)'
<1>1. g \in Folders /\ Up[g] \subseteq Folders
  BY <1>0, UpSelf
<1>2. Was => f \in ext /\ IsExcused(g)
  BY DEF DoneOK
<1>3. pending # {} => ~Removing
  BY DEF RemovalOK, Scanning
\* The rows change.
<1>4. ASSUME NEW P, Was, g \notin Cascade(P), ext \subseteq ext', cutShort \subseteq cutShort',
             ~IsBeingRemoved(g),
             \A x \in Folders : x \notin Cascade(P) /\ row[x] # "none" =>
                 row'[x] = row[x] \/ (row[x] = "child" /\ row'[x] = "bannedChild")
      PROVE  Goal
  <2>1. ASSUME NEW b \in Up[g], row[b] = "bannedChild", g \in Cascade({b})
        PROVE  WasRemoved(g)'
    <3>1. row'[b] = "bannedChild" /\ g \in Cascade({b})'
      BY <1>1, <1>4, <2>1, RemovedKept
    <3>. QED  BY <2>1, <3>1 DEF WasRemoved
  <2>. QED  BY <1>2, <1>4, <2>1 DEF IsExcused, WasRemoved
\* They do not.
<1>5. ASSUME Was, UNCHANGED <<row, ext, cutShort>>,
             Removing => removal'.folder = removal.folder
      PROVE  Goal
  <2>1. \A P : Cascade(P)' = Cascade(P)
    BY <1>5, CascadeSame
  <2>2. WasRemoved(g) => WasRemoved(g)'
    BY <1>5, <2>1 DEF WasRemoved
  <2>3. Removing => Removing' /\ removal'.folder = removal.folder
    BY <1>0, <1>5 DEF RemovalOK, Removing, NoRemoval
  <2>4. IsBeingRemoved(g) => IsBeingRemoved(g)'
    BY <2>1, <2>3 DEF IsBeingRemoved
  <2>. QED  BY <1>2, <1>5, <2>2, <2>4 DEF IsExcused
<1>6. CASE reload \/ interrupt \/ FilesDone \/ UNCHANGED vars
  BY <1>5, <1>6 DEF reload, interrupt, FilesDone, Command, vars, db, HasFile
<1>7. CASE Restart
  <2>1. UNCHANGED <<row, media, ext, tasks>>
    BY <1>7 DEF Restart, db
  <2>2. Was
    BY <2>1 DEF HasFile
  <2>3. CASE WasRemoved(g)
    <3>1. WasRemoved(g)'
      BY <2>1, <2>3, CascadeSame DEF WasRemoved
    <3>. QED  BY <1>2, <2>1, <2>2, <3>1 DEF IsExcused
  <2>4. CASE ~WasRemoved(g)
    <3>1. cutShort' = cutShort \cup ({removal.folder} \ {NoFolder})
      BY <1>7 DEF Restart
    <3>2. IsBeingRemoved(g) => removal.folder \in Up[g] \cap cutShort'
      BY <1>0, <3>1 DEF IsBeingRemoved, RemovalOK, Cascade
    <3>. QED  BY <1>2, <2>1, <2>2, <2>4, <3>1, <3>2 DEF IsExcused
  <2>. QED  BY <2>3, <2>4
<1>8. ASSUME NEW p \in Folders, reloadRoot(p) \/ remove(p) \/ ToggleNoMedia(p) PROVE Goal
  <2>1. UNCHANGED <<row, media, tasks, ext, cutShort>>
    BY <1>8 DEF reloadRoot, remove, ToggleNoMedia, Change, Command, db
  <2>2. Removing => removal' = removal
    BY <1>8 DEF reloadRoot, remove, ToggleNoMedia, Change, Command
  <2>. QED  BY <1>5, <2>1, <2>2 DEF HasFile
<1>9. ASSUME NEW p \in Folders, addRoot(p) PROVE Goal
  <2>1. row' = [row EXCEPT ![p] = "root"] /\ row[p] = "none" /\ Was /\ UNCHANGED <<ext, cutShort>>
    BY <1>9 DEF addRoot, Command, HasFile
  <2>2. ~IsBeingRemoved(g)
    BY <1>9 DEF addRoot, Command, IsBeingRemoved
  <2>. QED  BY <1>0, <1>4, <2>1, <2>2, CascadeOfNone
\* The content of the rows that are lost has no task.
<1>10. ASSUME NEW P, LoseContent(Cascade(P)) PROVE Was /\ g \notin Cascade(P) /\ UNCHANGED ext
  BY <1>10 DEF LoseContent, Inside, HasFile
<1>11. ASSUME NEW p \in Folders, ban(p) PROVE Goal
  <2>. DEFINE P == IF row[p] = "none" THEN {} ELSE {p}
  <2>1. /\ row' = [x \in Folders |-> IF x = p THEN "bannedRoot"
                                     ELSE IF x \in Cascade(P) THEN "none" ELSE row[x]]
        /\ LoseContent(Cascade(P)) /\ UNCHANGED cutShort /\ ~IsBeingRemoved(g)
    BY <1>11, CascadeOfNone DEF ban, Command, IsBeingRemoved
  <2>2. row[p] # "none" => p \in Cascade(P)
    BY CascadeSelf
  <2>3. Was /\ g \notin Cascade(P) /\ UNCHANGED ext
    BY <1>10, <2>1
  <2>4. \A x \in Folders : x \notin Cascade(P) /\ row[x] # "none" => row'[x] = row[x]
    <3>. HIDE DEF P
    <3>. QED  BY <2>1, <2>2
  <2>. HIDE DEF P, Goal
  <2>. QED  BY <1>4, <2>1, <2>3, <2>4
<1>12. ASSUME NEW P, Destroy(P), UNCHANGED cutShort,
              g \notin Cascade(P) => ~IsBeingRemoved(g)
       PROVE  Goal
  <2>1. Was /\ g \notin Cascade(P) /\ UNCHANGED ext
    BY <1>10, <1>12 DEF Destroy
  <2>2. \A x \in Folders : x \notin Cascade(P) => row'[x] = row[x]
    BY <1>12 DEF Destroy
  <2>. QED  BY <1>4, <1>12, <2>1, <2>2
<1>13. ASSUME removed, NEW p \in Folders, p = removal.folder PROVE Goal
  <2>0. row[p] \in Known /\ UNCHANGED cutShort
    BY <1>13, RemovedMeans DEF removed
  <2>1. CASE row[p] = "root"
    BY <1>12, <1>13, <2>0, <2>1 DEF removed, IsBeingRemoved
  <2>2. CASE row[p] # "root"
    <3>1. row' = [row EXCEPT ![p] = "bannedChild"] /\ row[p] = "child"
          /\ UNCHANGED <<tasks, media, ext>>
      BY <1>13, <2>0, <2>2 DEF removed, Known
    <3>2. Was
      BY <3>1 DEF HasFile
    <3>3. CASE g \in Cascade({p})
      <4>1. p \in Up[g]
        BY <3>3 DEF Cascade
      <4>2. row'[p] = "bannedChild" /\ \A x \in Folders : x # p => row'[x] = row[x]
        BY <1>0, <3>1
      <4>3. g \in Cascade({p})'
        BY <1>1, <3>3, <4>1, <4>2, UpSelf DEF Cascade
      <4>. QED  BY <1>2, <3>1, <3>2, <4>1, <4>2, <4>3 DEF IsExcused, WasRemoved
    <3>4. CASE g \notin Cascade({p})
      <4>1. ~IsBeingRemoved(g)
        BY <1>13, <3>4 DEF IsBeingRemoved
      <4>2. \A x \in Folders : row'[x] = row[x] \/ (row[x] = "child" /\ row'[x] = "bannedChild")
        BY <1>0, <3>1
      <4>. QED  BY <1>4, <2>0, <3>1, <3>2, <4>1, <4>2, CascadeOfNone
    <3>. QED  BY <3>3, <3>4
  <2>. QED  BY <2>1, <2>2
<1>14. ASSUME NEW q \in Folders, convertFolder(q) PROVE Goal
  <2>1. /\ UNCHANGED <<row, tasks, cutShort>> /\ q \in removal.toConvert
        /\ removal' = [removal EXCEPT !.toConvert = @ \ {q}]
        /\ ext' = ext \cup {h \in Inside({q}) : media[h] # None}
        /\ media' = [h \in Files |-> IF h \in Inside({q}) THEN None ELSE media[h]]
    BY <1>14 DEF convertFolder, ConvertToExternal
  <2>2. removal'.folder = removal.folder /\ Removing
    BY <2>1 DEF TypeInv, RemovalType, Removing, NoRemoval
  <2>3. Removing' /\ \A P : Cascade(P)' = Cascade(P)
    BY <1>0, <2>1, <2>2, CascadeSame DEF RemovalOK, Removing, NoRemoval
  <2>4. CASE media[f] # None
    <3>1. f \in Inside({q}) /\ f \in ext'
      BY <2>1, <2>4
    <3>2. g \in Cascade({removal.folder})
      BY <2>1, <2>2, <3>1 DEF RemovalOK, Inside
    <3>. QED  BY <2>2, <2>3, <3>1, <3>2 DEF IsExcused, IsBeingRemoved
  <2>5. CASE media[f] = None
    <3>1. f \in ext /\ IsExcused(g)
      BY <1>2, <2>1, <2>5 DEF HasFile
    <3>. QED  BY <2>1, <2>2, <2>3, <3>1 DEF IsExcused, IsBeingRemoved, WasRemoved
  <2>. QED  BY <2>4, <2>5
<1>15. ASSUME NEW e \in pending, checkHidden(e) \/ checkRefused(e) PROVE Goal
  <2>0. ~IsBeingRemoved(g) /\ UNCHANGED <<cutShort, removal>>
    BY <1>3, <1>15 DEF IsBeingRemoved, checkHidden, checkRefused
  <2>1. Destroy({e.dir}) \/ UNCHANGED db
    BY <1>15 DEF checkHidden, checkRefused
  <2>. QED  BY <1>5, <1>12, <2>0, <2>1 DEF db, HasFile
<1>16. ASSUME NEW e \in pending, checkFolder(e) PROVE Goal
  <2>. DEFINE P == SubRows(e.dir) \ SubDirs(e.dir)
  <2>0. ~IsBeingRemoved(g) /\ UNCHANGED cutShort
    BY <1>3, <1>16 DEF IsBeingRemoved, checkFolder
  <2>1. e.known \/ row[e.dir] = "none"
    BY <1>16 DEF checkFolder
  <2>2. /\ row' = [x \in Folders |-> IF x \in Cascade(P) THEN "none"
                                     ELSE IF x = e.dir /\ ~e.known THEN "child" ELSE row[x]]
        /\ LoseContent(Cascade(P))
    BY <1>16 DEF checkFolder
  <2>3. Was /\ g \notin Cascade(P) /\ UNCHANGED ext
    BY <1>10, <2>2
  <2>4. \A x \in Folders : x \notin Cascade(P) /\ row[x] # "none" => row'[x] = row[x]
    <3>. HIDE DEF P
    <3>. QED  BY <2>1, <2>2
  <2>. HIDE DEF P, Goal
  <2>. QED  BY <1>4, <2>0, <2>3, <2>4
<1>17. ASSUME NEW h \in Files, removeFile(h) \/ onUpdatedFile(h) \/ onDiscoveredFile(h) \/ Modify(h)
       PROVE  Goal
  <2>1. UNCHANGED <<row, ext, cutShort, removal>>
    BY <1>17 DEF removeFile, onUpdatedFile, onDiscoveredFile, Modify, Change, db
  <2>2. Was
    <3>1. CASE removeFile(h)
      BY <1>0, <3>1 DEF removeFile, HasFile
    <3>2. CASE onDiscoveredFile(h)
      BY <1>0, <3>2 DEF onDiscoveredFile, HasFile
    <3>3. CASE onUpdatedFile(h) \/ Modify(h)
      BY <3>3 DEF onUpdatedFile, Modify, Change, db, HasFile
    <3>. QED  BY <1>17, <3>1, <3>2, <3>3
  <2>. QED  BY <1>5, <2>1, <2>2
<1>18. ASSUME NEW j \in jobs, RestoreEntities(j) \/ Extract(j) \/ Ends(j) PROVE Goal
  <2>1. UNCHANGED <<row, ext, media, cutShort, removal>>
    BY <1>18 DEF RestoreEntities, Extract, Ends, Fail, Discard, saveParserStep, db
  <2>2. CASE tasks' = tasks \/ tasks' = [tasks EXCEPT ![j.file] = "none"]
    BY <1>0, <1>5, <2>1, <2>2 DEF HasFile
  <2>3. CASE saveParserStep(j) /\ tasks' # tasks
    <3>1. tasks' = [tasks EXCEPT ![j.file] = "done"] /\ j.kind = "Creation" /\ ~j.stale
      BY <2>3 DEF saveParserStep
    <3>2. tasks[j.file] = "created"
      BY <1>0, <2>3, <3>1 DEF saveParserStep, Follows, CreationRow
    <3>3. HasFile(f)
      BY <1>0, <3>1, <3>2 DEF HasFile
    <3>. QED  BY <1>5, <2>1, <3>3
  <2>. QED
    BY <1>18, <2>2, <2>3 DEF RestoreEntities, Extract, Ends, Fail, Discard, db
<1>19. ASSUME NEW j \in jobs, NEW type \in {"Audio", "Video"}, createFileAndMedia(j, type)
       PROVE  Goal
  <2>1. /\ UNCHANGED <<row, cutShort>> /\ ext' = ext \ {j.file}
        /\ media' = [media EXCEPT ![j.file] = Extracted(j, type)]
        /\ tasks' = [tasks EXCEPT ![j.file] = "created"]
        /\ removal' = [removal EXCEPT !.late = IF Removing THEN @ \cup {j.file} ELSE @]
    BY <1>19 DEF createFileAndMedia, CreatedOrOverridden
  <2>2. Extracted(j, type) # None
    <3>1. Extracted(j, type).type = type /\ None.type = "none"
      BY DEF Extracted, None
    <3>. QED  BY <3>1
  <2>3. f # j.file /\ Was
    BY <1>0, <2>1, <2>2 DEF HasFile
  <2>4. removal'.folder = removal.folder
    BY <2>1 DEF TypeInv, RemovalType
  <2>5. \A P : Cascade(P)' = Cascade(P)
    BY <2>1, CascadeSame
  <2>6. Removing => Removing'
    BY <1>0, <2>4 DEF RemovalOK, Removing, NoRemoval
  <2>. QED
    BY <1>2, <2>1, <2>3, <2>4, <2>5, <2>6 DEF IsExcused, IsBeingRemoved, WasRemoved
<1>20. ASSUME NEW j \in jobs, NEW type \in {"Audio", "Video"}, refreshMedia(j, type) \/ updateFsInfo(j)
       PROVE  Goal
  <2>1. UNCHANGED <<row, ext, cutShort, removal, tasks>>
    BY <1>20 DEF refreshMedia, updateFsInfo
  <2>2. Was
    BY <1>20, <2>1, MediaStay DEF HasFile
  <2>. QED  BY <1>5, <2>1, <2>2
<1>21. ASSUME NEW x \in Folders \cup Files, Vanish(x) \/ Appear(x) PROVE Goal
  BY <1>5, <1>21 DEF Vanish, Appear, Change, db, HasFile
<1>22. ASSUME NEW p \in Folders, unban(p) PROVE Goal
  <2>1. Destroy({p}) /\ UNCHANGED cutShort /\ ~IsBeingRemoved(g)
    BY <1>22 DEF unban, Command, IsBeingRemoved
  <2>. QED  BY <1>12, <2>1
<1>23. "Audio" \in {"Audio", "Video"} /\ (removed => removal.folder \in Folders)
  BY RemovedMeans
<1>. QED
  BY <1>6, <1>7, <1>8, <1>9, <1>11, <1>13, <1>14, <1>15, <1>16, <1>17, <1>18, <1>19, <1>20,
     <1>21, <1>22, <1>23 DEF Next, Ends

-----------------------------------------------------------------------------
(* The steps of a scan that nothing disturbs.                              *)

\* The steps after which the scan is still worth what it was: those of the discoverer,
\* and those on the files and their jobs, that move no folder.
ByFolder ==
    \/ \E p \in Folders : reloadRoot(p) \/ ban(p)
    \/ \E e \in pending : checkHidden(e) \/ checkRefused(e) \/ checkFolder(e)
EndsWell(j) == Discard(j) \/ saveParserStep(j) \/ (Fail(j) /\ j.kind = "Creation")
ByFile ==
    \/ FilesDone \/ UNCHANGED vars
    \/ \E f \in Files : removeFile(f) \/ onUpdatedFile(f) \/ onDiscoveredFile(f)
    \/ \E j \in jobs : RestoreEntities(j) \/ Extract(j) \/ updateFsInfo(j) \/ EndsWell(j)
    \/ \E j \in jobs, type \in {"Audio", "Video"} :
           createFileAndMedia(j, type) \/ refreshMedia(j, type)

LEMMA CleanSteps ==
    ASSUME TypeInv, RemovalOK, [Next]_vars, clean'
    PROVE  /\ UNCHANGED disk
           /\ (reload /\ jobs = {}) \/ (clean /\ (ByFolder \/ ByFile))
<1>1. ASSUME reload PROVE UNCHANGED disk /\ jobs = {}
  BY <1>1 DEF reload, Command
<1>2. ~(interrupt \/ Restart \/ removed)
  BY RemovedMeans DEF interrupt, Restart
<1>3. ASSUME NEW p \in Folders PROVE ~(addRoot(p) \/ unban(p) \/ remove(p) \/ ToggleNoMedia(p))
  BY DEF addRoot, unban, remove, ToggleNoMedia, Change
<1>12. ASSUME NEW p \in Folders PROVE ~convertFolder(p)
  <2>. SUFFICES ASSUME convertFolder(p) PROVE FALSE
    OBVIOUS
  <2>1. UNCHANGED clean
    BY DEF convertFolder
  <2>2. removal # NoRemoval
    BY DEF convertFolder, NoRemoval
  <2>. QED  BY <2>1, <2>2 DEF RemovalOK, Removing
<1>4. ASSUME NEW p \in Folders, reloadRoot(p) \/ ban(p) PROVE UNCHANGED <<disk, clean>>
  BY <1>4 DEF reloadRoot, ban, Command
<1>5. ASSUME NEW e \in pending, checkHidden(e) \/ checkRefused(e) \/ checkFolder(e)
      PROVE  UNCHANGED <<disk, clean>>
  BY <1>5 DEF checkHidden, checkRefused, checkFolder
<1>6. ASSUME NEW f \in Files, removeFile(f) \/ onUpdatedFile(f) \/ onDiscoveredFile(f)
      PROVE  UNCHANGED <<disk, clean>>
  BY <1>6 DEF removeFile, onUpdatedFile, onDiscoveredFile
<1>7. ASSUME NEW f \in Files PROVE ~Modify(f)
  BY DEF Modify, Change
<1>8. ASSUME NEW j \in jobs,
             RestoreEntities(j) \/ Extract(j) \/ updateFsInfo(j) \/ Discard(j) \/ saveParserStep(j)
      PROVE  UNCHANGED <<disk, clean>>
  BY <1>8 DEF RestoreEntities, Extract, updateFsInfo, Discard, saveParserStep
<1>13. ASSUME NEW j \in jobs, Fail(j) PROVE UNCHANGED disk /\ clean /\ j.kind = "Creation"
  BY <1>13 DEF Fail, TypeInv, WorkOK
<1>9. ASSUME NEW j \in jobs, NEW type \in {"Audio", "Video"},
             createFileAndMedia(j, type) \/ refreshMedia(j, type)
      PROVE  UNCHANGED <<disk, clean>>
  BY <1>9 DEF createFileAndMedia, refreshMedia
<1>10. ASSUME NEW x \in Folders \cup Files PROVE ~(Vanish(x) \/ Appear(x))
  BY DEF Vanish, Appear, Change
<1>11. ASSUME FilesDone \/ UNCHANGED vars PROVE UNCHANGED <<disk, clean>>
  BY <1>11 DEF FilesDone, vars
<1>. QED
  BY <1>1, <1>2, <1>3, <1>4, <1>5, <1>6, <1>7, <1>8, <1>9, <1>10, <1>11, <1>12, <1>13
     DEF Next, ByFolder, ByFile, EndsWell

\* The steps on the files move no folder.
LEMMA ByFileStays == ByFile => UNCHANGED <<row, pending>>
<1>1. FilesDone \/ UNCHANGED vars => UNCHANGED <<row, pending>>
  BY DEF FilesDone, vars, db
<1>2. ASSUME NEW f \in Files, removeFile(f) \/ onUpdatedFile(f) \/ onDiscoveredFile(f)
      PROVE  UNCHANGED <<row, pending>>
  BY <1>2 DEF removeFile, onUpdatedFile, onDiscoveredFile, db
<1>3. ASSUME NEW j \in jobs, RestoreEntities(j) \/ Extract(j) \/ updateFsInfo(j) \/ EndsWell(j)
      PROVE  UNCHANGED <<row, pending>>
  BY <1>3 DEF RestoreEntities, Extract, updateFsInfo, EndsWell, Fail, Discard, saveParserStep, db
<1>4. ASSUME NEW j \in jobs, NEW type \in {"Audio", "Video"},
             createFileAndMedia(j, type) \/ refreshMedia(j, type)
      PROVE  UNCHANGED <<row, pending>>
  BY <1>4 DEF createFileAndMedia, refreshMedia
<1>. QED  BY <1>1, <1>2, <1>3, <1>4 DEF ByFile

\* What checking a directory does to the rows.
CheckedRows(e, P) ==
    /\ \A q \in Folders : row'[q] = IF q \in Cascade(P) THEN "none"
                                    ELSE IF q = e.dir /\ ~e.known THEN "child" ELSE row[q]
    /\ LoseContent(Cascade(P))

\* The subdirectories that are pushed.
Pushed(d) == {Entry(q, q \in SubRows(d)) : q \in SubDirs(d)}

LEMMA PushedMeans ==
    ASSUME NEW d
    PROVE  /\ \A n \in Pushed(d) : /\ n.dir \in SubDirs(d) /\ n.dir \in Folders
                                   /\ Parent[n.dir] = d /\ n.known \in BOOLEAN
                                   /\ n.known <=> n.dir \in SubRows(d)
           /\ \A q \in SubDirs(d) : \E n \in Pushed(d) :
                  n.dir = q /\ (n.known <=> q \in SubRows(d))
<1>1. \A q, b : Entry(q, b).dir = q /\ Entry(q, b).known = b
  BY DEF Entry
<1>2. ASSUME NEW q \in SubDirs(d)
      PROVE  /\ Entry(q, q \in SubRows(d)).dir = q
             /\ Entry(q, q \in SubRows(d)).known <=> q \in SubRows(d)
             /\ Entry(q, q \in SubRows(d)).known \in BOOLEAN
             /\ Entry(q, q \in SubRows(d)) \in Pushed(d)
             /\ q \in Folders /\ Parent[q] = d
  <2>. DEFINE b == q \in SubRows(d)
  <2>1. b \in BOOLEAN
    OBVIOUS
  <2>2. Entry(q, b).dir = q /\ Entry(q, b).known = b
    <3>. HIDE DEF b
    <3>. QED  BY <1>1
  <2>3. Entry(q, b) \in Pushed(d)
    BY DEF Pushed
  <2>. QED  BY <2>1, <2>2, <2>3 DEF SubDirs
<1>. QED  BY <1>2 DEF Pushed

LEMMA CheckFolderMeans ==
    ASSUME TypeInv, ParentsHold, PendingOK, NEW e \in pending, checkFolder(e)
    PROVE  /\ e.dir \in Folders /\ e.dir \in onDisk /\ e.dir \notin noMedia
           /\ e.known \in BOOLEAN /\ (e.known => row[e.dir] \in Known)
           /\ ~e.known => /\ row[e.dir] = "none" /\ SubRows(e.dir) = {}
                          /\ Parent[e.dir] # NoFolder /\ row[Parent[e.dir]] \in Known
                          /\ \A q \in Folders : Parent[q] = e.dir =>
                                 row[q] \notin {"child", "bannedChild"}
           /\ CheckedRows(e, SubRows(e.dir) \ SubDirs(e.dir))
           /\ Up[e.dir] \cap Cascade(SubRows(e.dir) \ SubDirs(e.dir)) = {}
           /\ work = NoWork /\ work' = Listing(e.dir)
           /\ pending' = (pending \ {e}) \cup Pushed(e.dir)
<1>1. /\ e.dir \in Folders /\ e.known \in BOOLEAN /\ (e.known => row[e.dir] \in Known)
      /\ ~e.known => /\ row[e.dir] = "none" /\ Parent[e.dir] # NoFolder
                     /\ row[Parent[e.dir]] \in Known
  BY CheckedEntry DEF checkFolder
<1>2. ~e.known => \A q \in Folders : Parent[q] = e.dir =>
                      row[q] \notin {"child", "bannedChild"}
  BY <1>1 DEF ParentsHold, Holds
<1>3. ~e.known => SubRows(e.dir) = {}
  BY <1>2 DEF SubRows
<1>4. Up[e.dir] \cap Cascade(SubRows(e.dir) \ SubDirs(e.dir)) = {}
  BY <1>1, ChildrenAreBelow DEF SubRows
<1>5. CheckedRows(e, SubRows(e.dir) \ SubDirs(e.dir))
  BY DEF checkFolder, CheckedRows
<1>. QED  BY <1>1, <1>2, <1>3, <1>4, <1>5 DEF checkFolder, IsHidden, Pushed

LEMMA NewStep ==
    ASSUME TypeInv, RemovalOK, ParentsHold, PendingOK, clean => ScanOK, [Next]_vars, clean'
    PROVE  NewAreNew'
<1>1. CASE reload
  BY <1>1 DEF reload, Entry, NewAreNew
<1>2. CASE clean /\ ByFile
  BY <1>2, ByFileStays DEF ScanOK, NewAreNew
<1>3. ASSUME NEW p \in Folders, reloadRoot(p) \/ ban(p) PROVE NewAreNew'
  <2>1. CASE reloadRoot(p)
    BY <2>1 DEF reloadRoot, Entry, NewAreNew
  <2>2. CASE ban(p)
    <3>1. pending' = {}
      BY <2>2, CommandWork DEF ban
    <3>. QED  BY <3>1 DEF NewAreNew
  <2>. QED  BY <1>3, <2>1, <2>2
<1>4. ASSUME clean, NEW e \in pending, checkHidden(e) \/ checkRefused(e) PROVE NewAreNew'
  <2>1. pending' \subseteq pending /\ \A q \in Folders : row'[q] \in {row[q], "none"}
    BY <1>4 DEF checkHidden, checkRefused, Destroy, db
  <2>2. \A o \in pending : o.dir \in Folders
    BY DEF TypeInv, PendingType
  <2>. QED  BY <1>4, <2>1, <2>2 DEF ScanOK, NewAreNew
<1>5. ASSUME clean, NEW e \in pending, checkFolder(e) PROVE NewAreNew'
  <2>. DEFINE P == SubRows(e.dir) \ SubDirs(e.dir)
  <2>1. CheckedRows(e, P) /\ pending' = (pending \ {e}) \cup Pushed(e.dir) /\ e.dir \in Folders
    BY <1>5, CheckFolderMeans
  <2>. HIDE DEF P
  <2>. SUFFICES ASSUME NEW o \in pending', ~o.known PROVE row'[o.dir] # "child"
    BY DEF NewAreNew
  <2>2. CASE o \in pending \ {e}
    <3>1. /\ o = [dir |-> o.dir, known |-> o.known] /\ o.dir \in Folders /\ o.known = FALSE
          /\ e = [dir |-> e.dir, known |-> e.known] /\ e.known \in BOOLEAN
      BY <2>2 DEF TypeInv, PendingType
    <3>2. row[o.dir] # "child"
      BY <1>5, <2>2 DEF ScanOK, NewAreNew
    <3>3. ~(o.dir = e.dir /\ ~e.known)
      BY <2>2, <3>1
    <3>. QED  BY <2>1, <3>1, <3>2, <3>3 DEF CheckedRows
  <2>3. CASE o \in Pushed(e.dir)
    <3>1. o.dir \in Folders /\ Parent[o.dir] = e.dir /\ o.dir \notin SubRows(e.dir)
      BY <2>3, PushedMeans
    <3>2. row[o.dir] # "child"
      BY <3>1 DEF SubRows
    <3>3. o.dir # e.dir
      BY <2>1, <3>1, UpSelf, TreeAssumption
    <3>. QED  BY <2>1, <3>1, <3>2, <3>3 DEF CheckedRows
  <2>. QED  BY <2>1, <2>2, <2>3
<1>. QED  BY <1>1, <1>2, <1>3, <1>4, <1>5, CleanSteps DEF ByFolder

LEMMA WorkFreshStep ==
    ASSUME TypeInv, RemovalOK, clean => ScanOK, [Next]_vars, clean'
    PROVE  WorkIsFresh'
<1>0. UNCHANGED disk
  BY CleanSteps
<1>1. CASE work' = NoWork
  BY <1>1 DEF WorkIsFresh, NoWork
<1>2. ASSUME clean, UNCHANGED work PROVE WorkIsFresh'
  BY <1>0, <1>2 DEF ScanOK, WorkIsFresh, disk
<1>3. CASE reload
  BY <1>1, <1>3, CommandWork DEF reload
<1>4. ASSUME clean, NEW p \in Folders, reloadRoot(p) \/ ban(p) PROVE WorkIsFresh'
  BY <1>2, <1>4 DEF reloadRoot, ban
<1>5. ASSUME clean, NEW e \in pending, checkHidden(e) \/ checkRefused(e) PROVE WorkIsFresh'
  BY <1>2, <1>5 DEF checkHidden, checkRefused
<1>6. ASSUME NEW e \in pending, checkFolder(e) PROVE WorkIsFresh'
  <2>1. work' = Listing(e.dir)
    BY <1>6 DEF checkFolder
  <2>2. /\ \A f \in DOMAIN work'.date : work'.date[f] = mtime[f]
        /\ work'.remove \cap onDisk = {} /\ work'.refresh \cup work'.add \subseteq onDisk
    BY <2>1 DEF Listing, Inside
  <2>. QED  BY <1>0, <2>2 DEF WorkIsFresh, disk
<1>7. ASSUME clean, NEW f \in Files, removeFile(f) \/ onUpdatedFile(f) \/ onDiscoveredFile(f)
      PROVE  WorkIsFresh'
  <2>0. PICK D \in SUBSET Files : work \in WorkType(D)
    BY DEF TypeInv, WorkOK, WorkType
  <2>1. /\ work'.date = work.date /\ work'.remove \subseteq work.remove
        /\ work'.refresh \subseteq work.refresh /\ work'.add \subseteq work.add
    BY <1>7, <2>0 DEF removeFile, onUpdatedFile, onDiscoveredFile, WorkType
  <2>. QED  BY <1>0, <1>7, <2>1 DEF ScanOK, WorkIsFresh, disk
<1>8. ASSUME clean, NEW j \in jobs, RestoreEntities(j) \/ Extract(j) \/ updateFsInfo(j) \/ EndsWell(j)
      PROVE  WorkIsFresh'
  BY <1>2, <1>8 DEF RestoreEntities, Extract, updateFsInfo, EndsWell, Fail, Discard, saveParserStep, db
<1>9. ASSUME clean, NEW j \in jobs, NEW type \in {"Audio", "Video"},
             createFileAndMedia(j, type) \/ refreshMedia(j, type)
      PROVE  WorkIsFresh'
  BY <1>2, <1>9 DEF createFileAndMedia, refreshMedia
<1>10. CASE clean /\ (FilesDone \/ UNCHANGED vars)
  BY <1>1, <1>2, <1>10 DEF FilesDone, vars
<1>. QED
  BY <1>3, <1>4, <1>5, <1>6, <1>7, <1>8, <1>9, <1>10, CleanSteps DEF ByFolder, ByFile

LEMMA JobsFreshStep ==
    ASSUME TypeInv, RemovalOK, clean => ScanOK, [Next]_vars, clean'
    PROVE  JobsAreFresh'
<1>0. UNCHANGED disk
  BY CleanSteps
<1>1. CASE reload /\ jobs = {}
  BY <1>1 DEF reload, JobsAreFresh
<1>. SUFFICES ASSUME clean, NEW j \in jobs' PROVE j.date = mtime[j.file] /\ j.file \in onDisk
  BY <1>0, <1>1, CleanSteps DEF JobsAreFresh, disk
<1>2. JobsAreFresh /\ WorkIsFresh
  BY DEF ScanOK
<1>3. CASE JobsOnlyLost
  BY <1>2, <1>3 DEF JobsOnlyLost, JobsAreFresh
<1>4. ~Restart
  BY DEF Restart
<1>5. ASSUME NEW f \in Files, onUpdatedFile(f) \/ onDiscoveredFile(f)
      PROVE  j.date = mtime[j.file] /\ j.file \in onDisk
  <2>0. PICK D \in SUBSET Files : work \in WorkType(D)
    BY DEF TypeInv, WorkOK, WorkType
  <2>1. f \in work.refresh \cup work.add
    BY <1>5 DEF onUpdatedFile, onDiscoveredFile
  <2>2. f \in DOMAIN work.date
    BY <2>0, <2>1 DEF WorkType
  <2>3. work.date[f] = mtime[f] /\ f \in onDisk
    BY <1>2, <2>1, <2>2 DEF WorkIsFresh
  <2>4. j \in jobs \/ j = NewJob(f, "Refresh") \/ j = NewJob(f, "Creation")
    BY <1>5 DEF onUpdatedFile, onDiscoveredFile
  <2>. QED  BY <1>2, <2>3, <2>4 DEF JobsAreFresh, NewJob
<1>6. ASSUME NEW k \in jobs PROVE ~RestoreEntities(k)
  BY <1>2, JobFields DEF RestoreEntities, JobsAreFresh, TypeInv, MtimeType, Versions, Unread
<1>7. ASSUME NEW k \in jobs, Extract(k)
      PROVE  j.date = mtime[j.file] /\ j.file \in onDisk
  <2>1. ASSUME NEW d, j = [k EXCEPT !.content = d]
        PROVE  j.file = k.file /\ j.date = k.date
    BY <2>1, JobFields DEF Job
  <2>. QED  BY <1>2, <1>7, <2>1 DEF Extract, Becomes, JobsAreFresh
<1>. QED  BY <1>3, <1>4, <1>5, <1>6, <1>7, ReadSteps

\* Rows that are there after a step that only drops and bans were there before it.
LEMMA LineWas ==
    ASSUME NEW q \in Folders, NEW r \in Up[q], Line(q, r)',
           \A x \in Path(q, r) : row'[x] \in Known => row'[x] = row[x]
    PROVE  Line(q, r)
BY PathBasics DEF Line, Known

\* A line is one of known folders, and what is below a folder of it goes with its row.
LEMMA LineCascade ==
    ASSUME NEW q \in Folders, NEW r \in Up[q], Line(q, r), NEW d \in Path(q, r)
    PROVE  q \in Cascade({d})
<1>1. d \in Up[q] /\ Path(q, d) \ {d} \subseteq Path(q, r) \ {r}
  BY PathParts
<1>. QED  BY <1>1, CascadePath DEF Line

\* A directory that shows its files, under a row that has to be checked or does too.
LEMMA ShownBelow ==
    ASSUME RowsAreShown, NEW d \in Folders, d \notin noMedia, NEW r \in Up[d],
           r = d \/ Line(Parent[d], r)
    PROVE  \/ \E o \in pending : o.known /\ o.dir # d /\ o.dir \in Path(d, r)
           \/ Path(d, r) \cap noMedia = {}
<1>1. CASE r = d
  BY <1>1, PathOfOne
<1>2. CASE r # d /\ Line(Parent[d], r)
  <2>1. /\ Parent[d] \in Folders /\ r \in Up[Parent[d]]
        /\ Path(d, r) = {d} \cup Path(Parent[d], r) /\ d \notin Path(Parent[d], r)
    BY <1>2, PathUnfolds
  <2>2. ToCheck(Parent[d], r) \/ Path(Parent[d], r) \cap noMedia = {}
    BY <1>2, <2>1 DEF RowsAreShown
  <2>. QED  BY <2>1, <2>2 DEF ToCheck
<1>. QED  BY <1>1, <1>2

\* What a line was when a directory is checked.
LEMMA CheckedLine ==
    ASSUME TypeInv, ParentsHold, PendingOK, NEW e \in pending, checkFolder(e),
           NEW q \in Folders, NEW r \in Up[q], Line(q, r)'
    PROVE  \/ Line(q, r) /\ (e.dir \in Path(q, r) => e.known)
           \/ q = e.dir /\ r # q /\ Line(Parent[q], r) /\ ~e.known
<1>. DEFINE D == e.dir
            P == SubRows(D) \ SubDirs(D)
<1>1. /\ D \in Folders /\ e.known \in BOOLEAN /\ CheckedRows(e, P)
      /\ ~e.known => /\ row[D] = "none"
                     /\ \A x \in Folders : Parent[x] = D =>
                            row[x] \notin {"child", "bannedChild"}
  BY CheckFolderMeans
<1>. HIDE DEF P
<1>2. Path(q, r) \subseteq Folders /\ r \in Path(q, r) /\ q \in Path(q, r)
  BY PathBasics
<1>3. CASE e.known \/ D \notin Path(q, r)
  <2>1. \A x \in Path(q, r) : row'[x] \in Known => row'[x] = row[x]
    BY <1>1, <1>2, <1>3 DEF CheckedRows, Known
  <2>. QED  BY <1>3, <2>1, LineWas
<1>4. CASE ~e.known /\ D \in Path(q, r)
  <2>1. row'[D] \in {"none", "child"} /\ row'[r] = "root"
    BY <1>1, <1>4 DEF CheckedRows, Line
  <2>2. r # D
    BY <2>1
  <2>3. q = D
    <3>. SUFFICES ASSUME q # D PROVE FALSE
      OBVIOUS
    <3>1. PICK y \in Path(q, r) \ {r} : y \in Folders /\ Parent[y] = D /\ y # D
      BY <1>4, PathChild
    <3>2. row'[y] = "child"
      BY <3>1 DEF Line
    <3>3. row[y] = "child"
      BY <1>1, <3>1, <3>2 DEF CheckedRows
    <3>. QED  BY <1>1, <1>4, <3>1, <3>3
  <2>4. /\ Parent[q] \in Folders /\ r \in Up[Parent[q]]
        /\ Path(q, r) = {q} \cup Path(Parent[q], r) /\ q \notin Path(Parent[q], r)
    BY <2>2, <2>3, PathUnfolds
  <2>5. Line(Parent[q], r)'
    BY <2>4 DEF Line
  <2>6. \A x \in Path(Parent[q], r) : row'[x] \in Known => row'[x] = row[x]
    BY <1>1, <1>2, <2>3, <2>4 DEF CheckedRows, Known
  <2>7. Line(Parent[q], r)
    BY <2>4, <2>5, <2>6, LineWas
  <2>. QED  BY <1>4, <2>2, <2>3, <2>7
<1>. QED  BY <1>1, <1>3, <1>4

\* When a directory of a line is checked, the next one is pushed.
LEMMA CheckedNext ==
    ASSUME TypeInv, ParentsHold, PendingOK, NEW e \in pending, checkFolder(e),
           NEW q \in Folders, NEW r \in Up[q], Line(q, r), Line(q, r)',
           e.dir \in Path(q, r), e.dir # q
    PROVE  \E n \in pending' : n.known /\ n.dir \in Path(q, r)
<1>. DEFINE D == e.dir
            P == SubRows(D) \ SubDirs(D)
<1>1. CheckedRows(e, P) /\ pending' = (pending \ {e}) \cup Pushed(D)
  BY CheckFolderMeans
<1>2. PICK y \in Path(q, r) \ {r} : y \in Folders /\ Parent[y] = D /\ y # D
  BY PathChild
<1>3. row[y] = "child" /\ row'[y] = "child"
  BY <1>2 DEF Line
<1>4. y \notin P
  <2>1. P \in SUBSET Folders
    BY DEF SubRows
  <2>. HIDE DEF P
  <2>2. P \subseteq Cascade(P)
    BY <2>1, CascadeSelf
  <2>. QED  BY <1>1, <1>2, <1>3, <2>2 DEF CheckedRows
<1>5. y \in SubRows(D) /\ y \in SubDirs(D)
  BY <1>2, <1>3, <1>4 DEF SubRows
<1>6. PICK n \in Pushed(D) : n.dir = y /\ n.known
  BY <1>5, PushedMeans
<1>. QED  BY <1>1, <1>2, <1>6

LEMMA ShownStep ==
    ASSUME TypeInv, RemovalOK, ParentsHold, PendingOK, clean => ScanOK, [Next]_vars, clean'
    PROVE  RowsAreShown'
<1>. SUFFICES ASSUME NEW q \in Folders, NEW r \in Up[q], Line(q, r)', ~ToCheck(q, r)'
              PROVE  Path(q, r) \cap noMedia = {}
  BY CleanSteps DEF RowsAreShown, disk
<1>0. Path(q, r) \subseteq Folders /\ r \in Path(q, r) /\ q \in Path(q, r) /\ r \in Folders
  BY PathBasics
<1>1. ASSUME clean, Line(q, r) PROVE ToCheck(q, r) \/ Path(q, r) \cap noMedia = {}
  BY <1>1 DEF ScanOK, RowsAreShown
<1>2. ASSUME reload PROVE FALSE
  <2>1. row'[r] = "root" /\ row' = row
    BY <1>2 DEF reload, db, Line
  <2>2. Entry(r, TRUE) \in pending'
    BY <1>0, <1>2, <2>1 DEF reload
  <2>3. Entry(r, TRUE).dir = r /\ Entry(r, TRUE).known
    BY DEF Entry
  <2>. QED  BY <1>0, <2>2, <2>3 DEF ToCheck
<1>3. CASE clean /\ ByFile
  <2>1. row' = row /\ pending' = pending
    BY <1>3, ByFileStays
  <2>. QED  BY <1>1, <1>3, <2>1 DEF Line, ToCheck
<1>4. ASSUME clean, NEW p \in Folders, reloadRoot(p) \/ ban(p)
      PROVE  Path(q, r) \cap noMedia = {}
  <2>1. pending = {}
    BY <1>4, CommandWork DEF reloadRoot, ban
  <2>2. \A x \in Folders : row'[x] \in Known => row'[x] = row[x]
    BY <1>4 DEF reloadRoot, ban, db, Known
  <2>. QED  BY <1>0, <1>1, <1>4, <2>1, <2>2, LineWas DEF ToCheck
<1>5. ASSUME clean, NEW e \in pending, checkHidden(e) \/ checkRefused(e)
      PROVE  Path(q, r) \cap noMedia = {}
  <2>1. /\ pending' = pending \ {e}
        /\ \/ row' = row
           \/ row' = [x \in Folders |-> IF x \in Cascade({e.dir}) THEN "none" ELSE row[x]]
        /\ e.known => q \notin Cascade({e.dir})
    <3>1. pending' = pending \ {e} /\ (UNCHANGED row \/ Destroy({e.dir}))
      BY <1>5 DEF checkHidden, checkRefused, db
    <3>2. e.known => Destroy({e.dir})
      BY <1>5 DEF checkHidden, checkRefused
    <3>3. row'[q] \in Known
      BY <1>0 DEF Line, Known
    <3>. QED  BY <3>1, <3>2, <3>3 DEF Destroy, Known
  <2>2. \A x \in Folders : row'[x] \in Known => row'[x] = row[x]
    BY <2>1 DEF Known
  <2>3. Line(q, r)
    BY <1>0, <2>2, LineWas
  <2>4. ~ToCheck(q, r)
    <3>. SUFFICES ASSUME NEW o \in pending, o.known, o.dir \in Path(q, r) PROVE FALSE
      BY DEF ToCheck
    <3>1. o = e
      BY <2>1 DEF ToCheck
    <3>. QED  BY <2>1, <2>3, <3>1, LineCascade
  <2>. QED  BY <1>1, <1>5, <2>3, <2>4
<1>6. ASSUME clean, NEW e \in pending, checkFolder(e)
      PROVE  Path(q, r) \cap noMedia = {}
  <2>1. /\ e.dir \in Folders /\ e.dir \notin noMedia
        /\ pending' = (pending \ {e}) \cup Pushed(e.dir)
    BY <1>6, CheckFolderMeans
  <2>2. \A o \in pending : o.known /\ o.dir \in Path(q, r) => o = e
    BY <2>1 DEF ToCheck
  <2>3. CASE q = e.dir
    <3>1. r = q \/ Line(Parent[q], r)
      <4>1. CASE Line(q, r) /\ r # q
        <5>1. Path(q, r) = {q} \cup Path(Parent[q], r) /\ q \notin Path(Parent[q], r)
          BY <4>1, PathUnfolds
        <5>. QED  BY <4>1, <5>1 DEF Line
      <4>. QED  BY <1>6, <4>1, CheckedLine
    <3>. QED  BY <1>6, <2>1, <2>2, <2>3, <3>1, ShownBelow DEF ScanOK
  <2>4. CASE q # e.dir
    <3>1. Line(q, r) /\ (e.dir \in Path(q, r) => e.known)
      BY <1>6, <2>4, CheckedLine
    <3>2. e.dir \notin Path(q, r)
      BY <1>6, <2>4, <3>1, CheckedNext DEF ToCheck
    <3>. QED  BY <1>1, <1>6, <2>2, <3>1, <3>2 DEF ToCheck
  <2>. QED  BY <2>3, <2>4
<1>. QED  BY <1>2, <1>3, <1>4, <1>5, <1>6, CleanSteps DEF ByFolder

\* What was recorded of the file of a job is what the job read, or as recent.
LEMMA DatedStep ==
    ASSUME TypeInv, RemovalOK, clean => ScanOK, [Next]_vars, clean'
    PROVE  DatedAreFresh'
<1>0. UNCHANGED disk /\ media \in [Files -> Media \cup {None}]
  BY CleanSteps DEF TypeInv, MediaOK
<1>1. CASE reload /\ jobs = {}
  BY <1>1 DEF reload, DatedAreFresh
<1>. SUFFICES ASSUME clean PROVE DatedAreFresh'
  BY <1>1, CleanSteps
<1>2. DatedAreFresh /\ JobsAreFresh /\ \A j \in jobs : j.file \in Files
  BY JobFields DEF ScanOK
<1>. DEFINE KeepsDate(f) ==
                \/ media[f] # None /\ media'[f].date = media[f].date
                \/ media'[f].date = mtime[f]
            Right(k) == Refreshes(k, media') /\ k.phase = "dated"
                            => media'[k.file].date = mtime[k.file]
<1>3. ASSUME NEW f \in Files, media'[f] # None PROVE KeepsDate(f)
  <2>1. CASE MediaOnlyLost
    BY <1>3, <2>1 DEF MediaOnlyLost
  <2>2. ASSUME NEW j \in jobs, updateFsInfo(j) PROVE KeepsDate(f)
    <3>1. j.date = mtime[j.file] /\ j.file \in Files
      BY <1>2 DEF JobsAreFresh
    <3>2. CASE Writes(j)
      <4>1. media' = [media EXCEPT ![j.file].date = j.date]
        BY <2>2, <3>2 DEF updateFsInfo
      <4>2. CASE f = j.file
        <5>1. media[f] \in Media
          BY <1>0, <3>2, <4>2 DEF Writes
        <5>2. media'[f].date = j.date
          BY <1>0, <4>1, <4>2, <5>1 DEF Media
        <5>. QED  BY <3>1, <4>2, <5>2
      <4>3. CASE f # j.file
        BY <1>0, <1>3, <4>1, <4>3
      <4>. QED  BY <4>2, <4>3
    <3>3. CASE ~Writes(j)
      BY <1>3, <2>2, <3>3 DEF updateFsInfo
    <3>. QED  BY <3>2, <3>3
  <2>3. ASSUME NEW j \in jobs, NEW type \in {"Audio", "Video"}, createFileAndMedia(j, type)
        PROVE  KeepsDate(f)
    <3>1. media' = [media EXCEPT ![j.file] = Extracted(j, type)]
      BY <2>3 DEF createFileAndMedia
    <3>2. Extracted(j, type).date = mtime[j.file] /\ j.file \in Files
      BY <1>2 DEF JobsAreFresh, Extracted
    <3>. HIDE DEF Extracted
    <3>. QED  BY <1>0, <1>3, <3>1, <3>2
  <2>4. ASSUME NEW j \in jobs, NEW type \in {"Audio", "Video"}, refreshMedia(j, type)
        PROVE  KeepsDate(f)
    <3>1. CASE Writes(j) /\ f = j.file
      <4>. DEFINE m == [[media[j.file] EXCEPT !.content = j.content] EXCEPT !.type = type]
      <4>1. media' = [media EXCEPT ![j.file] = m]
        BY <2>4, <3>1 DEF refreshMedia
      <4>2. media[f] # None /\ m.date = media[f].date
        BY <1>0, <3>1 DEF Writes, Media
      <4>. HIDE DEF m
      <4>. QED  BY <1>0, <3>1, <4>1, <4>2
    <3>2. CASE ~(Writes(j) /\ f = j.file)
      <4>1. media'[f] = media[f]
        BY <1>0, <2>4, <3>2, MediaStay DEF refreshMedia
      <4>. QED  BY <1>3, <4>1
    <3>. QED  BY <3>1, <3>2
  <2>. QED  BY <2>1, <2>2, <2>3, <2>4, MediaSteps
<1>4. ASSUME NEW j, j.file \in Files, IsDated(j) => media[j.file].date = mtime[j.file]
      PROVE  Right(j)
  BY <1>3, <1>4 DEF Refreshes, IsDated
<1>5. ASSUME NEW k, jobs' \subseteq jobs \cup {k}, Right(k) PROVE DatedAreFresh'
  BY <1>0, <1>2, <1>4, <1>5 DEF DatedAreFresh, IsDated, disk
<1>6. CASE JobsKept
  <2>1. ASSUME NEW j \in jobs' PROVE Right(j)
    <3>1. PICK k \in jobs : /\ j.file = k.file /\ j.kind = k.kind /\ j.phase = k.phase
                            /\ ~j.stale => ~k.stale
      BY <1>6 DEF JobsKept
    <3>2. Right(k)
      BY <1>2, <1>4 DEF DatedAreFresh
    <3>. QED  BY <3>1, <3>2 DEF Refreshes
  <2>. QED  BY <1>0, <2>1 DEF DatedAreFresh, IsDated, disk
<1>7. ~Restart
  BY DEF Restart
<1>8. ASSUME NEW f \in Files, onUpdatedFile(f) \/ onDiscoveredFile(f) PROVE DatedAreFresh'
  <2>1. PICK kind \in {"Creation", "Refresh"} : jobs' \subseteq jobs \cup {NewJob(f, kind)}
    BY <1>8 DEF onUpdatedFile, onDiscoveredFile
  <2>. DEFINE n == NewJob(f, kind)
  <2>2. n.phase = "todo" /\ jobs' \subseteq jobs \cup {n}
    BY <2>1 DEF NewJob
  <2>. HIDE DEF n
  <2>. QED  BY <1>5, <2>2
<1>9. ASSUME NEW j \in jobs PROVE ~RestoreEntities(j)
  BY <1>2, JobFields DEF RestoreEntities, JobsAreFresh, TypeInv, MtimeType, Versions, Unread
<1>10. ASSUME NEW j \in jobs, Extract(j) PROVE DatedAreFresh'
  <2>. DEFINE k == [j EXCEPT !.content = mtime[j.file]]
  <2>1. k.phase = "todo"
    BY <1>10, JobFields DEF Extract, Job, TypeInv, JobsType, JobsRead
  <2>2. jobs' \subseteq jobs \cup {k}
    BY <1>10 DEF Extract, Becomes
  <2>. HIDE DEF k
  <2>. QED  BY <1>5, <2>1, <2>2
<1>11. ASSUME NEW j \in jobs, updateFsInfo(j) PROVE DatedAreFresh'
  <2>. DEFINE k == [j EXCEPT !.phase = "dated"]
  <2>1. Moved(j, k, "dated")
    BY <1>11, PhaseMoves DEF updateFsInfo
  <2>. HIDE DEF k
  <2>2. jobs' \subseteq jobs \cup {k} /\ k.file = j.file /\ k.stale = j.stale
    BY <2>1 DEF Moved
  <2>3. j.date = mtime[j.file] /\ j.file \in Files
    BY <1>2 DEF JobsAreFresh
  <2>4. CASE Writes(j)
    <3>1. media' = [media EXCEPT ![j.file].date = j.date]
      BY <1>11, <2>4 DEF updateFsInfo
    <3>2. media'[j.file].date = j.date
      BY <1>0, <2>3, <2>4, <3>1 DEF Writes, Media
    <3>. QED  BY <1>5, <2>2, <2>3, <3>2
  <2>5. CASE ~Writes(j)
    <3>1. UNCHANGED media
      BY <1>11, <2>5 DEF updateFsInfo
    <3>2. ~Refreshes(k, media')
      BY <2>2, <2>5, <3>1 DEF Refreshes, Writes
    <3>. QED  BY <1>5, <2>2, <3>2
  <2>. QED  BY <2>4, <2>5
<1>12. ASSUME NEW j \in jobs, NEW type \in {"Audio", "Video"},
              createFileAndMedia(j, type) \/ refreshMedia(j, type)
       PROVE  DatedAreFresh'
  <2>1. CASE createFileAndMedia(j, type)
    <3>. DEFINE k == [j EXCEPT !.phase = "dated"]
    <3>1. Moved(j, k, "dated") /\ j.kind = "Creation"
      BY <2>1, PhaseMoves DEF createFileAndMedia
    <3>. HIDE DEF k
    <3>2. jobs' \subseteq jobs \cup {k} /\ ~Refreshes(k, media')
      BY <3>1 DEF Moved, Refreshes
    <3>. QED  BY <1>5, <3>2
  <2>2. CASE refreshMedia(j, type)
    <3>. DEFINE k == [j EXCEPT !.phase = "stored"]
    <3>1. Moved(j, k, "stored")
      BY <2>2, PhaseMoves DEF refreshMedia
    <3>. HIDE DEF k
    <3>2. jobs' \subseteq jobs \cup {k} /\ k.phase # "dated"
      BY <3>1 DEF Moved
    <3>. QED  BY <1>5, <3>2
  <2>. QED  BY <1>12, <2>1, <2>2
<1>. QED  BY <1>6, <1>7, <1>8, <1>9, <1>10, <1>11, <1>12, JobSteps

\* A refresh that goes on is still to record a date.
LEMMA UndatedOrphan ==
    ASSUME TypeInv, NEW F, jobs' = Orphan(F), NEW f \in Files, f \notin F, IsUndated(f)
    PROVE  IsUndated(f)'
<1>1. PICK j \in jobs : Undated(j, f)
  BY DEF IsUndated
<1>. DEFINE k == [j EXCEPT !.stale = @ \/ j.file \in F]
<1>2. k \in jobs'
  BY DEF Orphan
<1>3. Undated(k, f)
  BY <1>1, JobFields DEF Undated, Job
<1>. HIDE DEF k
<1>. QED  BY <1>2, <1>3 DEF IsUndated

\* The content that is left when rows are lost.
LEMMA LoseContentKeeps ==
    ASSUME TypeInv, NEW G, LoseContent(G), NEW f \in Files, media'[f] # None
    PROVE  /\ media'[f] = media[f] /\ FolderOf[f] \notin G
           /\ IsUndated(f) => IsUndated(f)'
<1>1. media'[f] = media[f] /\ f \notin Inside(G) /\ jobs' = Orphan(Inside(G))
  BY DEF LoseContent
<1>. QED  BY <1>1, UndatedOrphan DEF Inside

\* What is left to do is kept, or done.
LEMMA FreshKept ==
    ASSUME NEW f \in Files, IsFresh(f), UNCHANGED disk, media'[f].date = media[f].date,
           f \in work.remove => f \in work'.remove,
           f \in work.refresh =>
               f \in work'.refresh \/ IsUndated(f)' \/ media[f].date = mtime[f],
           IsUndated(f) => IsUndated(f)' \/ media[f].date = mtime[f]
    PROVE  IsFresh(f)'
BY DEF IsFresh, disk

LEMMA MediaFreshByFile ==
    ASSUME TypeInv, JobsAreFresh, DatedAreFresh, WorkIsFresh, ByFile, UNCHANGED disk,
           NEW f \in Files, media'[f] # None, media[f] # None => IsFresh(f)
    PROVE  IsFresh(f)'
<1>0. media \in [Files -> Media \cup {None}] /\ \A j \in jobs : j.file \in Files
  BY JobFields DEF TypeInv, MediaOK
<1>1. CASE UNCHANGED vars
  BY <1>1 DEF vars, db, IsFresh, IsUndated, disk
<1>2. CASE FilesDone
  <2>1. media' = media /\ jobs' = jobs /\ work.remove = {} /\ work.refresh = {}
    BY <1>2 DEF FilesDone, db
  <2>. QED  BY <2>1, FreshKept DEF IsUndated
<1>3. ASSUME NEW h \in Files, removeFile(h) PROVE IsFresh(f)'
  <2>0. PICK D \in SUBSET Files : work \in WorkType(D)
    BY DEF TypeInv, WorkOK, WorkType
  <2>1. /\ media' = [media EXCEPT ![h] = None] /\ jobs' = Orphan({h})
        /\ work'.remove = work.remove \ {h} /\ work'.refresh = work.refresh
    BY <1>3, <2>0 DEF removeFile, WorkType
  <2>2. f # h /\ media'[f] = media[f]
    BY <1>0, <2>1
  <2>3. IsUndated(f) => IsUndated(f)'
    BY <2>1, <2>2, UndatedOrphan
  <2>. QED  BY <2>1, <2>2, <2>3, FreshKept
<1>4. ASSUME NEW h \in Files, onUpdatedFile(h) PROVE IsFresh(f)'
  <2>0. PICK D \in SUBSET Files : work \in WorkType(D)
    BY DEF TypeInv, WorkOK, WorkType
  <2>1. /\ media' = media /\ jobs \subseteq jobs'
        /\ work'.remove = work.remove /\ work'.refresh = work.refresh \ {h}
        /\ media[h] # None /\ ~IsRefreshing(h) => NewJob(h, "Refresh") \in jobs'
    BY <1>4, <2>0 DEF onUpdatedFile, WorkType, db
  <2>2. IsUndated(f) => IsUndated(f)'
    BY <2>1 DEF IsUndated
  <2>3. ~IsRefreshing(h) /\ f = h => IsUndated(f)'
    <3>1. Undated(NewJob(h, "Refresh"), h)
      BY DEF NewJob, Undated
    <3>. QED  BY <2>1, <3>1 DEF IsUndated
  <2>4. IsRefreshing(h) /\ f = h => IsUndated(f) \/ media[f].date = mtime[f]
    BY <2>1 DEF IsRefreshing, IsUndated, Undated, DatedAreFresh, IsDated, Refreshes
  <2>. QED  BY <2>1, <2>2, <2>3, <2>4, FreshKept
<1>5. ASSUME NEW h \in Files, onDiscoveredFile(h) PROVE IsFresh(f)'
  <2>0. PICK D \in SUBSET Files : work \in WorkType(D)
    BY DEF TypeInv, WorkOK, WorkType
  <2>1. /\ media' = media /\ jobs \subseteq jobs'
        /\ work'.remove = work.remove /\ work'.refresh = work.refresh
    BY <1>5, <2>0 DEF onDiscoveredFile, WorkType
  <2>2. IsUndated(f) => IsUndated(f)'
    BY <2>1 DEF IsUndated
  <2>. QED  BY <2>1, <2>2, FreshKept
<1>6. ASSUME NEW j \in jobs PROVE ~RestoreEntities(j)
  BY JobFields DEF RestoreEntities, JobsAreFresh, TypeInv, MtimeType, Versions, Unread
\* A job goes or moves on.
<1>7. ASSUME NEW j \in jobs, jobs \ {j} \subseteq jobs', UNCHANGED work,
             media'[f].date = media[f].date, media[f] # None,
             Undated(j, f) => IsUndated(f)'
      PROVE  IsFresh(f)'
  <2>1. IsUndated(f) => IsUndated(f)'
    BY <1>7 DEF IsUndated
  <2>. QED  BY <1>7, <2>1, FreshKept
<1>8. ASSUME NEW j \in jobs, Extract(j) PROVE IsFresh(f)'
  <2>. DEFINE k == [j EXCEPT !.content = mtime[j.file]]
  <2>1. UNCHANGED media /\ UNCHANGED work /\ jobs' = (jobs \ {j}) \cup {k}
    BY <1>8 DEF Extract, Becomes, db
  <2>2. Undated(j, f) => Undated(k, f)
    BY JobFields DEF Job, Undated
  <2>. HIDE DEF k
  <2>3. Undated(j, f) => IsUndated(f)'
    BY <2>1, <2>2 DEF IsUndated
  <2>. QED  BY <1>7, <2>1, <2>3
<1>9. ASSUME NEW j \in jobs, EndsWell(j) PROVE IsFresh(f)'
  <2>1. UNCHANGED media /\ UNCHANGED work /\ jobs' = jobs \ {j} /\ ~Undated(j, f)
    BY <1>9 DEF EndsWell, Discard, saveParserStep, Fail, Undated, db
  <2>. QED  BY <1>7, <2>1
\* The date of the file is recorded.
<1>10. ASSUME NEW j \in jobs, f = j.file, media'[f].date = j.date PROVE IsFresh(f)'
  <2>1. j.date = mtime[f] /\ f \in onDisk
    BY <1>10 DEF JobsAreFresh
  <2>. QED  BY <1>10, <2>1 DEF IsFresh, disk
<1>11. ASSUME NEW j \in jobs, updateFsInfo(j) PROVE IsFresh(f)'
  <2>1. Moved(j, [j EXCEPT !.phase = "dated"], "dated") /\ UNCHANGED work
    BY <1>11, PhaseMoves DEF updateFsInfo
  <2>2. CASE f = j.file /\ Writes(j)
    <3>1. media' = [media EXCEPT ![j.file].date = j.date]
      BY <1>11, <2>2 DEF updateFsInfo
    <3>2. media'[f].date = j.date
      BY <1>0, <2>2, <3>1 DEF Writes, Media
    <3>. QED  BY <1>10, <2>2, <3>2
  <2>3. CASE f # j.file \/ ~Writes(j)
    <3>1. media'[f] = media[f]
      BY <1>0, <1>11, <2>3 DEF updateFsInfo
    <3>2. ~Undated(j, f)
      BY <2>3, <3>1 DEF Undated, Writes
    <3>. QED  BY <1>7, <2>1, <3>1, <3>2 DEF Moved
  <2>. QED  BY <2>2, <2>3
<1>12. ASSUME NEW j \in jobs, NEW type \in {"Audio", "Video"}, createFileAndMedia(j, type)
       PROVE  IsFresh(f)'
  <2>1. /\ UNCHANGED work /\ media' = [media EXCEPT ![j.file] = Extracted(j, type)]
        /\ Moved(j, [j EXCEPT !.phase = "dated"], "dated")
    BY <1>12, PhaseMoves DEF createFileAndMedia
  <2>2. CASE f = j.file
    <3>1. media'[f].date = j.date
      BY <1>0, <2>1, <2>2 DEF Extracted
    <3>. QED  BY <1>10, <2>2, <3>1
  <2>3. CASE f # j.file
    <3>1. media'[f] = media[f] /\ ~Undated(j, f)
      BY <1>0, <2>1, <2>3 DEF Undated
    <3>. QED  BY <1>7, <2>1, <3>1 DEF Moved
  <2>. QED  BY <2>2, <2>3
<1>13. ASSUME NEW j \in jobs, NEW type \in {"Audio", "Video"}, refreshMedia(j, type)
       PROVE  IsFresh(f)'
  <2>. DEFINE k == [j EXCEPT !.phase = "stored"]
  <2>1. Moved(j, k, "stored") /\ UNCHANGED work
    BY <1>13, PhaseMoves DEF refreshMedia
  <2>. HIDE DEF k
  <2>2. Undated(j, f) => IsUndated(f)'
    BY <2>1 DEF Moved, Undated, IsUndated
  <2>3. media[f] # None /\ media'[f].date = media[f].date
    <3>1. CASE Writes(j) /\ f = j.file
      <4>. DEFINE m == [[media[j.file] EXCEPT !.content = j.content] EXCEPT !.type = type]
      <4>1. media' = [media EXCEPT ![j.file] = m]
        BY <1>13, <3>1 DEF refreshMedia
      <4>2. media[f] # None /\ m.date = media[f].date
        BY <1>0, <3>1 DEF Writes, Media
      <4>. HIDE DEF m
      <4>. QED  BY <1>0, <3>1, <4>1, <4>2
    <3>2. CASE ~(Writes(j) /\ f = j.file)
      <4>1. media'[f] = media[f]
        BY <1>0, <1>13, <3>2, MediaStay DEF refreshMedia
      <4>. QED  BY <4>1
    <3>. QED  BY <3>1, <3>2
  <2>. QED  BY <1>7, <2>1, <2>2, <2>3 DEF Moved
<1>. QED
  BY <1>1, <1>2, <1>3, <1>4, <1>5, <1>6, <1>8, <1>9, <1>11, <1>12, <1>13 DEF ByFile

LEMMA MediaFreshStep ==
    ASSUME TypeInv, RemovalOK, RowsHang, PendingOK, clean => ScanOK, [Next]_vars, clean'
    PROVE  MediaAreFresh'
<1>. SUFFICES ASSUME NEW f \in Files, NEW r \in Up[FolderOf[f]], media'[f] # None,
                     Line(FolderOf[f], r)', ~ToCheck(FolderOf[f], r)'
              PROVE  IsFresh(f)'
  BY DEF MediaAreFresh
<1>. DEFINE g == FolderOf[f]
<1>0. /\ g \in Folders /\ Path(g, r) \subseteq Folders
      /\ r \in Path(g, r) /\ g \in Path(g, r) /\ r \in Folders
      /\ ParentsHold /\ UNCHANGED disk
  BY PathBasics, TreeAssumption, CleanSteps DEF RowsHang
<1>1. ASSUME clean, Line(g, r), media[f] # None PROVE ToCheck(g, r) \/ IsFresh(f)
  BY <1>1 DEF ScanOK, MediaAreFresh
<1>2. ASSUME reload PROVE FALSE
  <2>1. row'[r] = "root" /\ row' = row
    BY <1>2 DEF reload, db, Line
  <2>2. Entry(r, TRUE) \in pending'
    BY <1>0, <1>2, <2>1 DEF reload
  <2>3. Entry(r, TRUE).dir = r /\ Entry(r, TRUE).known
    BY DEF Entry
  <2>. QED  BY <1>0, <2>2, <2>3 DEF ToCheck
<1>3. CASE clean /\ ByFile
  <2>1. row' = row /\ pending' = pending
    BY <1>3, ByFileStays
  <2>2. media[f] # None => IsFresh(f)
    BY <1>1, <1>3, <2>1 DEF Line, ToCheck
  <2>. QED  BY <1>0, <1>3, <2>2, MediaFreshByFile DEF ScanOK
<1>4. ASSUME clean, NEW p \in Folders, reloadRoot(p) \/ ban(p) PROVE IsFresh(f)'
  <2>1. pending = {} /\ UNCHANGED work
    BY <1>4, CommandWork DEF reloadRoot, ban
  <2>2. \A x \in Folders : row'[x] \in Known => row'[x] = row[x]
    BY <1>4 DEF reloadRoot, ban, db, Known
  <2>3. media'[f] = media[f] /\ (IsUndated(f) => IsUndated(f)')
    <3>1. CASE reloadRoot(p)
      BY <3>1 DEF reloadRoot, db, IsUndated
    <3>2. CASE ban(p)
      <4>1. \E G : LoseContent(G)
        BY <3>2 DEF ban
      <4>. QED  BY <4>1, LoseContentKeeps
    <3>. QED  BY <1>4, <3>1, <3>2
  <2>4. IsFresh(f)
    BY <1>0, <1>1, <1>4, <2>1, <2>2, <2>3, LineWas DEF ToCheck
  <2>. QED  BY <1>0, <2>1, <2>3, <2>4, FreshKept
<1>5. ASSUME clean, NEW e \in pending, checkHidden(e) \/ checkRefused(e) PROVE IsFresh(f)'
  <2>1. /\ pending' = pending \ {e} /\ UNCHANGED work
        /\ \/ UNCHANGED <<row, media, jobs>> /\ ~e.known
           \/ Destroy({e.dir})
    BY <1>5 DEF checkHidden, checkRefused, db
  <2>2. /\ media'[f] = media[f] /\ (IsUndated(f) => IsUndated(f)')
        /\ e.known => g \notin Cascade({e.dir})
    <3>1. CASE UNCHANGED <<row, media, jobs>> /\ ~e.known
      BY <3>1 DEF IsUndated
    <3>2. CASE Destroy({e.dir})
      <4>1. LoseContent(Cascade({e.dir}))
        BY <3>2 DEF Destroy
      <4>. QED  BY <4>1, LoseContentKeeps
    <3>. QED  BY <2>1, <3>1, <3>2
  <2>3. \A x \in Folders : row'[x] \in Known => row'[x] = row[x]
    BY <2>1 DEF Destroy, Known
  <2>4. Line(g, r)
    BY <1>0, <2>3, LineWas
  <2>5. ~ToCheck(g, r)
    <3>. SUFFICES ASSUME NEW o \in pending, o.known, o.dir \in Path(g, r) PROVE FALSE
      BY DEF ToCheck
    <3>1. o = e
      BY <2>1 DEF ToCheck
    <3>. QED  BY <1>0, <2>2, <2>4, <3>1, LineCascade
  <2>. QED  BY <1>0, <1>1, <1>5, <2>1, <2>2, <2>4, <2>5, FreshKept
<1>6. ASSUME clean, NEW e \in pending, checkFolder(e) PROVE IsFresh(f)'
  <2>. DEFINE P == SubRows(e.dir) \ SubDirs(e.dir)
  <2>1. /\ e.dir \in Folders /\ CheckedRows(e, P) /\ work = NoWork /\ work' = Listing(e.dir)
        /\ ~e.known => row[e.dir] = "none"
        /\ pending' = (pending \ {e}) \cup Pushed(e.dir)
    BY <1>0, <1>6, CheckFolderMeans
  <2>. HIDE DEF P
  <2>2. media'[f] = media[f] /\ (IsUndated(f) => IsUndated(f)')
    <3>1. LoseContent(Cascade(P))
      BY <2>1 DEF CheckedRows
    <3>. QED  BY <3>1, LoseContentKeeps
  <2>3. CASE g = e.dir
    <3>1. f \in Inside({e.dir})
      BY <2>3 DEF Inside
    <3>2. \/ f \in work'.remove
          \/ f \in onDisk /\ (f \in work'.refresh \/ media[f].date = mtime[f])
      BY <2>1, <2>2, <3>1 DEF Listing
    <3>. QED  BY <1>0, <2>2, <3>2 DEF IsFresh, disk
  <2>4. CASE g # e.dir
    <3>1. Line(g, r)
      BY <1>0, <1>6, <2>4, CheckedLine
    <3>2. e.dir \notin Path(g, r)
      BY <1>0, <1>6, <2>4, <3>1, CheckedNext DEF ToCheck
    <3>3. ~ToCheck(g, r)
      BY <2>1, <3>2 DEF ToCheck
    <3>4. IsFresh(f)
      BY <1>1, <1>6, <2>2, <3>1, <3>3
    <3>5. work.remove = {} /\ work.refresh = {}
      BY <2>1 DEF NoWork
    <3>. QED  BY <1>0, <2>2, <3>4, <3>5, FreshKept
  <2>. QED  BY <2>3, <2>4
<1>. QED  BY <1>2, <1>3, <1>4, <1>5, <1>6, CleanSteps DEF ByFolder

\* A path that nothing hides after rows were lost was open, and lost none, when each row
\* that was deleted is off the path.
LEMMA OpenWas ==
    ASSUME NEW q \in Folders, NEW r \in Up[q], Open(q, r)', UNCHANGED disk,
           NEW P, P \cap Path(q, r) = {},
           \A x \in Path(q, r) :
               x \notin Cascade(P) => row'[x] = row[x] \/ row[x] = "none",
           \A x \in Folders : row'[x] = "root" => row[x] = "root"
    PROVE  Open(q, r) /\ q \notin Cascade(P)
<1>1. r \in Folders /\ q \in Path(q, r)
  BY PathBasics
<1>2. row[r] = "root"
  BY <1>1 DEF Open
<1>3. Path(q, r) \cap Cascade(P) = {}
  BY <1>2, CascadeBeside
<1>4. \A x \in Path(q, r) : row[x] \notin Banned
  BY <1>3 DEF Open, Banned
<1>. QED  BY <1>1, <1>2, <1>3, <1>4 DEF Open, disk

\* The folders of the path of a file of the disk are on the disk.
LEMMA PathOnDisk ==
    ASSUME DiskIsATree, NEW f \in Files \cap onDisk, NEW r \in Up[FolderOf[f]]
    PROVE  Path(FolderOf[f], r) \subseteq onDisk
<1>1. FolderOf[f] \in Folders \cap onDisk
  BY TreeAssumption DEF DiskIsATree
<1>. QED  BY <1>1, PathBasics DEF DiskIsATree

\* Nothing that is done for the files and their jobs is lost.
LEMMA FoundByFile ==
    ASSUME TypeInv, TasksOK, WorkIsFresh, JobsAreFresh, ByFile,
           NEW f \in Files, f \in onDisk, IsFound(f), HasFile(f) => media[f] # None
    PROVE  IsFound(f)'
<1>0. /\ media \in [Files -> Media \cup {None}]
      /\ tasks \in [Files -> {"none", "todo", "created", "done"}]
      /\ \A j \in jobs : j.file \in Files /\ Follows(j, tasks)
  BY JobFields DEF TypeInv, MediaOK, TasksType, TasksOK
<1>1. CASE UNCHANGED vars
  BY <1>1 DEF vars, db, IsFound
<1>2. CASE FilesDone
  <2>1. media' = media /\ tasks' = tasks /\ work.add = {}
    BY <1>2 DEF FilesDone, db
  <2>. QED  BY <2>1 DEF IsFound
<1>3. ASSUME NEW h \in Files, removeFile(h) PROVE IsFound(f)'
  <2>0. PICK D \in SUBSET Files : work \in WorkType(D)
    BY DEF TypeInv, WorkOK, WorkType
  <2>1. /\ media' = [media EXCEPT ![h] = None] /\ tasks' = [tasks EXCEPT ![h] = "none"]
        /\ work'.add = work.add /\ h \in work.remove
    BY <1>3, <2>0 DEF removeFile, WorkType
  <2>2. f # h
    BY <2>1 DEF WorkIsFresh
  <2>. QED  BY <1>0, <2>1, <2>2 DEF IsFound
<1>4. ASSUME NEW h \in Files, onUpdatedFile(h) PROVE IsFound(f)'
  <2>0. PICK D \in SUBSET Files : work \in WorkType(D)
    BY DEF TypeInv, WorkOK, WorkType
  <2>1. media' = media /\ tasks' = tasks /\ work'.add = work.add
    BY <1>4, <2>0 DEF onUpdatedFile, WorkType, db
  <2>. QED  BY <2>1 DEF IsFound
<1>5. ASSUME NEW h \in Files, onDiscoveredFile(h) PROVE IsFound(f)'
  <2>0. PICK D \in SUBSET Files : work \in WorkType(D)
    BY DEF TypeInv, WorkOK, WorkType
  <2>1. /\ media' = media /\ work'.add = work.add \ {h}
        /\ IF tasks[h] # "none" THEN tasks' = tasks ELSE tasks' = [tasks EXCEPT ![h] = "todo"]
    BY <1>5, <2>0 DEF onDiscoveredFile, WorkType
  <2>. QED  BY <1>0, <2>1 DEF IsFound, HasFile
<1>6. ASSUME NEW j \in jobs PROVE ~RestoreEntities(j)
  BY JobFields DEF RestoreEntities, JobsAreFresh, TypeInv, MtimeType, Versions, Unread
<1>7. ASSUME NEW j \in jobs, Extract(j) PROVE IsFound(f)'
  BY <1>7 DEF Extract, db, IsFound
<1>8. ASSUME NEW j \in jobs, EndsWell(j) PROVE IsFound(f)'
  <2>1. UNCHANGED <<media, work>>
    BY <1>8 DEF EndsWell, Discard, saveParserStep, Fail, db
  <2>2. CASE UNCHANGED tasks
    BY <2>1, <2>2 DEF IsFound
  <2>3. CASE Discard(j) /\ tasks' # tasks
    <3>1. tasks' = [tasks EXCEPT ![j.file] = "none"] /\ media[j.file] # None
      BY <2>3 DEF Discard
    <3>. QED  BY <1>0, <2>1, <3>1 DEF IsFound
  <2>4. CASE saveParserStep(j) /\ tasks' # tasks
    <3>1. /\ tasks' = [tasks EXCEPT ![j.file] = "done"]
          /\ j.kind = "Creation" /\ ~j.stale /\ j.phase = "dated"
      BY <2>4 DEF saveParserStep
    <3>2. HasFile(j.file)
      BY <1>0, <3>1 DEF Follows, CreationRow, HasFile
    <3>. QED  BY <1>0, <2>1, <3>1, <3>2 DEF IsFound
  <2>. QED  BY <1>8, <2>2, <2>3, <2>4 DEF EndsWell, Fail, db
<1>9. ASSUME NEW j \in jobs, NEW type \in {"Audio", "Video"},
             updateFsInfo(j) \/ createFileAndMedia(j, type) \/ refreshMedia(j, type)
      PROVE  IsFound(f)'
  <2>1. /\ UNCHANGED work
        /\ tasks' = tasks \/ (createFileAndMedia(j, type)
                              /\ tasks' = [tasks EXCEPT ![j.file] = "created"])
    BY <1>9 DEF updateFsInfo, createFileAndMedia, refreshMedia
  <2>2. media[f] # None => media'[f] # None
    BY <1>9, MediaStay
  <2>3. createFileAndMedia(j, type) => media'[j.file] # None
    <3>1. Extracted(j, type).type = type /\ None.type = "none"
      BY DEF Extracted, None
    <3>2. Extracted(j, type) # None
      BY <3>1
    <3>. QED  BY <1>0, <3>2 DEF createFileAndMedia
  <2>. QED  BY <1>0, <2>1, <2>2, <2>3 DEF IsFound
<1>10. "Audio" \in {"Audio", "Video"}
  OBVIOUS
<1>. QED  BY <1>1, <1>2, <1>3, <1>4, <1>5, <1>6, <1>7, <1>8, <1>9, <1>10 DEF ByFile

\* A file that a removal left external is so until it is found.
LEMMA CutShortByFile ==
    ASSUME TypeInv, TasksOK, WorkIsFresh, JobsAreFresh, ByFile,
           NEW f \in Files, f \in onDisk, WasCutShort(f), ~WasCutShort(f)'
    PROVE  IsFound(f)'
<1>0. /\ media \in [Files -> Media \cup {None}] /\ HasFile(f)
      /\ tasks \in [Files -> {"none", "todo", "created", "done"}]
      /\ \A j \in jobs : j.file \in Files /\ Follows(j, tasks)
  BY JobFields DEF TypeInv, MediaOK, TasksType, TasksOK, WasCutShort, HasFile
<1>1. UNCHANGED <<ext, cutShort>> => tasks'[f] # tasks[f] /\ ~HasFile(f)'
  BY DEF WasCutShort, HasFile
<1>2. CASE UNCHANGED vars \/ FilesDone
  BY <1>1, <1>2 DEF FilesDone, vars, db
<1>3. ASSUME NEW h \in Files, removeFile(h) PROVE FALSE
  <2>1. UNCHANGED <<ext, cutShort>> /\ tasks' = [tasks EXCEPT ![h] = "none"] /\ h \in work.remove
    BY <1>3 DEF removeFile
  <2>. QED  BY <1>0, <1>1, <2>1 DEF WorkIsFresh
<1>4. ASSUME NEW h \in Files, onUpdatedFile(h) PROVE FALSE
  BY <1>1, <1>4 DEF onUpdatedFile, db
<1>5. ASSUME NEW h \in Files, onDiscoveredFile(h) PROVE FALSE
  <2>1. /\ UNCHANGED <<ext, cutShort>>
        /\ IF tasks[h] # "none" THEN tasks' = tasks ELSE tasks' = [tasks EXCEPT ![h] = "todo"]
    BY <1>5 DEF onDiscoveredFile
  <2>. QED  BY <1>0, <1>1, <2>1 DEF HasFile
<1>6. ASSUME NEW j \in jobs PROVE ~RestoreEntities(j)
  BY JobFields DEF RestoreEntities, JobsAreFresh, TypeInv, MtimeType, Versions, Unread
<1>7. ASSUME NEW j \in jobs, Extract(j) PROVE FALSE
  BY <1>1, <1>7 DEF Extract, db
<1>8. ASSUME NEW j \in jobs, EndsWell(j) PROVE IsFound(f)'
  <2>1. UNCHANGED <<ext, cutShort, media>>
    BY <1>8 DEF EndsWell, Discard, saveParserStep, Fail, db
  <2>2. CASE UNCHANGED tasks
    BY <1>1, <2>1, <2>2
  <2>3. CASE Discard(j) /\ tasks' # tasks
    <3>1. tasks' = [tasks EXCEPT ![j.file] = "none"] /\ media[j.file] # None
      BY <2>3 DEF Discard
    <3>2. f = j.file
      BY <1>0, <1>1, <2>1, <3>1
    <3>. QED  BY <2>1, <3>1, <3>2 DEF IsFound
  <2>4. CASE saveParserStep(j) /\ tasks' # tasks
    <3>1. tasks' = [tasks EXCEPT ![j.file] = "done"]
      BY <2>4 DEF saveParserStep
    <3>. QED  BY <1>0, <1>1, <2>1, <3>1 DEF HasFile
  <2>. QED  BY <1>8, <2>2, <2>3, <2>4 DEF EndsWell, Fail, db
<1>9. ASSUME NEW j \in jobs, NEW type \in {"Audio", "Video"}, createFileAndMedia(j, type)
      PROVE  FALSE
  <2>1. /\ ext' = ext \ {j.file} /\ UNCHANGED cutShort
        /\ tasks' = [tasks EXCEPT ![j.file] = "created"]
        /\ j.kind = "Creation" /\ ~j.stale /\ ~j.again /\ j.phase = "todo"
    BY <1>9 DEF createFileAndMedia, CreatedOrOverridden
  <2>2. tasks[j.file] = "todo"
    BY <1>0, <2>1 DEF Follows, CreationRow
  <2>3. f # j.file
    BY <1>0, <2>2 DEF HasFile
  <2>. QED  BY <1>0, <2>1, <2>3 DEF WasCutShort
<1>10. ASSUME NEW j \in jobs, NEW type \in {"Audio", "Video"},
              updateFsInfo(j) \/ refreshMedia(j, type)
       PROVE  FALSE
  BY <1>1, <1>10 DEF updateFsInfo, refreshMedia
<1>11. "Audio" \in {"Audio", "Video"}
  OBVIOUS
<1>. QED
  BY <1>2, <1>3, <1>4, <1>5, <1>6, <1>7, <1>8, <1>9, <1>10, <1>11 DEF ByFile

\* Below a folder that was removed from a root, nothing is open.
LEMMA RemovedIsNotOpen ==
    ASSUME NEW q \in Folders, NEW r \in Up[q], Open(q, r),
           NEW b \in Up[q], row[b] = "bannedChild", q \in Cascade({b})
    PROVE  FALSE
<1>1. b \notin Path(q, r)
  BY DEF Open, Banned
<1>2. b \in Up[r] /\ b # r /\ r \in Folders
  BY <1>1, PathOrAbove, PathBasics
<1>3. r \notin Up[b]
  BY <1>2, UpSelf, UpAntisymmetric
<1>4. row[r] = "root"
  BY DEF Open
<1>. QED  BY <1>3, <1>4 DEF Cascade

LEMMA FoundStep ==
    ASSUME TypeInv, TasksOK, RemovalOK, DiskIsATree, RowsHang, PendingOK, DoneOK,
           clean => ScanOK, [Next]_vars, clean'
    PROVE  FilesAreFound'
<1>. SUFFICES ASSUME NEW f \in Files, f \in onDisk, ~WasCutShort(f)', NEW r \in Up[FolderOf[f]],
                     Open(FolderOf[f], r)', ~ToFind(FolderOf[f], r)'
              PROVE  IsFound(f)'
  BY CleanSteps DEF FilesAreFound, disk
<1>. DEFINE g == FolderOf[f]
<1>0. /\ g \in Folders /\ Path(g, r) \subseteq Folders
      /\ r \in Path(g, r) /\ g \in Path(g, r) /\ r \in Folders
      /\ ParentsHold /\ UNCHANGED disk /\ Path(g, r) \subseteq onDisk
  BY PathBasics, PathOnDisk, TreeAssumption, CleanSteps DEF RowsHang
<1>1. ASSUME clean, NEW s \in Up[g], Open(g, s), ~ToFind(g, s), ~WasCutShort(f)
      PROVE  IsFound(f)
  BY <1>1 DEF ScanOK, FilesAreFound
<1>9. ASSUME UNCHANGED <<ext, cutShort>>, tasks'[f] = tasks[f] PROVE ~WasCutShort(f)
  BY <1>9 DEF WasCutShort
<1>2. ASSUME reload PROVE FALSE
  <2>1. row'[r] = "root" /\ row' = row
    BY <1>2 DEF reload, db, Open
  <2>2. Entry(r, TRUE) \in pending'
    BY <1>0, <1>2, <2>1 DEF reload
  <2>3. Entry(r, TRUE).dir = r /\ Entry(r, TRUE).known
    BY DEF Entry
  <2>. QED  BY <1>0, <2>2, <2>3 DEF ToFind
<1>3. CASE clean /\ ByFile
  <2>1. row' = row /\ pending' = pending
    BY <1>3, ByFileStays
  <2>2. Open(g, r) /\ ~ToFind(g, r)
    BY <1>0, <2>1 DEF Open, ToFind, disk
  <2>3. CASE WasCutShort(f)
    BY <1>3, <2>3, CutShortByFile DEF ScanOK
  <2>4. CASE ~WasCutShort(f)
    <3>1. IsFound(f)
      BY <1>1, <1>3, <2>2, <2>4
    <3>2. ~IsExcused(g) \/ Up[g] \cap cutShort # {}
      BY <1>0, <1>3, <2>2, RemovedIsNotOpen
         DEF IsExcused, WasRemoved, IsBeingRemoved, RemovalOK
    <3>3. HasFile(f) => media[f] # None
      BY <2>4, <3>2 DEF DoneOK, HasFile, WasCutShort
    <3>. QED  BY <1>3, <3>1, <3>3, FoundByFile DEF ScanOK
  <2>. QED  BY <2>3, <2>4
\* What is found and not lost is still found.
<1>4. ASSUME NEW P, LoseContent(Cascade(P)), g \notin Cascade(P), UNCHANGED cutShort,
             work = NoWork
      PROVE  /\ ~WasCutShort(f)
             /\ IsFound(f) => IsFound(f)'
  <2>1. media'[f] = media[f] /\ tasks'[f] = tasks[f] /\ UNCHANGED ext
    BY <1>4 DEF LoseContent, Inside
  <2>. QED  BY <1>4, <1>9, <2>1 DEF IsFound, NoWork
<1>5. ASSUME clean, NEW p \in Folders, reloadRoot(p) PROVE IsFound(f)'
  <2>1. pending = {} /\ UNCHANGED <<row, media, tasks, work, ext, cutShort>>
    BY <1>5, CommandWork DEF reloadRoot, Command, db
  <2>2. Open(g, r) /\ ~ToFind(g, r)
    BY <1>0, <2>1 DEF Open, ToFind, disk
  <2>. QED  BY <1>1, <1>5, <1>9, <2>1, <2>2 DEF IsFound
<1>6. ASSUME clean, NEW p \in Folders, ban(p) PROVE IsFound(f)'
  <2>. DEFINE P == IF row[p] = "none" THEN {} ELSE {p}
  <2>1. /\ pending = {} /\ work = NoWork /\ LoseContent(Cascade(P)) /\ UNCHANGED cutShort
        /\ row' = [x \in Folders |-> IF x = p THEN "bannedRoot"
                                     ELSE IF x \in Cascade(P) THEN "none" ELSE row[x]]
    BY <1>6, CommandWork, CascadeOfNone DEF ban, Command
  <2>2. p \notin Path(g, r)
    BY <2>1 DEF Open, Banned
  <2>3. P \cap Path(g, r) = {}
    BY <2>2
  <2>. HIDE DEF P
  <2>4. /\ \A x \in Path(g, r) : x \notin Cascade(P) => row'[x] = row[x] \/ row[x] = "none"
        /\ \A x \in Folders : row'[x] = "root" => row[x] = "root"
    BY <1>0, <2>1, <2>2
  <2>5. Open(g, r) /\ g \notin Cascade(P)
    BY <1>0, <2>3, <2>4, OpenWas
  <2>. QED  BY <1>1, <1>4, <1>6, <2>1, <2>5 DEF ToFind
<1>7. ASSUME clean, NEW e \in pending, checkHidden(e) \/ checkRefused(e) PROVE IsFound(f)'
  <2>1. /\ pending' = pending \ {e} /\ work = NoWork /\ UNCHANGED cutShort
        /\ e.dir \in onDisk /\ e.dir \notin noMedia => checkRefused(e)
    BY <1>7 DEF checkHidden, checkRefused, IsHidden
  <2>2. checkHidden(e) => e.dir \notin Path(g, r)
    BY <1>0 DEF checkHidden, IsHidden, Open, disk
  <2>3. CASE UNCHANGED db
    <3>1. Open(g, r)
      BY <1>0, <2>3 DEF Open, db, disk
    <3>2. ~ToFind(g, r)
      <4>. SUFFICES ASSUME NEW o \in pending, o.dir \in Path(g, r), o.known \/ row[o.dir] # "root"
                    PROVE  FALSE
        BY DEF ToFind
      <4>1. o = e
        BY <2>1, <2>3 DEF ToFind, db
      <4>2. checkRefused(e)
        BY <1>7, <2>2, <4>1
      <4>3. row[e.dir] \in Banned
        BY <1>0, <1>7, <4>1, <4>2 DEF checkRefused, ScanOK, NewAreNew, TypeInv, RowType, Known
      <4>. QED  BY <3>1, <4>1, <4>3 DEF Open
    <3>. QED  BY <1>1, <1>7, <1>9, <2>1, <2>3, <3>1, <3>2 DEF IsFound, NoWork, db
  <2>4. CASE checkHidden(e) /\ Destroy({e.dir})
    <3>1. /\ \A x \in Path(g, r) :
                 x \notin Cascade({e.dir}) => row'[x] = row[x] \/ row[x] = "none"
          /\ \A x \in Folders : row'[x] = "root" => row[x] = "root"
      BY <1>0, <2>4 DEF Destroy
    <3>2. Open(g, r) /\ g \notin Cascade({e.dir})
      BY <1>0, <2>2, <2>4, <3>1, OpenWas
    <3>3. ~ToFind(g, r)
      <4>. SUFFICES ASSUME NEW o \in pending, o.dir \in Path(g, r), o.known \/ row[o.dir] # "root"
                    PROVE  FALSE
        BY DEF ToFind
      <4>1. o \in pending'
        BY <2>1, <2>2, <2>4
      <4>2. o.known \/ row'[o.dir] # "root"
        BY <1>0, <3>1
      <4>. QED  BY <4>1, <4>2 DEF ToFind
    <3>. QED  BY <1>1, <1>4, <1>7, <2>1, <2>4, <3>2, <3>3 DEF Destroy
  <2>. QED  BY <1>7, <2>3, <2>4 DEF checkHidden, checkRefused, db
<1>8. ASSUME clean, NEW e \in pending, checkFolder(e) PROVE IsFound(f)'
  <2>. DEFINE D == e.dir
              P == SubRows(D) \ SubDirs(D)
  <2>1. /\ D \in Folders /\ CheckedRows(e, P) /\ work = NoWork /\ work' = Listing(D)
        /\ ~e.known => row[D] = "none"
        /\ pending' = (pending \ {e}) \cup Pushed(D)
    BY <1>0, <1>8, CheckFolderMeans
  <2>0. UNCHANGED cutShort
    BY <1>8 DEF checkFolder
  <2>2. P \cap Path(g, r) = {}
    BY <1>0 DEF SubRows, SubDirs
  <2>. HIDE DEF P
  <2>3. /\ \A x \in Path(g, r) : x \notin Cascade(P) => row'[x] = row[x] \/ row[x] = "none"
        /\ \A x \in Folders : row'[x] = "root" => row[x] = "root"
    BY <1>0, <2>1 DEF CheckedRows
  <2>4. Open(g, r) /\ g \notin Cascade(P)
    BY <1>0, <2>2, <2>3, OpenWas
  <2>5. ~WasCutShort(f) /\ (IsFound(f) => IsFound(f)')
    BY <1>4, <2>0, <2>1, <2>4 DEF CheckedRows
  \* What was to be found by another entry is.
  <2>6. ASSUME NEW s \in Path(g, r), NEW o \in pending, o # e, o.dir \in Path(g, s),
               o.known \/ row[o.dir] # "root"
        PROVE  FALSE
    <3>1. o.dir \in Path(g, r) /\ o \in pending'
      BY <1>0, <2>1, <2>6, PathParts
    <3>2. o.known \/ row'[o.dir] # "root"
      BY <1>0, <2>3, <2>6, <3>1
    <3>. QED  BY <3>1, <3>2 DEF ToFind
  <2>7. CASE D \notin Path(g, r)
    <3>1. ~ToFind(g, r)
      BY <1>0, <2>6, <2>7 DEF ToFind
    <3>. QED  BY <1>1, <1>8, <2>4, <2>5, <3>1
  <2>8. CASE D = g
    <3>1. f \in Inside({D})
      BY <2>8 DEF Inside
    <3>2. f \in work'.add \/ media[f] # None
      BY <2>1, <3>1 DEF Listing
    <3>. QED  BY <2>5, <3>2 DEF IsFound
  <2>9. CASE D \in Path(g, r) /\ D # g
    <3>1. PICK y \in Path(g, r) \ {r} :
              /\ y \in Folders /\ Parent[y] = D
              /\ Path(g, y) \subseteq Path(g, r) /\ D \notin Path(g, y)
      BY <1>0, <2>9, PathChild
    <3>2. y \in SubDirs(D)
      BY <1>0, <3>1 DEF SubDirs
    <3>3. PICK n \in Pushed(D) : n.dir = y
      BY <3>2, PushedMeans
    <3>4. row'[y] = "root"
      BY <2>1, <3>1, <3>3 DEF ToFind
    <3>5. row[y] = "root" /\ y \in Up[g]
      BY <1>0, <2>3, <3>1, <3>4, PathParts
    <3>6. Open(g, y)
      BY <2>4, <3>1, <3>5 DEF Open
    <3>7. ~ToFind(g, y)
      BY <2>6, <3>1 DEF ToFind
    <3>. QED  BY <1>1, <1>8, <2>5, <3>5, <3>6, <3>7
  <2>. QED  BY <2>7, <2>8, <2>9
<1>. QED  BY <1>2, <1>3, <1>5, <1>6, <1>7, <1>8, CleanSteps DEF ByFolder

-----------------------------------------------------------------------------
(* The theorems.                                                           *)

\* The inductive invariant.
IInv ==
    /\ TypeInv /\ DatesOK /\ TasksOK /\ RemovalOK /\ DiskIsATree /\ OneMediaPerFile
    /\ RowsHang /\ PendingOK /\ NbVideoIsExact

LEMMA InitInv == Init => IInv
<1>. SUFFICES ASSUME Init PROVE IInv
  OBVIOUS
<1>1. TypeInv
  BY InitTypes
<1>2. DatesOK
  <2>1. WorkDates /\ JobsDates /\ \A f \in Files : media[f].content = -1 /\ mtime[f] = 0
    BY DEF Init, WorkDates, JobsDates, NoWork, None
  <2>. QED  BY <2>1 DEF Init, DatesOK, MediaDates
<1>8. TasksOK /\ RemovalOK
  BY DEF Init, TasksOK, RemovalOK, Removing
<1>3. DiskIsATree
  BY UpSelf, TreeAssumption DEF Init, DiskIsATree
<1>4. OneMediaPerFile
  BY DEF Init, OneMediaPerFile
<1>5. RowsHang
  BY DEF Init, RowsHang, ParentsHold, FilesHeld, AddHeld, JobsHeld, NoWork
<1>6. PendingOK
  BY DEF Init, PendingOK
<1>7. NbVideoIsExact
  <2>1. \A p \in Folders : Videos(media, Inside({p})) = {} /\ counts[p].video = 0
    BY DEF Init, Videos, Inside, None
  <2>. QED  BY <2>1, FS_EmptySet, NbVideoMeans
<1>. QED  BY <1>1, <1>2, <1>3, <1>4, <1>5, <1>6, <1>7, <1>8 DEF IInv

LEMMA IInvStep == IInv /\ [Next]_vars => IInv'
<1>. SUFFICES ASSUME IInv, [Next]_vars PROVE IInv'
  OBVIOUS
<1>1. TypeInv' /\ DiskIsATree' /\ OneMediaPerFile' /\ NbVideoIsExact'
  BY TypeStep, DiskStep, OneMediaStep, NbVideoStep DEF IInv
<1>2. RowsHang' /\ PendingOK'
  BY ParentsHoldStep, HeldStep, PendingStep DEF IInv, RowsHang
<1>3. DatesOK' /\ TasksOK' /\ RemovalOK'
  BY ReadDatesStep, MediaDatesStep, TasksStep, RemovalStep DEF IInv, DatesOK
<1>. QED  BY <1>1, <1>2, <1>3 DEF IInv

LEMMA Invariant == Spec => []IInv
BY InitInv, IInvStep, PTL DEF Spec

LEMMA MirrorStep == IInv /\ MirrorInv /\ [Next]_vars => MirrorInv'
<1>. SUFFICES ASSUME IInv, MirrorInv, [Next]_vars PROVE MirrorInv'
  OBVIOUS
<1>0. /\ TypeInv /\ TasksOK /\ RemovalOK /\ DiskIsATree /\ RowsHang /\ ParentsHold /\ PendingOK
      /\ RowsRooted /\ DoneOK /\ (clean => ScanOK)
  BY DEF IInv, MirrorInv, RowsHang
<1>1. RowsRooted' /\ DoneOK'
  BY <1>0, RootedStep, DoneStep
<1>2. ASSUME clean' PROVE ScanOK'
  <2>1. NewAreNew' /\ WorkIsFresh' /\ JobsAreFresh' /\ DatedAreFresh'
    BY <1>0, <1>2, NewStep, WorkFreshStep, JobsFreshStep, DatedStep
  <2>2. RowsAreShown' /\ MediaAreFresh' /\ FilesAreFound'
    BY <1>0, <1>2, ShownStep, MediaFreshStep, FoundStep
  <2>. QED  BY <2>1, <2>2 DEF ScanOK
<1>. QED  BY <1>1, <1>2 DEF MirrorInv

LEMMA InitMirror == Init => MirrorInv
BY DEF Init, MirrorInv, RowsRooted, DoneOK, HasFile

\* The row of a media hangs from a root, unless a folder above it was removed from one.
LEMMA MediaHang ==
    ASSUME IInv, RowsRooted, NEW f \in Files, media[f] # None, ~IsIgnored(f)
    PROVE  \E r \in Up[FolderOf[f]] : Line(FolderOf[f], r)
<1>. DEFINE g == FolderOf[f]
<1>1. g \in Folders /\ row[g] # "none"
  BY TreeAssumption DEF IInv, RowsHang, FilesHeld, Holds
<1>2. PICK r \in Up[g] : HangsFrom(g, r)
  BY <1>1 DEF RowsRooted
<1>3. \A x \in Path(g, r) \ {r} : row[x] = "child"
  BY <1>1, <1>2, PathBasics DEF HangsFrom, IsIgnored
<1>4. row[r] # "bannedRoot"
  <2>. SUFFICES ASSUME row[r] = "bannedRoot" PROVE FALSE
    OBVIOUS
  <2>1. PICK s \in Up[g] \ Up[r] : row[s] = "root"
    BY BansHold DEF IInv, RowsHang, BannedFoldersHoldNothing
  <2>2. s \in Path(g, r) \ {r}
    BY <1>1, <2>1, PathOrAbove
  <2>. QED  BY <1>3, <2>1, <2>2
<1>. QED  BY <1>2, <1>3, <1>4 DEF HangsFrom, Line

LEMMA MirrorsWhenDone == IInv /\ MirrorInv => MirrorsTheDisk
<1>. SUFFICES ASSUME IInv, MirrorInv, clean, pending = {}, work = NoWork, jobs = {},
                     NEW f \in Files, ~IsIgnored(f), ~WasCutShort(f)
              PROVE  /\ media[f] # None => IsVisible(f) /\ media[f].date = mtime[f]
                     /\ IsVisible(f) => media[f] # None \/ tasks[f] = "todo"
  BY DEF MirrorsTheDisk, Scanning
<1>. DEFINE g == FolderOf[f]
<1>0. /\ g \in Folders /\ RowsRooted /\ ScanOK
      /\ work.remove = {} /\ work.refresh = {} /\ work.add = {}
  BY TreeAssumption DEF MirrorInv, NoWork
<1>1. ASSUME media[f] # None PROVE IsVisible(f) /\ media[f].date = mtime[f]
  <2>1. PICK r \in Up[g] : Line(g, r)
    BY <1>0, <1>1, MediaHang
  <2>2. f \in onDisk /\ media[f].date = mtime[f]
    <3>1. IsFresh(f)
      BY <1>0, <1>1, <2>1 DEF ScanOK, MediaAreFresh, ToCheck
    <3>. QED  BY <1>0, <3>1 DEF IsFresh, IsUndated
  <2>3. Path(g, r) \cap noMedia = {}
    BY <1>0, <2>1 DEF ScanOK, RowsAreShown, ToCheck
  <2>4. /\ row[r] = "root" /\ r \notin noMedia
        /\ \A x \in Up[g] \ Up[r] : row[x] \notin Banned /\ x \notin noMedia
    BY <1>0, <2>1, <2>3, PathBasics, PathOrAbove DEF Line, Banned
  <2>. QED  BY <2>2, <2>4 DEF IsVisible
<1>2. ASSUME IsVisible(f) PROVE media[f] # None \/ tasks[f] = "todo"
  <2>1. PICK r \in Up[g] :
            /\ row[r] = "root" /\ r \notin noMedia
            /\ \A x \in Up[g] \ Up[r] : row[x] \notin Banned /\ x \notin noMedia
    BY <1>2 DEF IsVisible
  <2>2. Open(g, r)
    BY <1>0, <2>1, PathOrAbove DEF Open, Banned
  <2>. QED  BY <1>0, <1>2, <2>2 DEF ScanOK, FilesAreFound, IsFound, ToFind, IsVisible
<1>. QED  BY <1>1, <1>2

\* The types of the tables, of the discoverer's state and of the parser's jobs.
THEOREM TypeCorrect == Spec => []TypeOK
<1>1. IInv => TypeOK
  BY TypeInvMeans DEF IInv
<1>. QED  BY <1>1, Invariant, PTL

\* The date of a File row gets ahead of what the library holds of the file only when a
\* creation that the end of the program cut short is run again: but for that, comparing the
\* dates (FsDiscoverer::checkFiles) misses no update, whatever the order of the discoverer,
\* of the parser, of the writes on the disk and of the ends of the program.
THEOREM NoUpdateIsEverMissed == Spec => NoUpdateIsMissed
<1>1. IInv /\ [Next]_vars =>
          \A f \in Files :
              media[f].content >= media[f].date /\ media'[f].content < media'[f].date
                  => \E j \in jobs : j.file = f /\ j.again
  BY NoUpdateStep DEF IInv
<1>. QED  BY <1>1, Invariant, PTL DEF Spec, NoUpdateIsMissed

\* A media that Folder::remove converted is never beside another one for the same file:
\* createFileAndMedia takes it back.
THEOREM OneMediaForEachFile == Spec => []OneMediaPerFile
<1>1. IInv => OneMediaPerFile
  BY DEF IInv
<1>. QED  BY <1>1, Invariant, PTL

\* The rows of the folders agree with the media: no media is below a ban but for another
\* root, and the triggers keep nb_video.
THEOREM FolderRowsAlwaysAgree == Spec => []FolderRowsAgree
<1>1. IInv => FolderRowsAgree
  BY BansHold DEF IInv, RowsHang, FolderRowsAgree
<1>. QED  BY <1>1, Invariant, PTL

\* No step of the discoverer, of the parser or of the application loses a media without a
\* reason: Folder::remove, a transaction after the other, takes with it only those the
\* parser found while it was under way.
THEOREM MediaAreOnlyLostForAReason == Spec => MediaAreLostForAReason
<1>1. IInv /\ [Next]_vars =>
          \A f \in Files : media[f] # None /\ media'[f] = None => Reason(f)
  BY LossStep DEF IInv
<1>. QED  BY <1>1, Invariant, PTL DEF Spec, MediaAreLostForAReason, Reason

\* After a reload that nothing disturbed, once the parser is done, the library has the
\* media of the files that nothing hides, up to date, and no other. Left out are the files
\* below a folder that was removed from a root, those whose task is kept for the next
\* start, and those that a removal cut short by the end of the program left external.
THEOREM TheScanMirrorsTheDisk == Spec => []MirrorsTheDisk
<1>1. Spec => []MirrorInv
  BY InitMirror, MirrorStep, Invariant, PTL DEF Spec
<1>. QED  BY <1>1, MirrorsWhenDone, Invariant, PTL

=============================================================================
