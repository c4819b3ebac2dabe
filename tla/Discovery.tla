------------------------------ MODULE Discovery ------------------------------
(***************************************************************************)
(* The folders and the files of the library against those of the disk:     *)
(* FsDiscoverer scans the folders, Folder adds, bans and removes them, the *)
(* metadata services create and refresh the media of the files, and the    *)
(* disk changes at any time.                                               *)
(*                                                                         *)
(* The commands are the tasks of the discoverer thread, one at a time;     *)
(* which of them is next, and what interrupts it, is DiscovererWorker.     *)
(* The jobs are the tasks of the parser threads; their steps, attempts and *)
(* restoration are Parser, and here a job only extracts and analyzes.      *)
(*                                                                         *)
(* A path stands for its MRL.  All the folders are on one device, which is *)
(* neither removable nor unplugged.  A file holds one media, whose type    *)
(* and duration are what the last extraction found; the version of a file  *)
(* is both its modification date and what there is to extract.             *)
(***************************************************************************)
EXTENDS Integers, FiniteSets, FiniteSetsExt

CONSTANTS Folders, Files,
          NoFolder,      \* the parent of the folder at the top of the disk
          Parent,        \* the folder a folder is in
          FolderOf,      \* the folder a file is in
          MaxChanges,    \* bound on the changes of the disk, but for what comes back
          MaxRestarts,   \* bound on the ends of the program
          MaxCommands    \* bound on the commands of the application

\* A folder and those it is in: the least set that holds p and, with a folder, its parent.
Up[p \in Folders] ==
    {q \in Folders : \A P \in SUBSET Folders :
        p \in P /\ (\A x \in P : Parent[x] \in P \cup {NoFolder}) => q \in P}

ASSUME TreeAssumption ==
    /\ Parent \in [Folders -> Folders \cup {NoFolder}] /\ NoFolder \notin Folders
    /\ \A p \in Folders : Parent[p] # NoFolder => p \notin Up[Parent[p]]
    /\ FolderOf \in [Files -> Folders] /\ Files \cap Folders = {}
    /\ IsFiniteSet(Files)

ASSUME BoundsAssumption == {MaxChanges, MaxRestarts, MaxCommands} \subseteq Nat

VARIABLES
    (* the disk *)
    onDisk,        \* the folders and files that exist
    noMedia,       \* the folders that contain a .nomedia file
    mtime,         \* the version of each file
    (* the database *)
    row,           \* the row of each folder: "root" and "bannedRoot" have no parent_id,
                   \* "child" and "bannedChild" have that of Parent
    media,         \* the internal media of each file, with its File row
    ext,           \* the files whose media were converted to external
    counts,        \* the columns nb_video, nb_audio and duration of the folders
    tasks,         \* the row of each file's Creation task: "created" once it has a file_id,
                   \* "done" once the step of the parser is saved
    (* the threads *)
    pending,       \* FsDiscoverer: the directories to check
    work,          \* FsDiscoverer: what is left to do for the files of a directory
    removal,       \* Folder::remove: the folder, those whose media are still to convert
    jobs,          \* the tasks the parser holds
    (* bounds and observations *)
    left,
    cutShort,      \* the folders whose removal was cut short by the end of the program
    clean          \* a reload of everything began with no job, and nothing since then
                   \* made its result doubtful

disk == <<onDisk, noMedia, mtime>>
db == <<row, media, ext, counts, tasks>>
vars == <<disk, db, pending, work, removal, jobs, left, cutShort, clean>>

None == [date |-> -1, content |-> -1, type |-> "none"]
Unread == -1
NoRemoval == [folder |-> NoFolder, toConvert |-> {}, late |-> {}]
NoWork == [remove |-> {}, refresh |-> {}, add |-> {}, date |-> [f \in {} |-> 0]]

Versions == 0..MaxChanges
Banned == {"bannedRoot", "bannedChild"}
Known == {"root", "child"}

Media == [date: Versions, content: Versions, type: {"Audio", "Video"}]
\* A job is run again when its file was created by a run that did not end; "stored" is
\* what was extracted, "dated" the date of the file.
Job == [file: Files, kind: {"Creation", "Refresh"}, date: Versions \cup {Unread},
        content: Versions \cup {Unread}, stale: BOOLEAN, again: BOOLEAN,
        phase: {"todo", "stored", "dated"}]

Inside(P) == {f \in Files : FolderOf[f] \in P}

Init ==
    /\ onDisk = Folders \cup Files /\ noMedia = {}
    /\ mtime = [f \in Files |-> 0]
    /\ row = [p \in Folders |-> "none"]
    /\ media = [f \in Files |-> None]
    /\ ext = {}
    /\ counts = [p \in Folders |-> [video |-> 0, audio |-> 0, duration |-> 0]]
    /\ tasks = [f \in Files |-> "none"]
    /\ pending = {} /\ work = NoWork
    /\ removal = NoRemoval
    /\ jobs = {}
    /\ left = [changes |-> MaxChanges, restarts |-> MaxRestarts, commands |-> MaxCommands]
    /\ cutShort = {}
    /\ clean = FALSE

Spend(what) ==
    /\ left[what] > 0
    /\ left' = [left EXCEPT ![what] = @ - 1]

Scanning == pending # {} \/ work # NoWork
Removing == removal # NoRemoval

-----------------------------------------------------------------------------
(* The triggers that keep the counters of the folders.                     *)

One(type, m) == IF m.type = type THEN 1 ELSE 0
Duration(m) == m.content + 1

\* UpdateNbMediaOnIndex: the duration is not added.
OnInsert(c, m) == [video |-> c.video + One("Video", m),
                   audio |-> c.audio + One("Audio", m),
                   duration |-> c.duration]

\* UpdateNbMediaOnDelete.
OnDelete(c, m) == [video |-> c.video - One("Video", m),
                   audio |-> c.audio - One("Audio", m),
                   duration |-> c.duration - Duration(m)]

\* The first half of UpdateNbMediaOnUpdate, for the new folder, and the second one,
\* for the old one, which gives an audio media the wrong sign.
OnEnter(c, m) == [video |-> c.video + One("Video", m),
                  audio |-> c.audio + One("Audio", m),
                  duration |-> c.duration + Duration(m)]
OnLeave(c, m) == [video |-> c.video - One("Video", m),
                  audio |-> c.audio + One("Audio", m),
                  duration |-> c.duration - Duration(m)]

\* Mutant: a change of type only counts for the new one.
OnChangeIncrement(c, old, new) ==
    IF old.type = new.type /\ Duration(old) = Duration(new) THEN c ELSE OnEnter(c, new)

\* UpdateNbMediaOnUpdate, for a media that stays in its folder.
OnChange(c, old, new) ==
    IF old.type = new.type /\ Duration(old) = Duration(new) THEN c
    ELSE OnLeave(OnEnter(c, new), old)

-----------------------------------------------------------------------------
(* Removing folders.                                                       *)

\* The rows that go with those of P: parent_id is ON DELETE CASCADE.
Cascade(P) ==
    {q \in Folders :
        \E p \in P \cap Up[q] :
            \A x \in Up[q] \ Up[p] : row[x] \in {"child", "bannedChild"}}

\* The tasks that refer to a deleted folder or file: their rows go, and the parser
\* still holds them.
Orphan(F) == {[j EXCEPT !.stale = @ \/ j.file \in F] : j \in jobs}

NoCount == [video |-> 0, audio |-> 0, duration |-> 0]

\* What goes with the rows of a set of folders.
LoseContent(gone) ==
    /\ media' = [f \in Files |-> IF f \in Inside(gone) THEN None ELSE media[f]]
    /\ tasks' = [f \in Files |-> IF f \in Inside(gone) THEN "none" ELSE tasks[f]]
    /\ jobs' = Orphan(Inside(gone))
    /\ counts' = [p \in Folders |-> IF p \in gone THEN NoCount ELSE counts[p]]
    /\ UNCHANGED ext

\* Folder::remove( RemovedFromDisk ): the foreign keys do it all.
Destroy(P) ==
    /\ row' = [p \in Folders |-> IF p \in Cascade(P) THEN "none" ELSE row[p]]
    /\ LoseContent(Cascade(P))

-----------------------------------------------------------------------------
(* The commands, on the discoverer thread.                                 *)

Command == ~Scanning /\ ~Removing /\ Spend("commands") /\ UNCHANGED <<disk, cutShort>>

\* FsDiscoverer::addRoot: the disk is not read.  A known or banned path is refused by
\* the UNIQUE constraint.
addRoot(p) ==
    /\ Command
    /\ row[p] = "none"
    /\ row' = [row EXCEPT ![p] = "root"]
    /\ clean' = FALSE
    /\ UNCHANGED <<media, ext, counts, tasks, pending, work, removal, jobs>>

Entry(p, known) == [dir |-> p, known |-> known]

\* FsDiscoverer::reload(): the roots that are not banned.
reload ==
    /\ Command
    /\ pending' = {Entry(p, TRUE) : p \in {q \in Folders : row[q] = "root"}}
    /\ clean' = (jobs = {})
    /\ UNCHANGED <<db, work, removal, jobs>>

\* FsDiscoverer::reload( root ), which takes any folder it finds.
reloadRoot(p) ==
    /\ Command
    /\ row[p] \in Known
    /\ pending' = {Entry(p, TRUE)}
    /\ UNCHANGED <<db, work, removal, jobs, clean>>

\* Mutant: a folder that is known is flagged, and its media stay.
banFlag(p) ==
    /\ Command
    /\ row[p] \notin Banned
    /\ row' = [row EXCEPT ![p] = "bannedRoot"]
    /\ UNCHANGED <<media, ext, counts, tasks, pending, work, removal, jobs, clean>>

\* Folder::ban( mrl ): a folder that is known is deleted first.
ban(p) ==
    /\ Command
    /\ row[p] \notin Banned
    /\ LET gone == IF row[p] = "none" THEN {} ELSE Cascade({p})
       IN  /\ row' = [q \in Folders |-> IF q = p THEN "bannedRoot"
                                        ELSE IF q \in gone THEN "none" ELSE row[q]]
           /\ LoseContent(gone)
    /\ UNCHANGED <<pending, work, removal, clean>>

\* DiscovererWorker::runUnban: the row is deleted, and a reload of the parent queued.
unban(p) ==
    /\ Command
    /\ row[p] \in Banned
    /\ Destroy({p})
    /\ pending' = {Entry(q, TRUE) : q \in {q \in Folders : q = Parent[p] /\ row[q] \in Known}}
    /\ clean' = FALSE
    /\ UNCHANGED <<work, removal>>

\* Media::convertToExternal() on the media of a set of files.
ConvertToExternal(F) ==
    LET M == {f \in F : media[f] # None}
    IN  /\ ext' = ext \cup M
        /\ media' = [f \in Files |-> IF f \in F THEN None ELSE media[f]]

\* The counters of a folder once the triggers saw each of its media leave.
CountsAfterRemoval(p) ==
    FoldSet(LAMBDA f, c : IF media[f] = None THEN c ELSE OnLeave(c, media[f]),
            counts[p], Inside({p}))

\* Mutant: the media of the subfolders are left to the foreign keys.
Alone(p) == {p}

\* What is crawled: the folder and its subfolders, those that are banned as well.
Crawled(p) == Cascade({p})

\* DiscovererWorker::runRemove, then Folder::remove( RootRemoved ): the media are kept as
\* external ones.  Nothing interrupts it but the end of the program.
remove(p) ==
    /\ Command
    /\ row[p] \in Known
    /\ removal' = [folder |-> p, toConvert |-> Crawled(p), late |-> {}]
    /\ clean' = FALSE
    /\ UNCHANGED <<db, pending, work, jobs>>

\* The transaction of one folder; its subfolders come later.
convertFolder(q) ==
    /\ q \in removal.toConvert /\ Parent[q] \notin removal.toConvert
    /\ removal' = [removal EXCEPT !.toConvert = @ \ {q}]
    /\ ConvertToExternal(Inside({q}))
    /\ counts' = [counts EXCEPT ![q] = CountsAfterRemoval(q)]
    /\ UNCHANGED <<disk, row, tasks, pending, work, jobs, left, cutShort, clean>>

\* A folder without a parent is then deleted; another one is banned, and its row, its
\* subfolders and the tasks that refer to them stay.
removed ==
    /\ Removing /\ removal.toConvert = {}
    /\ removal' = NoRemoval
    /\ IF row[removal.folder] = "root" THEN Destroy({removal.folder})
       ELSE /\ row' = [row EXCEPT ![removal.folder] = "bannedChild"]
            /\ UNCHANGED <<media, ext, counts, tasks, jobs>>
    /\ UNCHANGED <<disk, pending, work, left, cutShort, clean>>

\* DiscovererWorker: a command that is urgent stops the scan before its next step.
interrupt ==
    /\ Scanning
    /\ Spend("commands")
    /\ pending' = {} /\ work' = NoWork
    /\ clean' = FALSE
    /\ UNCHANGED <<disk, db, removal, jobs, cutShort>>

-----------------------------------------------------------------------------
(* The scan, on the discoverer thread.                                     *)

\* Mutant: the files that are gone are left to the next scan.
ListingOfTheDisk(p) ==
    LET there == Inside({p}) \cap onDisk
        inDb == {f \in Inside({p}) : media[f] # None}
    IN  [remove |-> {},
         refresh |-> {f \in inDb \cap there : media[f].date # mtime[f]},
         add |-> there \ inDb,
         date |-> [f \in there |-> mtime[f]]]

\* The files File::fromParentFolder finds, against those of the directory.
Listing(p) ==
    LET there == Inside({p}) \cap onDisk
        inDb == {f \in Inside({p}) : media[f] # None}
    IN  [remove |-> inDb \ there,
         refresh |-> {f \in inDb \cap there : media[f].date # mtime[f]},
         add |-> there \ inDb,
         date |-> [f \in there |-> mtime[f]]]

SubDirs(p) == {q \in onDisk \cap Folders : Parent[q] = p}
SubRows(p) == {q \in Folders : Parent[q] = p /\ row[q] = "child"}

\* The directory can't be read, or has a .nomedia file.
IsHidden(p) == p \notin onDisk \/ p \in noMedia

\* FsDiscoverer::checkFolder, on a directory that shows nothing: a folder that is known
\* is deleted (by checkRemovedDevices in the first case), another one is skipped.
checkHidden(e) ==
    /\ work = NoWork /\ e \in pending
    /\ IsHidden(e.dir)
    /\ IF e.known THEN Destroy({e.dir}) ELSE UNCHANGED <<db, jobs>>
    /\ pending' = pending \ {e}
    /\ UNCHANGED <<disk, work, removal, left, cutShort, clean>>

\* Another row has the path: a ban, or a root that was added on its own.
checkRefused(e) ==
    /\ work = NoWork /\ e \in pending
    /\ ~IsHidden(e.dir) /\ ~e.known /\ row[e.dir] # "none"
    /\ pending' = pending \ {e}
    /\ UNCHANGED <<disk, db, work, jobs, removal, left, cutShort, clean>>

\* FsDiscoverer::checkFolder: a new folder is added, the subfolders are pushed, those
\* that are gone are deleted, and the files are listed.
checkFolder(e) ==
    /\ work = NoWork /\ e \in pending
    /\ ~IsHidden(e.dir) /\ (e.known \/ row[e.dir] = "none")
    /\ LET gone == Cascade(SubRows(e.dir) \ SubDirs(e.dir))
       IN  /\ row' = [p \in Folders |-> IF p \in gone THEN "none"
                                        ELSE IF p = e.dir /\ ~e.known THEN "child"
                                        ELSE row[p]]
           /\ LoseContent(gone)
    /\ pending' = (pending \ {e}) \cup
                  {Entry(q, q \in SubRows(e.dir)) : q \in SubDirs(e.dir)}
    /\ work' = Listing(e.dir)
    /\ UNCHANGED <<disk, removal, left, cutShort, clean>>

\* FsDiscoverer::checkFiles, then Media::removeFile: the File row goes, its media and
\* its tasks with it.
removeFile(f) ==
    /\ f \in work.remove
    /\ work' = [work EXCEPT !.remove = @ \ {f}]
    /\ media' = [media EXCEPT ![f] = None]
    /\ counts' = [counts EXCEPT ![FolderOf[f]] = OnDelete(@, media[f])]
    /\ tasks' = [tasks EXCEPT ![f] = "none"]
    /\ jobs' = Orphan({f})
    /\ UNCHANGED <<disk, row, ext, pending, removal, left, cutShort, clean>>

NewJob(f, kind) ==
    [file |-> f, kind |-> kind, date |-> work.date[f], content |-> Unread, stale |-> FALSE,
     again |-> FALSE, phase |-> "todo"]

\* A Refresh task is in the table while it is in the parser.
IsRefreshing(f) == \E j \in jobs : j.file = f /\ j.kind = "Refresh" /\ ~j.stale

\* MediaLibrary::onUpdatedFile: a second task for the file is refused.
onUpdatedFile(f) ==
    /\ work.remove = {} /\ f \in work.refresh
    /\ work' = [work EXCEPT !.refresh = @ \ {f}]
    /\ jobs' = IF IsRefreshing(f) \/ media[f] = None THEN jobs
               ELSE jobs \cup {NewJob(f, "Refresh")}
    /\ UNCHANGED <<disk, db, pending, removal, left, cutShort, clean>>

\* MediaLibrary::onDiscoveredFile.
onDiscoveredFile(f) ==
    /\ work.remove = {} /\ work.refresh = {} /\ f \in work.add
    /\ work' = [work EXCEPT !.add = @ \ {f}]
    /\ IF tasks[f] # "none" THEN UNCHANGED <<tasks, jobs>>
       ELSE /\ tasks' = [tasks EXCEPT ![f] = "todo"]
            /\ jobs' = jobs \cup {NewJob(f, "Creation")}
    /\ UNCHANGED <<disk, row, media, ext, counts, pending, removal, left, cutShort, clean>>

\* The last file is done.
FilesDone ==
    /\ work # NoWork
    /\ work.remove = {} /\ work.refresh = {} /\ work.add = {}
    /\ work' = NoWork
    /\ UNCHANGED <<disk, db, pending, jobs, removal, left, cutShort, clean>>

-----------------------------------------------------------------------------
(* The jobs, on the parser's threads.                                      *)

Becomes(j, changed) == jobs' = (jobs \ {j}) \cup {changed}

\* Task::restoreLinkedEntities, for a job read from the table: the task of a file that is
\* gone goes too, unless the library knows the file.
RestoreEntities(j) ==
    /\ j \in jobs /\ j.date = Unread
    /\ IF j.file \in onDisk
       THEN Becomes(j, [j EXCEPT !.date = mtime[j.file]]) /\ UNCHANGED tasks
       ELSE /\ jobs' = jobs \ {j}
            /\ tasks' = IF j.kind = "Creation" /\ ~j.stale /\ ~j.again
                        THEN [tasks EXCEPT ![j.file] = "none"] ELSE tasks
    /\ UNCHANGED <<disk, row, media, ext, counts, pending, work, removal, left, cutShort, clean>>

\* Mutant: a task that was not restored is run.
ExtractUnrestored(j) ==
    /\ j \in jobs /\ j.content = Unread /\ j.file \in onDisk
    /\ Becomes(j, [j EXCEPT !.content = mtime[j.file]])
    /\ UNCHANGED <<disk, db, pending, work, removal, left, cutShort, clean>>

\* The extraction reads the file.
Extract(j) ==
    /\ j \in jobs /\ j.date # Unread /\ j.content = Unread /\ j.file \in onDisk
    /\ Becomes(j, [j EXCEPT !.content = mtime[j.file]])
    /\ UNCHANGED <<disk, db, pending, work, removal, left, cutShort, clean>>

\* A step fails: the row of a Creation task stays for the next start, that of a Refresh
\* task goes.
Fail(j) ==
    /\ j \in jobs /\ j.date # Unread /\ j.phase # "stored"
    /\ jobs' = jobs \ {j}
    /\ clean' = (clean /\ j.kind = "Creation")
    /\ UNCHANGED <<disk, db, pending, work, removal, left, cutShort>>

\* Mutant: the date of the file is read once the analysis is over.
ExtractedLate(j, type) == [date |-> mtime[j.file], content |-> j.content, type |-> type]

\* The date is the one the discoverer read, File::create is given the same IFile.
Extracted(j, type) == [date |-> j.date, content |-> j.content, type |-> type]

\* Mutant: an external media of the same MRL is not looked for.
Created(j, m) ==
    /\ counts' = [counts EXCEPT ![FolderOf[j.file]] = OnInsert(@, m)]
    /\ UNCHANGED ext

\* MetadataAnalyzer::createFileAndMedia inserts a media, or takes back the one that was
\* converted when the folder was removed (overrideExternalMedia).
CreatedOrOverridden(j, m) ==
    /\ counts' = [counts EXCEPT ![FolderOf[j.file]] =
                      IF j.file \in ext THEN OnEnter(@, m) ELSE OnInsert(@, m)]
    /\ ext' = ext \ {j.file}

\* The task gets its file_id in the same transaction; it is completed later.
createFileAndMedia(j, type) ==
    /\ j \in jobs /\ j.content # Unread /\ j.kind = "Creation"
    /\ j.phase = "todo" /\ ~j.again
    /\ ~j.stale /\ media[j.file] = None
    /\ media' = [media EXCEPT ![j.file] = Extracted(j, type)]
    /\ CreatedOrOverridden(j, Extracted(j, type))
    /\ tasks' = [tasks EXCEPT ![j.file] = "created"]
    /\ Becomes(j, [j EXCEPT !.phase = "dated"])
    /\ removal' = [removal EXCEPT !.late = IF Removing THEN @ \cup {j.file} ELSE @]
    /\ UNCHANGED <<disk, row, pending, work, left, cutShort, clean>>

\* The folder was deleted (a foreign key fails), or the file is there already (the
\* UNIQUE constraint fails): nothing is created, and the row of the task goes.
Discard(j) ==
    /\ j \in jobs /\ j.content # Unread /\ j.kind = "Creation" /\ j.phase = "todo"
    /\ j.stale \/ (~j.again /\ media[j.file] # None)
    /\ jobs' = jobs \ {j}
    /\ tasks' = IF j.stale THEN tasks ELSE [tasks EXCEPT ![j.file] = "none"]
    /\ UNCHANGED <<disk, row, media, ext, counts, pending, work, removal, left, cutShort, clean>>

\* What a job may still write to: its file is there, and not external.
Writes(j) == ~j.stale /\ media[j.file] # None

\* MetadataAnalyzer::refreshMedia: the duration, then the type.  Nothing changes when the
\* media was deleted; one that was converted in between stays external.
refreshMedia(j, type) ==
    /\ j \in jobs /\ j.content # Unread /\ j.kind = "Refresh" /\ j.phase = "todo"
    /\ IF ~Writes(j) THEN UNCHANGED <<media, counts>>
       ELSE LET longer == [media[j.file] EXCEPT !.content = j.content]
                m == [longer EXCEPT !.type = type]
            IN  /\ media' = [media EXCEPT ![j.file] = m]
                /\ counts' = [counts EXCEPT ![FolderOf[j.file]] =
                                  OnChange(OnChange(@, media[j.file], longer), longer, m)]
    /\ Becomes(j, [j EXCEPT !.phase = "stored"])
    /\ UNCHANGED <<disk, row, ext, tasks, pending, work, removal, left, cutShort, clean>>

\* MetadataAnalyzer::run, File::updateFsInfo: at the end of a refresh, and of a creation
\* that is run again, which extracts nothing to a media it knows.
updateFsInfo(j) ==
    /\ j \in jobs /\ j.content # Unread
    /\ j.phase = "stored" \/ (j.phase = "todo" /\ j.again)
    /\ media' = IF Writes(j) THEN [media EXCEPT ![j.file].date = j.date] ELSE media
    /\ Becomes(j, [j EXCEPT !.phase = "dated"])
    /\ UNCHANGED <<disk, row, ext, counts, tasks, pending, work, removal, left, cutShort, clean>>

\* Task::saveParserStep, and the end of the task.
saveParserStep(j) ==
    /\ j \in jobs /\ j.phase = "dated"
    /\ jobs' = jobs \ {j}
    /\ tasks' = IF j.kind = "Creation" /\ ~j.stale THEN [tasks EXCEPT ![j.file] = "done"] ELSE tasks
    /\ UNCHANGED <<disk, row, media, ext, counts, pending, work, removal, left, cutShort, clean>>

-----------------------------------------------------------------------------
(* The rest of the world.                                                  *)

\* What vanishes may come back.
Change(costs) ==
    /\ IF costs THEN Spend("changes") ELSE UNCHANGED left
    /\ clean' = FALSE
    /\ UNCHANGED <<db, pending, work, removal, jobs, cutShort>>

\* A file, or a folder with all it contains.
Vanish(x) ==
    /\ x \in onDisk /\ Change(TRUE)
    /\ onDisk' = onDisk \ IF x \in Files THEN {x}
                          ELSE LET in == {q \in Folders : x \in Up[q]} IN in \cup Inside(in)
    /\ noMedia' = noMedia \cap onDisk'
    /\ UNCHANGED mtime

Appear(x) ==
    /\ x \notin onDisk /\ Change(FALSE)
    /\ (IF x \in Files THEN FolderOf[x] ELSE Parent[x]) \in onDisk \cup {NoFolder}
    /\ onDisk' = onDisk \cup {x}
    /\ UNCHANGED <<noMedia, mtime>>

Modify(f) ==
    /\ f \in onDisk /\ Change(TRUE)
    /\ mtime' = [mtime EXCEPT ![f] = @ + 1]
    /\ UNCHANGED <<onDisk, noMedia>>

ToggleNoMedia(p) ==
    /\ p \in onDisk /\ Change(TRUE)
    /\ noMedia' = (noMedia \ {p}) \cup ({p} \ noMedia)
    /\ UNCHANGED <<onDisk, mtime>>

\* The program ends, or is killed; the next one fetches the tasks that are not
\* completed.  Nothing is reloaded unless the application asks for it.
Restart ==
    /\ Spend("restarts")
    /\ pending' = {} /\ work' = NoWork /\ removal' = NoRemoval
    /\ jobs' = {[file |-> f, kind |-> "Creation", date |-> Unread, content |-> Unread,
                 stale |-> FALSE, again |-> tasks[f] = "created", phase |-> "todo"] :
                     f \in {g \in Files : tasks[g] \in {"todo", "created"}}}
               \cup {[j EXCEPT !.date = Unread, !.content = Unread, !.phase = "todo"] :
                         j \in {k \in jobs : k.kind = "Refresh" /\ ~k.stale}}
    /\ cutShort' = cutShort \cup ({removal.folder} \ {NoFolder})
    /\ clean' = FALSE
    /\ UNCHANGED <<disk, db>>

-----------------------------------------------------------------------------
Next ==
    \/ reload \/ removed \/ interrupt \/ FilesDone \/ Restart
    \/ \E p \in Folders :
           \/ addRoot(p) \/ reloadRoot(p) \/ ban(p) \/ unban(p) \/ remove(p)
           \/ convertFolder(p) \/ ToggleNoMedia(p)
    \/ \E e \in pending : checkHidden(e) \/ checkRefused(e) \/ checkFolder(e)
    \/ \E f \in Files :
           removeFile(f) \/ onUpdatedFile(f) \/ onDiscoveredFile(f) \/ Modify(f)
    \/ \E j \in jobs :
           \/ RestoreEntities(j) \/ Extract(j) \/ Fail(j) \/ Discard(j)
           \/ updateFsInfo(j) \/ saveParserStep(j)
    \/ \E j \in jobs, type \in {"Audio", "Video"} :
           createFileAndMedia(j, type) \/ refreshMedia(j, type)
    \/ \E x \in Folders \cup Files : Vanish(x) \/ Appear(x)

Spec == Init /\ [][Next]_vars

-----------------------------------------------------------------------------
(* Properties.                                                             *)

TypeOK ==
    /\ onDisk \subseteq Folders \cup Files /\ noMedia \subseteq onDisk
    /\ mtime \in [Files -> Versions]
    /\ row \in [Folders -> {"none"} \cup Known \cup Banned]
    /\ media \in [Files -> Media \cup {None}]
    /\ ext \subseteq Files
    /\ counts \in [Folders -> [video: Int, audio: Int, duration: Int]]
    /\ tasks \in [Files -> {"none", "todo", "created", "done"}]
    /\ pending \subseteq [dir: Folders, known: BOOLEAN]
    /\ removal \in [folder: Folders \cup {NoFolder}, toConvert: SUBSET Folders,
                   late: SUBSET Files]
    /\ cutShort \subseteq Folders
    /\ jobs \subseteq Job

\* The path from a root to the folder of a file has no ban and no .nomedia file.
IsVisible(f) ==
    /\ f \in onDisk
    /\ \E r \in Up[FolderOf[f]] :
           /\ row[r] = "root" /\ r \notin noMedia
           /\ \A x \in Up[FolderOf[f]] \ Up[r] : row[x] \notin Banned /\ x \notin noMedia

\* A folder of its path was banned by removing it from a larger root.
IsIgnored(f) == \E x \in Up[FolderOf[f]] : row[x] = "bannedChild"

\* A folder of its path was being removed when the program ended: its media is external,
\* and its task, which is not dropped, keeps it from being found again.
WasCutShort(f) ==
    /\ f \in ext /\ tasks[f] \in {"created", "done"}
    /\ Up[FolderOf[f]] \cap cutShort # {}

\* After a reload of everything that nothing disturbed, once the parser is done, the
\* library has the media of the files of the disk, up to date, and no other, but for the
\* files whose task failed and is kept for the next start, and those an unfinished removal
\* left external.
MirrorsTheDisk ==
    clean /\ ~Scanning /\ jobs = {} =>
        \A f \in Files : ~IsIgnored(f) /\ ~WasCutShort(f) =>
            /\ media[f] # None => IsVisible(f) /\ media[f].date = mtime[f]
            /\ IsVisible(f) => media[f] # None \/ tasks[f] = "todo"

\* The date a file has is not ahead of what was extracted from it, so that no update is
\* missed by comparing the dates: it only gets ahead while a creation that the end of the
\* program cut short, once its media was stored, is run again.
NoUpdateIsMissed ==
    [][\A f \in Files :
           media[f].content >= media[f].date /\ media'[f].content < media'[f].date
               => \E j \in jobs : j.file = f /\ j.again]_vars

\* A media that was converted to external is taken back when its file is found again, it
\* is never there twice.
OneMediaPerFile == \A f \in ext : media[f] = None

\* Folder::ban: nothing that was discovered, is being parsed or is found again may put a
\* media in a folder that is banned, or below it, but for another root.
BannedFoldersHoldNothing ==
    \A f \in Files : media[f] # None =>
        \A b \in Up[FolderOf[f]] :
            row[b] = "bannedRoot" =>
                \E r \in Up[FolderOf[f]] \ Up[b] : row[r] = "root"

\* IMediaLibrary::removeRoot keeps what the user did of their media: no media is lost
\* unless its file is hidden or was when it was listed, or a folder above it banned, or it
\* was found while the folder was being removed.
MediaAreLostForAReason ==
    [][\A f \in Files :
           media[f] # None /\ media'[f] = None =>
               \/ f \in ext'
               \/ f \notin onDisk \/ f \in work.remove \/ f \in removal.late
               \/ \E p \in Up[FolderOf[f]] :
                      p \in noMedia \/ row[p] \in Banned \/ row'[p] \in Banned]_vars

\* The triggers keep nb_video, through creations, conversions, changes of type and
\* removals.
NbVideoIsExact ==
    \A p \in Folders :
        counts[p].video = Cardinality({f \in Inside({p}) : media[f].type = "Video"})

\* What a folder's row says agrees with the media: whether it is banned, and how many
\* videos it holds.  Neither is read from the media themselves.
FolderRowsAgree == BannedFoldersHoldNothing /\ NbVideoIsExact

-----------------------------------------------------------------------------
(* What the documentation and the code promise and TLC refutes.            *)

\* MetadataParser.cpp, run(), of a file that changed before its creation is run again: "we
\* want to avoid avoid creating a refresh task in the future, since we're about to rescan
\* it".  Its date is recorded, but its duration, its type and its tracks are not.
DatesMatchExtractions == \A f \in Files : media[f].content >= media[f].date

\* Folder.cpp, remove(): "We expect a banned folder to no have any media linked with it".
\* The tasks of a folder that removeRoot banned are not dropped.
BannedFoldersHaveNoMedia ==
    \A f \in Files : row[FolderOf[f]] \in Banned => media[f] = None

\* The same of nb_audio: a change of type or a removal adds instead of subtracting.
NbAudioIsExact ==
    \A p \in Folders :
        counts[p].audio = Cardinality({f \in Inside({p}) : media[f].type = "Audio"})

\* IFolder::duration(): "Which is equal to the sum of all its member's durations".
DurationIsTheSum ==
    \A p \in Folders :
        counts[p].duration =
            FoldSet(LAMBDA f, n : n + IF media[f] = None THEN 0 ELSE Duration(media[f]),
                    0, Inside({p}))

\* IMediaLibrary::removeRoot: "The location will be ignored afterward, even if it is a sub
\* folder of another managed location".  One that was added as a root is forgotten.
RemovedFoldersStayIgnored ==
    [][\A p \in Folders :
           /\ Removing /\ ~Removing' /\ p = removal.folder /\ p \notin cutShort'
           /\ \E q \in Folders : q = Parent[p] /\ row[q] \in Known
           => row'[p] \in Banned]_vars

=============================================================================
