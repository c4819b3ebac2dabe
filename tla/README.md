# A verification project for the media library

The media library (`src/`) scans folders for media, parses what it finds, keeps the
result in an SQLite database and tells the application about it. Several threads
do this: those of the application, the discoverer's, one per parser service, the
notifier's, the thumbnailer's, the cache worker's and the device listers'. They share
the database, behind a lock of the library's own, and a handful of flags and queues.

This directory holds TLA+ modules translated from that code, TLC configurations that
check them on small instances, and proofs that TLAPS checks for every instance.
`PROJECT.json` is its index: which module stands for which lines, which run checks
which property, the mutant that shows that a property can fail, the hazards, and the
theorems. Paths in this file are relative to the repository.

    tlc -workers 2 -config Parser_recovery.cfg Parser    # a run of PROJECT.json
    tlapm Playlist_proofs.tla                            # the proofs of a module

## 1. The system

| Component | State | Operations | Talks to | Hard behaviour | What makes it correct |
|---|---|---|---|---|---|
| **Database lock** `src/utils/SWMRLock`, used by `SqliteConnection` | five counters, one condition variable | read, write and priority contexts | every thread | which waiter a wake-up reaches; priority | a writer is alone; nobody sleeps in front of a lock that would let it in |
| **Modification notifier** `src/utils/ModificationsNotifier` | a queue and a deadline per kind of event, a wake-up flag, a flush flag | `notify*`, `flush`, `run`, destructor | every thread that writes; the application's callbacks | batches are swapped out under the lock and sent without it; waits with and without a deadline | every change is sent once, and none overtakes what was posted ahead of it; `flush()` returns when all is sent |
| **Discoverer worker** `src/discoverer/DiscovererWorker` | a task list, the current task, `m_run` | `discover`, `remove`, `reload`, `ban`, `unban`, `reloadDevice`, `pause`, `resume`, `stop`, `run` | the application, FsHolder, FsDiscoverer, the parser | `filter()` merges requests, short requests interrupt a scan, which is queued again | requests are not lost; scans that were asked for happen; the thread ends |
| **FsDiscoverer** | `m_isInterrupted`, `m_paused`, a queue of folders, lists of files | `reload`, `addRoot`, `checkFolder`, `checkFiles`, `interrupt`, `pause`, `resume` | the worker, the file system, the folders' and files' tables, the parser | rows read before the listing and used after it, on a disk that changes | the tables match the disk after an undisturbed scan; no update is missed |
| **Parser** `src/parser/Parser`, `ParserWorker` | a queue, a thread and flags per service; counters | `parse`, `flush`, `restore`, `refreshTaskList`, `done`, `pause`, `resume`, `stop`, `onIdleChanged` | services, Task table, the library | queues thrown away and filled again from the table while tasks are in flight; idle flags read without a lock | no task is forgotten; work ends; idleness is reported |
| **Parser tasks** `src/parser/Task` | the Task table: step, attempts, links | `create*`, `startParserStep`, `saveParserStep`, `fetchUncompleted`, `resetRetryCount` | the database | a crash in a service, in the middle of an analysis, between two steps | bounded attempts; no step on missing data |
| **Library facade** `src/MediaLibrary` | idle flags, `m_mutex`, the workers | initialisation, `clearDatabase`, `forceRescan`, `pauseBackgroundOperations`, ... | everything | waiting for idleness, stopping in order, failing half-way | the application is told the truth; nothing blocks for ever |
| **Metadata services** `src/metadata_services` | a cache of the last album and artists | `run`, `onFlushing`, `stop` | the tables of albums, artists, shows, playlists | what is looked up is used in a later transaction; caches against flushes and rollbacks | tracks are listed where they belong, whatever interrupts an analysis |
| **Thumbnailer worker** `src/thumbnails/ThumbnailerWorker` | a queue, a pause flag, a crash record per file | `requestThumbnail`, `run`, `pause`, `stop` | Thumbnail table, libvlc | a crash while generating; requests merged by media | each request is answered; a file that crashes is not tried again |
| **Cache worker** `src/CacheWorker` | a queue, the size of the cache | `cacheMedia`, `cacheSubscriptions`, evictions | Subscription and File tables | sizes against limits | the limits hold |
| **FsHolder and devices** `src/filesystem/FsHolder`, `Device` | the factories, callbacks, presence of devices | mounts, `setNetworkEnabled`, `startFsFactoriesAndRefresh` | device listers, the parser, the discoverer | two mutexes and the database's lock; presence read then written | the table says what is mounted |
| **Connection and transactions** `src/database` | one handle per thread, nested transactions, failure handler | contexts, `newTransaction`, hooks | all entities | nested transactions that fail; hooks run before the commit | what is half done is undone |
| **Media, files, folders** `src/Media`, `File`, `Folder` | their tables, the counters of the folders | bans, removals, conversions, refreshes | discoverer, parser, application | foreign keys and triggers carry a change to other tables | nothing is there twice, or lost without a reason |
| **Media groups** `src/MediaGroup` | groups with a dozen counters | grouping by title and by hand, renaming, dissolving | the parser, the application | seven triggers on one table add to the same counters | counters match the listings; an emptied group vanishes |
| **Playlists** `src/Playlist` | positions and counters | `add`, `remove`, `move`, clearing | the application, the media | positions shift row by row; a media may be in it several times | positions are dense; an edit does what it says |
| **Albums, artists, genres** `src/Album`, `Artist`, `Genre` | counters of tracks, of albums, of presence | analysis, refresh, deletion, devices | the parser, the devices | counted in by one event and out by another | counters match the rows; empty rows vanish |
| **Thumbnails** `src/Thumbnail` | rows shared by entities, links, cleanup requests, files | `setThumbnail`, replacement, relocation, flush | parser, application, thumbnailer, notifier | a file belongs to a row that entities share and that triggers delete | what is shown has its file; what is not is cleaned up |
| **Shows, movies, labels, subscriptions, ...** | their tables | their methods | the database | few: rows written one at a time | |
| **Model and migrations** `src/MediaLibrary`, `src/database/migrations` | the version of the model | `updateDatabaseModel` | the database | a failure half-way | the model is up to date or recreated |
| **Queries, utilities, platform wrappers, file system access** | none kept between calls | | | | pure functions, or input and output |

How they interact in one discovery: an application thread calls `discover()`, which queues
an `AddRoot` and a `Reload`; the discoverer's thread scans, and inserts a Task row per
file, which `Parser::parse()` counts and queues on the first worker; each worker
calls its service and hands the task to the next; every insertion goes through
`SWMRLock` and, by an SQLite hook, into a queue of the notifier. When the
workers and the discoverer are idle, the library flushes the notifier and tells the
application so. A device that comes or goes updates its row, then makes the parser
throw its queues away and read them again, and the discoverer reload its roots.

A file found for the first time becomes a media in several transactions of several threads: the
discoverer writes the task, the parser extracts, creates the media and its file, files it under
an album and artists or a group, and hands its picture over; triggers of five tables count it.
Between any two of them the folder may be banned, the device unplugged, the file changed or
deleted, or a rescan forced.

The hazards that follow from this are the `hazards` of `PROJECT.json`, each at its line.

## 2. What is modelled

| Module | Code | Kind |
|---|---|---|
| `RWLock` | what `SqliteConnection`'s contexts promise | abstract specification |
| `SWMRLock` | `src/utils/SWMRLock.{h,cpp}` | detailed; implements `RWLock` |
| `ModificationNotifier`, `MCModificationNotifier` | `src/utils/ModificationsNotifier.{h,cpp}` | detailed; instances |
| `DiscovererWorker`, `MCDiscovererWorker` | `src/discoverer/DiscovererWorker.{h,cpp}`, the control of `FsDiscoverer.cpp` | detailed; instances |
| `DiscovererWorker_proofs` | | proofs |
| `Parser` | `src/parser/{Parser,ParserWorker,Task}.cpp` | detailed |
| `Parser_proofs` | | proofs |
| `BackgroundTasks` | the threads and flags of `ParserWorker.cpp`, `Parser::onIdleChanged`, the idle flags and operations of `MediaLibrary.cpp` | composition |
| `Concurrency_proofs` | extends `SWMRLock`, `ModificationNotifier` and `BackgroundTasks` | proofs |
| `Discovery`, `MCDiscovery` | `src/discoverer/FsDiscoverer.cpp`, `src/Folder.cpp`, and what `Media`, `File`, `Task`, `MetadataParser` and `DiscovererWorker` do to files | composition; instances |
| `Discovery_proofs` | | proofs |
| `Collection`, `MCCollection` | `src/{Album,Artist,Genre}.cpp`, the analysis of audio files in `src/metadata_services/MetadataParser.cpp` | composition; instances |
| `Collection_proofs` | | proofs |
| `Thumbnails`, `MCThumbnails` | `src/Thumbnail.cpp`, `src/thumbnails/ThumbnailerWorker.cpp`, the pictures in `MetadataParser.cpp` | composition; instances |
| `Thumbnails_proofs` | | proofs |
| `MediaGroup`, `MCMediaGroup` | `src/MediaGroup.cpp`, the same of `src/Media.cpp` | detailed; instances |
| `MediaGroup_proofs` | | proofs |
| `Playlist`, `MCPlaylist` | `src/Playlist.cpp`, the same of `src/Media.cpp` | detailed; instances |
| `Playlist_proofs` | | proofs |

The names are the code's: an action has the name of its function, or of the part of a
function that runs without releasing a lock; a variable that has the name of a member is that
member. What holds a mutex from beginning to end is one step.

**SWMRLock.** One action per entry into and exit from a context. A thread waiting on the
condition variable is in a wait set; `notify_one` wakes any one of it,
`notify_all` all, and spurious wake-ups happen. `RWLock` knows who is inside and who
has priority, and not how anybody waits.

**ModificationNotifier.** `notify()` and `updateTimeout()` are separate from the
notification of the condition variable, as the code sends it outside of `m_lock`.
`run()` is cut where it tests its predicate, blocks, checks queues and calls the
application. A queue of the model is one of the code's, typed by entity and by
created, modified or removed. A deadline is the time left before it, 0 once it is due, and `Tick`
brings all of them nearer. Each change is posted once, at any time: the order of the posts is the
callers' and nothing is assumed of it. A removal may come first: creations are posted after their transaction,
and `Media::convertToExternal()` posts the removal of a row that lives on. `ahead` remembers which of the changes
that wait were posted ahead of which, for the kinds that `notify()` hands over in that order (`Precedes`).

**DiscovererWorker.** The task list is a sequence; `filter()` is `Redundant` and `Filtered`,
which erase as they go until they stop, as the loop does. `enqueue()` decides on the interruption
and on the requeue. `discover()` is two calls of it, with room for others in between.
A root folder stands for its tree: it is scanned in one step, between the points where
the flags are tested. The file system may or may not answer for a removable root, each
time. The folders stay on the disk.

**Parser.** A row of the Task table and the objects built from it are different
things: `Job` builds one, with only what the table holds. Each worker takes, restores,
starts, runs and ends a task in steps of their own, so that a crash, a mount or a refresh of
the list may come between any two. `Crash` leaves the database and nothing else.
A known file that is gone while its device is there postpones the task (`Task.cpp:394`): this is in `Discovery` (`RestoreEntities`).
`LastTaskInfo`, the cache of the last folder restored, is a choice: restoring an entity on an
absent device may succeed. A refresh queues the rows in any order. The tasks of subscriptions are left out.

**BackgroundTasks.** Tasks are only counted. What `parse()`, `pause()`, `flush()` do under a
worker's `m_lock` is one step; a worker that turns idle sets its flag, then reads the
others' one at a time (`Ask`), holding its own `m_lock` if it is in its loop
(`"reporting"`) and not if it leaves it (`"leaving"`). `clearDatabase()`,
`forceRescan()`, pausing, resuming and stopping go worker by worker. Two things are an
abstraction: the discoverer is busy, idle, or held in a paused scan (its own module says why), and
the tasks that restoring playlists or a rescan queues are among those of `Add`, which may
come at any time. The refresh of the task list by a device is covered by the flush of
`forceRescan()` for what the flags see.

The five modules of the tables share a form. The tables are read and changed as one value: a request, with the
triggers it sets off, is an operator from a database to a database (in `Discovery`, an action), and each trigger one by its name; a
transaction is one step, because the connection's write context lasts until it ends (`SWMRLock`).
A statement that breaks a `CHECK`, a key or a `UNIQUE` constraint throws, its transaction is rolled back,
and so the step is not taken, unless the code catches the exception.

**Discovery.** The disk changes at any moment. `checkFolder` reads rows and disk for one
folder; `checkFiles` makes its three lists (`Listing`), which are carried out file by file. The
commands are the tasks of the discoverer's thread (`addRoot`, `reload`, `ban`, `unban`,
`remove`), one at a time. Tasks that the parser holds are `jobs`, which read the date of the file,
extract, and create or refresh the media in separate steps. A folder's ban depends on whether it is a root.
A job whose row went is `stale`: it may still run. The version of a file is its date and its content. All is on one
device that stays; playlists and linked files are left out.

What the code does in several transactions is several steps, and a job or the end of the program may come between any two.
`remove` crawls through the folder and its subfolders, `convertFolder` is the transaction of one of them, `removed` deletes the
row of a root or bans that of another folder. `createFileAndMedia` commits the media and gives the task its file (`"created"`);
`saveParserStep` completes it later (`"done"`). `refreshMedia` stores what was extracted, `updateFsInfo` then the date.
The `phase` of a job is how far it went. A `Restart` builds the jobs again from the table, with nothing read:
`RestoreEntities` looks their files up, and drops the task of a file that is gone unless the library knows it. The
creation of a file that the library knows is run `again`: it creates and extracts nothing, but records the file's new date. `cutShort` remembers the folders
whose removal a restart interrupted.

Left out: the refresh of the parser's tasks that follows a removal or a ban (`DiscovererWorker.cpp:469`), which is in `Parser`;
a request that fails in the middle of `Folder::remove()`; the debug assertion that what is crawled is
not banned. Subfolders that are banned are crawled as the release build does.

**Collection.** The analysis of a media is cut at its requests: `LoadCache`, `handleGenre`,
`findOrCreateAlbumArtist`, `findOrCreateTrackArtist`, `findAlbum`, then one transaction
(`parseAudioFile` or `refreshMedia`), `KeepCache`, and the parser's bookkeeping. Deletions,
the device, `createRefreshTask`, `forceRescan` (whose flush and reset are two steps) and a
restart come between. `MayMatch` and `MayDiffer` are the heuristics of `findAlbum`, as far as folder, presence
and tags decide. Albums have one disc and no year; attempts are not counted (`Parser` does);
movies and shows are left out.

**Thumbnails.** One size, one album with its artist. `updateOrReplace`, `update`, `relocate` and the
link requests are the functions of `Thumbnail.cpp`; `Count`, `Relinked`, `DeleteRow` and `Unlinked` its
triggers. A transaction that leaves a link to a deleted row breaks its foreign key and is rolled back; the `ON DELETE CASCADE` never finds
a link, the counters being exact. A file is known by the row it was written for. The thumbnailer's thread takes a task, then for a media inserts
the crash record, generates, and stores; for a cleanup it removes files one by one, which
the system may refuse. It looks the media up when it begins, while the code holds it from the request on. Attempts
and the failures that become final, other sizes, the restart of the library, and what debug builds assert are left
out; a stopped thumbnailer stays so. The analysis relocates a picture right after its transaction (`MetadataParser.cpp:1144`), the
model with it.

**MediaGroup.** The counters are by type, all and present, with those of external and of
played media and the duration. `Update` is a change of a media's row with every trigger on it. A title has a prefix; `commonPattern` of two titles is their prefix if they have the same.
A media leaves its group with the title of the object the caller holds, which may have been fetched before another
thread renamed the media: `borne` is the set of the titles a media has had, and `removeFromGroup`, `regroup` and
`assignMediaToGroup` take any of them. `outdated` remembers the singletons that were named so and not renamed since. Two things are left
out: such an object setting the title the row already has, which only fires the trigger that puts the singleton's name right, and the titles that
`createMediaGroupOf` compares, which are current. `addToGroup`'s second update of the object, after the commit (`MediaGroup.cpp:258`), changes nothing that the properties see.
`lossy` remembers the groups in which the code has lost count of an external media: the triggers that
follow a type, a play count or a deletion look at the media's type and not at how it was imported (`Spoils`).

**Playlist.** The rows of a playlist are a set, with positions. `Insert` and `DeleteRows` shift
positions row by row as the triggers do. Positions and counts are unsigned of the width `UIntMax`.
`addRows`, `Removed` and `Moved` are the bodies of `addInternal`, `removeInternal` and `move`, and
the run compares them, in every reachable state and for every argument, with the definitions of insertion and removal in a sequence.
`spoilt` marks a playlist from the removal that subtracted other items than it deleted: the range is counted
among the items whose media are present, and deleted among all. `DeleteRows` says what the trigger has done once every
row of a range is gone, as the trigger shifts by one for each. The counters are those of the row: the copies that a `Playlist` object
keeps are left out (`addInternal()` adds the videos to the object's present ones, `Playlist.cpp:411`; the row gets the right number), and so is the
listing of public media only.

## 3. The runs

All bounds are constants in the `.cfg`. Every run finishes in about two minutes and a half. Each property
of a passing run has one or two mutants in `PROJECT.json`: a plausible bug in one definition that TLC finds
with this very property. The type invariants (`TypeOK`, and `LockTypeOK`, `NotifierTypeOK`) are theorems of every
module but the abstract `RWLock`, and none is repeated in the runs.

| Run | Instance | Shows |
|---|---|---|
| `lock` | 4 threads, 3 of which may own the priority | refinement of `RWLock`; without priority, no lost wake-up and progress |
| `notifier` | two kinds of entities, 1 row, 2 changes, delay 2 | exactly once, nothing overtaken, complete flushes, the destructor; changes surface if the library goes idle |
| `discoverer` | 2 roots, 1 removable, 3 requests of any kind | scans, bans, order, ends |
| `parser_recovery` | a new file on a removable device, 3 crashes, 2 (un)mounts | attempts, recovery |
| `parser_links` | a link task and a playlist, 1 refresh, 1 retry | the parser settles, its counters equal |
| `background` | 3 workers, 2 tasks, 1 requeue, 1 scan, 1 call and a stop | flags, reports, nobody blocked |
| `discovery` | a folder in a folder, a file in each; 1 change of the disk and what comes back, 1 restart, 4 commands | the library mirrors the disk, misses no update, has nothing twice and loses nothing; folders agree with their media |
| `collection` | 2 tracks, 1 on a removable device, 4 tags, 2 disturbing events | counters, listings, empty rows |
| `collection_presence` | the same | refutes: an artist's presence is the number of its present tracks |
| `thumbnails` | a video, 2 tracks, an album, an artist; 1 embedded picture, 3 rows, 2 requests, 1 file that cannot be removed | reference counts, files, cleanups |
| `groups` | 2 media, 3 groups, 2 titles with a common prefix, 2 types | counters, durations, singletons, emptied groups |
| `playlists` | 2 media, 2 playlists, 4 items in all, integers of 3 bits | positions, counters, edits against sequences |

Why the bounds are enough:

- *lock*: the interesting states have a holder, an owner of the priority that waits, an ordinary
  thread that waits and one that arrives: four. Three owners show that owners do not
  exclude each other.
- *notifier*: changes of the same row and of different kinds
  are needed for one to overtake the other; two are enough for a change that arrives while another's batch is
  being sent, and a delay of 2 lets a second change arrive between the first and its deadline.
- *discoverer*: `filter()` compares a request with those of the same root only, but a
  device or a reload of everything interrupts the scan of another root: two roots, one on
  the device. They may be known or banned to begin with, so three requests are an
  interruption of a running task, what it merges with, and a stop or another interruption.
- *parser*: the tasks meet only in the queues and the counters; two rows are enough for a
  task that is processed while another is fetched. With two attempts the third crash
  must be refused. Two is the code's number (`Settings::MaxTaskAttempts`); the six attempts of a link task are
  brought down to two, being only compared with 0.
- *discovery*: a folder in a root gives every relation between a ban, a root and a file: above, at, and
  below. Four commands
  are an addition, a removal or a ban, what undoes it, and a reload; one change is a file, or a folder with its file, that vanishes, and may come back, or that is modified or hidden
  around any step of them, and one restart cuts any of them short. Two files tell a folder's own from its subfolder's. Two changes with four commands and three
  changes with three, without a restart, and two changes with a restart and three commands were also checked, once, and hold; the theorems have no bound.
- *collection*: two tracks may have one album and two artists, which makes the album one of various
  artists, or differ; four tags have every combination of absent and present album and album artist that takes another
  path. One is enough to be the last to leave. Ids are never used again: ten cover two analyses repeated twice.
- *thumbnails*: two tracks share the picture of their album, which the artist also shows: a row counted four times.
  Three rows let one replace another while the thumbnailer has a third.
- *groups*: each trigger looks at one media and at most two groups; the second media is the one that stays. A
  third group is one that is created meanwhile.
- *playlists*: the items of a range, one before it and one behind it; a media that is twice in a playlist and in another.
  Three bits keep the maximum beyond any position, and make `position + 1` and `from + count` wrap.
- *background*: two tasks make two workers busy at once, one requeue brings a task back
  to a worker that turned idle, and one scan covers the other flag. The proofs
  lift the bounds for the invariants on the flags.

Fairness. The modules of the tables state none: they have safety properties only. In the others: `WF` on the steps of the library's threads: the operating system schedules
them, services and file system calls return. Nothing forces the application to call, to
resume what it paused, or to stop. For the lock: a thread that holds a context
leaves it, a thread that was woken runs; the lock's clients do arrive or not. Condition
variables are not fair: which waiter `notify_one` wakes is never constrained. The
notifier's clock advances.

## 4. What the runs refute

One of them is kept as a run: **an artist's presence is not the number of its present tracks** (`collection_presence`,
`ArtistPresenceIsExact`). The relations add one and subtract one whatever the presence of the media, and a device
tells the track's artist only, not that of its album.

Another one matters to what is proved: **a file may be recorded as up to date without having been extracted** (`DatesMatchExtractions`, in
`Discovery`). When the program ends after
the creation of a media has committed and before the step of its task is saved, the creation is run again after the restart,
on a file and a media that are known. `MetadataAnalyzer::run()` then skips what would set the duration, the type and the tracks, but still records the
file's new date, to "avoid creating a refresh task in the future, since we're about to rescan it" (`MetadataParser.cpp:232`): if the file changed in
between, no refresh is ever made of that change. Nothing else does this: `NoUpdateIsMissed` says that the date of a file only gets ahead of its content while the parser holds such a task for it.

The others are stated in the modules, in the sections of what TLC refutes or under a comment that says so, each
with the words it contradicts; no run is kept for them. To see one fail, put it in place of the properties in the component's
`.cfg` (with `Request <- Removals` for the removals of `DiscovererWorker`, a restore task and a crash for the playlists of
`Parser`, and `FairSpec` for the temporal ones):

- `SWMRLock`: `PriorityOwnerGetsLock`. `unlock_read()` wakes one waiter of the single condition variable,
  which may be one that must give way: a priority owner may sleep for ever.
- `ModificationNotifier`: `ChangesSurface`, a change may never be sent unless the library is flushed: the wake-up
  is flagged and notified without `m_lock`, between the predicate and the wait.
- `DiscovererWorker`: `RemovalsAreApplied`, `filter()` takes a queued addition or
  reload for the proof that the root is not in the library, and drops its removal.
- `Parser`: `PlaylistsAreRestored`, `fetchUncompleted()` never returns a restore task, so that a refresh of the list loses it.
- `BackgroundTasks`: `ClearingReturns`, `clearDatabase()` may not return. `parse()` puts the idle flag of a
  worker down before its thread has run. When a pause or a flush comes in between, the
  predicate of the thread's wait is false, and it sleeps on with its flag down.
  And a thread that is started while its worker is paused says that it is busy and, its
  flag being up, never that it is idle.
- `ModificationNotifier`: `FlushIsComplete`, a flush asked for while a batch is sent
  is acknowledged before its changes are; `NewMediaSurface`, the queue of a subscription's new media
  is never checked by `run()`.
- `DiscovererWorker`: `UnbansAreApplied`, an unban erases a queued ban and is dropped though the
  folder was banned before; `StopHandlesShortTasks`, a thread that waits leaves without
  what was queued before `stop()`; `RequestsInterruptReload`, `reload()` resets an
  interruption that came before; `RootAddedOnceStarted`; `StopTerminatesPaused`, `stop()`
  joins a thread whose scan is paused; `PauseHolds`, a pause that precedes the first request is
  not remembered.
- `Parser`: `CompletionIsSignaled`, a flush resets the counters and says nothing;
  `FlushSparesRunningServices`, `onFlushing()` is called while `run()` is.
- `BackgroundTasks`: `IdleMeansNoWork`, a worker that saw every flag up reports after
  another turned busy; `StopLeavesNoThread`, a task that is requeued to a worker already joined starts
  its thread again.

- `Discovery`: `BannedFoldersHaveNoMedia`, the tasks of a folder banned by its removal from a larger root still
  run; `NbAudioIsExact`, the second half of `UpdateNbMediaOnUpdate` has the wrong sign for audio media;
  `DurationIsTheSum`, the first insertion adds no duration; `RemovedFoldersStayIgnored`, a removed root that is
  in another root is not banned.
- `Collection`: `PresenceIsNeverRefused`, the miscounted presence of an artist breaks its `CHECK` and the
  device's return is refused; `VariousArtistsListsAll`, missing tracks are not listed; `DurationIsTheSum`, `removeTrack()`
  subtracts the duration that a trigger has subtracted and no refresh adds it; `LookupsAreFresh`, an analysis that has looked up a row, or cached
  an album, which its last track then takes away fails with a foreign key, until the restart if it is the cache.
- `Thumbnails`: `FilesAreNotShared`, a picture held in memory gets a row of its own before the row to update takes
  its file, and the artist may then be linked with the first; `UnusedRowsVanish`, otherwise that row stays without a link;
  `NoFileIsLeaked`, nothing removes the file the updated row had before; `UserThumbnailsCanBeFlushed`, the picture of the
  application updates a crash record and its link keeps saying that it comes from the media; `NoDanglingLink`, a media deleted
  before the thumbnailer inserts its crash record gets a link.
- `Playlist`: `MoveToTheEnd`, at `UINT32_MAX` `position + 1` wraps to 0 and the move is taken for a no-op;
  `DurationIsTheSum`, a media that is in a playlist twice changes its duration once.

Also visible in the modules, without a property: the task of a file that was not there when it ran keeps its row, and
the file is not added again before a restart; a stale task on a media that was converted meets a foreign key; a subfolder of a
banned folder can be reloaded by its own path; an exception in the thumbnailer ends its thread for good; cleanup requests of an
earlier run wait until another is made; `deleteFailureRecords()` looks for rows without an mrl, which no row is;
the analysis repeated after a crash fails with a primary key, its `catch` being for a table that is gone; `forceParserRetry()` gives rows attempts back and
queues nothing; `clearDatabase()` and `forceRescan()` resume nothing when they fail
(`Recreate`); `forceRescan()` resumes a parser that the application had paused
(`Resume`); a reload is dropped when a removal of the same root is queued
(`MadeRedundantBy`).

## 5. What is proved

With TLAPS, for every value of the constants that the `ASSUME`s allow: any finite set of
threads for the lock; any kinds of entities, rows and delay for the notifier; any finite set of
rows of each type, any numbers of attempts, crashes, mounts, refreshes and retries for the parser;
any number of tasks, requeues, scans and calls for the background tasks; any set of roots and number of
requests for the discoverer; any tree of folders, finite set of files, changes and commands for the discovery; any
finite sets of videos and tracks, rows, requests and files that cannot be removed for the thumbnails; any finite
sets of media and groups, titles, durations and number of edits for the groups; any finite sets of media and playlists,
width of the integers and bounds on items and edits for the playlists; any finite set of media, set of tags, highest id and
number of disturbing events for the albums, artists and genres.

What is assumed of the constants is what the code has: a folder is not below itself and files are finitely many
(`TreeAssumption`), no request is the absence of one (`DiscovererAssumption`), the types of tasks are disjoint
(`ParserAssumption`), the media are finitely many and videos and tracks are different (`ThumbnailsAssumption`); media and groups are finitely many, an absent row is
none of the rows, no title is a prefix, and the types are the code's three or fewer, videos and unknown among them (`MediaGroupAssumption`);
media and playlists are finitely many, an absent row is none of the rows, the types are those that the triggers tell apart, and the
maximum of an unsigned integer is beyond the number of items (`PlaylistAssumption`); the media are finitely many, each in a folder, an absent row
is none of the rows, no album object is the null one, and there are more ids than the two default artists take (`CollectionAssumption`).

| Theorem | Says |
|---|---|
| `Concurrency_proofs`, the lock: `LockTypeCorrect`, `CountersStayExact`, `WriterIsAlone` | the counters equal the numbers of threads they stand for; a writer excludes all others |
| `LockImplementsRWLock` | `Spec => RWLock!Spec` under the mapping of the run |
| `WakeUpsSuffice` | in a behaviour without priority contexts, no thread is left asleep in front of a lock that lets it in |
| `Concurrency_proofs`, the notifier: `NotifierTypeCorrect`, `ChangesSentOnce`, `ContentHasDeadline` | no change is lost or repeated between queue, batch and callback; a queue has a deadline exactly when it holds something |
| `ToldInOrder` | no change is told after one that was posted behind it and that a batch hands over with it or later |
| `QuietFlushesAreComplete` | a flush that found the thread waiting returns once all that was queued before it was told |
| `Parser_proofs`: `TypeCorrect` | the counters stay in order, the rows and jobs well formed |
| `AnalysisNeedsInfo` | the analysis only runs on a job that its extraction has filled |
| `CrashBound` | if no retry is forced, a task that is not completed crashes the program at most as often as it has attempts |
| `NoTaskIsForgotten` | once the queues are empty, each row was completed, or tried since the last event that gave it a chance |
| `StatsAlwaysComplete` | once all is over, as many tasks are counted done as scheduled |
| `Concurrency_proofs`, the background tasks: `TasksTypeCorrect`, `CallbackTellsBothFlags`, `LastWorkerReports` | the last callback agrees with both flags; the last worker to turn idle always reports |
| `DiscovererWorker_proofs`: `TypeCorrect`, `ShortTasksAlwaysFirst` | no short task waits behind a scan |
| `RootsAlwaysScanned` | once the requests are handled, a known root was scanned since its scan was last asked for |
| `BansAlwaysApplied` | once the requests are handled, a ban that came last and was not refused holds |
| `Discovery_proofs`: `TypeCorrect`, `NoUpdateIsEverMissed` | no step puts the date of a File row ahead of what was extracted from it, but a creation that is run again after a restart cut it short |
| `OneMediaForEachFile` | a media converted to external is never beside another one for its file |
| `FolderRowsAlwaysAgree` | no media is below a ban but for another root; `nb_video` is the number of videos |
| `MediaAreOnlyLostForAReason` | every step that takes a media away has the reason in the disk, the listing, a ban, or a removal during which the media was found |
| `TheScanMirrorsTheDisk` | after a reload that nothing disturbed, once the parser is done, the library has the media of the files that nothing hides, of the same date, and no other; left out are the files below a folder removed from a root, those whose task is kept for the next start, and those that a removal cut short by a restart left external |
| `Thumbnails_proofs`: `TypeCorrect`, `CountersAlwaysExact` | each row counts the entities that show it |
| `ShownFilesAlwaysExist` | what is shown as available has its file, as long as no other thumbnail has named that file |
| `CleanupsNeverForgotten` | a pending cleanup is with the notifier, the queue or the thread, unless the thread stopped or the file cannot be removed |
| `MediaGroup_proofs`: `TypeCorrect`, `CountersAlwaysMatch` | a group that no external media spoilt counts what its listings return, and is listed when it has something to show |
| `DurationAlwaysTheSum` | a group lasts as long as its members together, spoilt or not |
| `SingletonsStayAlone` | a media that was taken out stays alone, in a group of a title it has had: its own, unless it was renamed before its removal, by another thread, and not since |
| `EmptiedGroupsAlwaysVanish` | no step empties an unspoilt group and leaves its row, or removes the row of one that has a media |
| `Playlist_proofs`: `TypeCorrect`, `PositionsStayDense` | the positions of a playlist are 0 to n - 1, each once |
| `CountersFollowItems` | the counters of a playlist that no removal spoilt are those of its items, one for each place |
| `NbPlaylistsStaysExact` | a media's `nb_playlists` is the number of its places |
| `EditsDoAsDocumented` | each edit, row by row through the triggers, does to the list what the documentation says |
| `Collection_proofs`: `TypeCorrect`, `CountersStayExact` | albums, artists and genres count the rows that refer to them |
| `ListingsStayInAgreement` | a track is listed with its artist and with its album's; a media that is no track is listed nowhere |
| `EmptyRowsDoVanish` | what has no track is held by the analysis in progress, or was left behind by one that did not reach its end |

The arguments:

- *Lock.* `CountersExact` is inductive once `TypeOK` is added: each action moves one thread
  from one control state to another and one counter with it. Exclusion follows from the
  counters that the predicates test. For `WakeUpsSuffice` the property is not inductive: waking one
  thread, as the last reader does, is enough only because all who sleep then are writers.
  They are: a reader only sleeps behind a writer (`BlockedReaderBehindWriter`), and a writer
  that leaves wakes all.
- *Notifier.* The changes posted are split between the queues, the batch and those sent,
  without overlap: each action moves a change from one part to the next. The order in which
  they are told needs `NoOvertaking`: of two changes that wait, the one posted ahead is never behind, neither because it is in the
  queue while the other is in the batch (the content of a queue is swapped out as a whole) nor in the batch (where removals go last). A flush is
served while `m_flushing` stays up, which it does until the round is over: what the caller is owed is in a queue that the
round has still to check, or in its batch (`FlushServed`).
- *Parser.* Wherever a job is, its step says no extraction, an extraction with its result, or
  completion, and a row's step never stops at the extraction (`StepOK`, `RowsOK`): what comes back
  from the table starts anew. Past the first queue a job has been extracted or is a link
  (`Arrived`), which holds because a worker only forwards what it completed. The bound on
  crashes adds up, for each row, the attempts left, the services running on it and the
  crashes: a start, an end or a crash moves one unit from one to another, and only completion adds
  any. The sum is not enough by itself: two jobs of a row, one parsed and one restored, may take the
  attempts below zero. What saves the bound is that a crash empties the queues, and a row is
  only queued again with an attempt left (`AttemptsOK`). A retry forced while a service
  runs breaks the sum and allows one crash more, hence the assumption `MaxRetries = 0`.
- *Background tasks.* Four facts strengthen the property: a worker without a thread, or
  that is asking the others with its lock held, is idle; threads only end when told; an
  announced thread starts with its flag down; and once every flag is up, either the library
  knows or some worker is still asking. The last one is what makes the
  unlocked reading in `Parser::onIdleChanged()` work: whoever gives up has seen a flag down,
  and the owner of that flag will ask in its turn.

- *Parser, tasks and statistics.* `NoTaskIsForgotten` is about a state where all is over. Before
  that a forgotten row must have a job (about to be queued, queued, in a worker, fetched) or a caller that is
  going to fetch (`KeptInvariant`). The fetch finds it, since a job that believes its row completed is right (`Shown`).
  For the statistics, scheduled less done never exceeds what is outstanding (`StatsInvariant`): the queues' lengths, the
  busy workers, the lists about to be queued and the tasks counted and not yet queued. It is an
  inequality because a flush throws counted jobs away while others go on; where the counters are about to be
  reset nothing is claimed. Sums over workers and callers are written out, there being three of each.
- *Discoverer.* `enqueue()` is the core: `filter()` erases what a request makes redundant up to where it stops, and
  drops the request itself if something queued does its work. What a call keeps of the list is one lemma
  (`EnqueueMoves`), applied by every action that queues. The list stays sorted, short tasks first, so a `Reload` is never taken while the
  `AddRoot` of the same call waits (`TasksOK`, `BatchCovered`). A root whose scan is due is *pending*: its
  `Reload` is queued, taken or running, its reload is the second half of a `discover()` that has not come
  yet, or an addition or a device will ask for it (`DueOK`). A ban that came last is queued, in
  the thread's hands, or done (`BanOK`). A reload of everything or of its device counts for it too, up to the list of roots that it has yet to scan.
- *Discovery.* Six groups of facts. Dates: the lists and the jobs hold dates read earlier, which are not after the file's
  version, and a refresh that has stored what it extracted will record a date that is not after it (`DatesOK`). Tasks: the row of a
  task says how far its job is, and no two jobs share one, so that a job is only run `again` when its media was stored by an earlier
  run (`TasksOK`). Removals: while a folder is removed nothing is scanned, and the part that was converted
  holds no media but those that jobs have created since (`RemovalOK`): what the last transaction deletes was external or late. Rows: what has a media, a task, a place in the list of additions or a fresh job has its
  folder's row, whose parents have theirs (`RowsHang`), so that a ban, which
  carries the whole subtree away, leaves no work that would put a media back. The queue of folders: an entry
  whose folder's row went since says so (`PendingOK`). Counters: each trigger moves one file in or out of one folder, and a removal
  converts a set of files one at a time, which the induction over finite subsets in `Removal` follows.
- *Discovery, the whole scan.* `MirrorsTheDisk` compares the end of a scan with the disk it began with. What holds in between
  (`MirrorInv`, checked with TLC on the tree of the run and on three folders in one another before it was proved) is said path by
  path, from a root to a folder. What was read of the disk is still true (`WorkIsFresh`, `JobsAreFresh`). A path of rows either holds an entry that is
  still to be checked or has no `.nomedia` file on it (`RowsAreShown`); a media at the end of it is up to date, or in the lists of the directory, or has a
  refresh job, or its path holds such an entry (`MediaAreFresh`). A file that nothing hides has its media or its task, or is in the list of additions, or a
  directory of its path is still to be read (`FilesAreFound`): a directory refused because it is a root of its own
  counts for nothing, but then that root has its entry. When a directory is checked the next folder of each path through
  it is pushed, or its row goes with all that is below (`CheckedNext`). Every row hangs from a root or a ban (`RowsRooted`), and a task that has a file, but no
  media, is that of an external one below a folder that was removed from a root, is being removed, or whose removal was cut short (`DoneOK`): those are the files the
  property leaves out, with the second case over by the time it speaks. A job that has recorded a date recorded that of the disk (`DatedAreFresh`).

- *Thumbnails.* A transaction of the analyzer, the thread or the application is a chain of requests with their triggers. One relation says what
  each may do (`Keeps`): rows and files grow; a row nobody shows any more is deleted, with a cleanup; an old row is newly shown only if the
  album, the artist or a track showed it; no row takes the file of another, but that of one just inserted. It composes, so each function of `Thumbnail.cpp` is one lemma,
  and the loop over an album's tracks their induction. The invariant adds what the counters do not say: nobody else shows a video's row
  (`Apart`), so that what the thread has read of a video stays that video's own row, or the row is gone (`Held`); and a
  cleanup that stands names a file that no row shows (`CleanupsUnused`), unless two rows were given one file (`AliasesSeen`). Where
  the row to update went, the link would dangle: the foreign key refuses it (`Analyzing`).
- *Groups.* A counter is a sum over the group's members (`Of`), and what a trigger adds to a row is what one media weighs.
  One relation says what the triggers do when one row of `Media` changes (`Tracks`): the sums of its old group lose what it
  weighed and those of the new one gain what it weighs, unless its change is one the triggers misjudge (`Spoils`).
  The duration and the sum of `nb` and `external` follow even then (`Counted`), so a row only goes when nobody is left, in spoilt groups
  too. A transaction is a chain of such changes and of rows created and relabelled; between two of them the tables
  satisfy `Good`: the invariant, with every group gone that was emptied on the way, except that a group which is being
  joined may still be marked a singleton. A new singleton bears a title its media has had, and its own once the trigger has
  renamed it (`Bears`). The loops of `destroy()` and `regroup()` are inductions over the media that are done: the others are where they
  were (`Dissolving`, `Gathering`), and a row is left for each.
- *Playlists.* The rows of a playlist are a list: a bijection with `1..n` (`IsList`). An insertion by the trigger that shifts the
  rows behind is the list with one more (`PutAt`); the deletion of any set of rows leaves the others in order and dense (a row goes up
  by the number of those deleted before it), and the deletion of a range is the list without it (`Skip`). The loops of
  `addInternal()` and of the cascade are folds, unfolded one row at a time. What a statement does to the counters is
  said column by column (`Column`): each column is a sum over the media of what one item is worth, times the
  places it has (`Worth`). `nb_playlists` is the same sum the other way round, over the playlists. `Sound` holds between any two statements,
  whatever the counters; a removal that counts other items than it deletes is the only thing that
  spoils them, and `Matches` is claimed of the others. For the documentation, lists and sequences are compared index by index.
- *Albums, artists, genres.* Each counter is the cardinality of the set of rows that refer to it, and each statement with its triggers
  moves one element in or out of such sets (`ArtistUpdated`, `AlbumUpdated`, `GenreUpdated`), or a set of
  them when a device comes or goes (`Presented`). A row goes with its last element, and a deletion must not
  take more with it than it should. What makes that true is `Agree`: the album of a track has
  an artist with which that track is listed, so that an artist never goes while it still has an
  album or a track (`Spare`, `AlbumIsSafe`). Listing and unlisting a media are folds, unfolded one relation at
  a time (`DropDone`, `ListingDone`). Between the lookups and the commit the tables only lose rows or gain fresh ones: ids are not used again (`Known`), so a
  cached album whose row is still there has the artist the cache says (`Faithful`). An empty row is one that the
  analysis holds (`Held`) until the transaction that uses it, or what an analysis that failed or a
  restart has left. That transaction is one lemma over its database half-way, the album there and its track not (`Ready`, `FiledAndListed`).

Induction over data has no rule here. Where a set shrinks or a sequence is walked, the proofs take
the least counterexample instead: a smallest subset (`MinimalSubset`) or a smallest number, which needs only theorems
without an operator parameter. A fold over a set is unfolded by a lemma proved from its definition
(`RemovalUnfolds`, `FoldUnfolds`); `SelectSeq` cannot be, which is why what `filter()` spares is a recursive function (`Spared`)
and the folders above one a closed form (`Up`).

`LastWorkerReports` carries the exceptions of `IdlenessIsReported`: workers told to stop,
overtaken, or started paused. They are real: `ClearingReturns` fails for each.

Only model-checked: all liveness (`StopTerminates`, `LockKeepsServing`, `DiscoveryCompletes`,
`ParsingSettles`, `IdlingSurfacesChanges`) and `NobodyWaitsForEver`, which uses `ENABLED`: the prover handles
neither fairness nor `ENABLED`.

## 6. The plan

Order of work; what is done is above.

1. *Done*: lock, notifier, discoverer worker, parser, background tasks, first proofs.
2. *Done*: the tables: `Discovery`, `Collection`, `Thumbnails`, `MediaGroup`, `Playlist`.
3. Proofs. *Done*: those of section 5, which leave to TLC what the prover does not handle.
4. `FsHolder`: mounts on several threads, the two mutexes and the database lock, the callback that
   `onDeviceUnmounted()` makes; composed with the parser's and the discoverer's reactions.
5. `CacheWorker`: evictions against the limits, checked against a reference definition.
6. `Transactions`: nested transactions, the failure handler, the hooks, composed with the notifier:
   what the application is told about rows that were rolled back.
7. `Migrations`: the loop of `updateDatabaseModel()` with failures and restarts.

Not to be modelled: libvlc, image compression, the operating system's file access, the assembly of
SQL and paging, string utilities without a stated contract, rows read and written one
at a time, platform wrappers. The exceptions of callbacks are the
application's choice (`onUnhandledException`).
