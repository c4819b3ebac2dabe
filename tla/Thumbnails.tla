---------------------------- MODULE Thumbnails ----------------------------
(***************************************************************************)
(* The thumbnails of the media library: the Thumbnail table, the records   *)
(* linking its rows to the media, the album and the artist that show them, *)
(* the cleanup requests, the files of the thumbnail directory, and the     *)
(* thread that generates thumbnails and serves the cleanup requests.       *)
(*                                                                         *)
(* One size of thumbnail, one album and its artist.  A row is shared by    *)
(* the entities linked with it and counts them; triggers keep the count,   *)
(* delete the row nobody shows any more and ask for the removal of the     *)
(* file it owned.  A file of the thumbnail directory is known by the id of *)
(* the row it was written for.                                             *)
(*                                                                         *)
(* The database is one record, changed by one transaction at a time; the   *)
(* operators below are the requests of Thumbnail.cpp and what the triggers *)
(* add to them.                                                            *)
(***************************************************************************)
EXTENDS Integers, Sequences, FiniteSets, FiniteSetsExt, TLC

CONSTANTS
    Videos,       \* the media whose thumbnails the application requests
    Tracks,       \* the audio tracks, all of the same album
    Album, Artist,
    Illustrated,  \* the entities the application gives pictures to
    Artworks,     \* the different pictures that can be embedded in a media
    Undeletable,  \* the files the system refuses to remove
    MaxRows,      \* bound: rows inserted in the table
    MaxRequests   \* bound: thumbnails requested

Media == Videos \cup Tracks
Cleanup == "cleanup"   \* the task that is no media's
Entities == Media \cup {Album, Artist}
Ids == 1 .. MaxRows

ASSUME ThumbnailsAssumption ==
    /\ IsFiniteSet(Videos) /\ IsFiniteSet(Tracks) /\ Videos \cap Tracks = {}
    /\ {Album, Artist, Cleanup} \cap Media = {} /\ Album # Artist
    /\ {MaxRows, MaxRequests} \subseteq Nat

\* The mrl of a thumbnail: none, an image of the application or of the folder
\* of the album, a picture still in memory, or the file written for row id.
Blank == 0
UserFile == -1
CoverFile == -2
Embedded == -3
IsOwned(file) == file \in Ids

NoArtwork == "no artwork"
NoRow == [status |-> "Missing", file |-> Blank, shared |-> 0, hash |-> NoArtwork]
NoLink == [id |-> 0, origin |-> "Media"]

\* An object of class Thumbnail; its id is 0 until it is inserted.
Object(id, status, file, origin, hash, shared) ==
    [id |-> id, status |-> status, file |-> file, origin |-> origin,
     hash |-> hash, shared |-> shared]
Null == Object(0, "Missing", Blank, "Media", NoArtwork, 0)
UserProvided == Object(0, "Available", UserFile, "UserProvided", NoArtwork, 0)
AlbumArtwork == Object(0, "Available", CoverFile, "CoverFile", NoArtwork, 0)
EmbeddedIn(art) == Object(0, "Available", Embedded, "Media", art, 0)
CrashRecord == Object(0, "Crash", Blank, "Media", NoArtwork, 0)
Generated(file) == Object(0, "Available", file, "Media", NoArtwork, 0)

VARIABLES
    db,        \* the tables and the directory: rows, links, last row id,
               \* cleanup requests, files on disk
    alive,     \* the media in the database
    parsed,    \* the tracks that belong to the album
    tasks,     \* m_tasks: media to generate a thumbnail for, or Cleanup
    queued,    \* m_queuedMedia
    worker,    \* the thread: where it is, and its local variables
    running,   \* m_run
    paused,    \* m_paused
    told,      \* the notifier holds a cleanup notification
    requests,  \* requests made so far
    aliased    \* history: the files two linked rows have named at once

vars == <<db, alive, parsed, tasks, queued, worker, running, paused, told,
          requests, aliased>>

-----------------------------------------------------------------------------
(* The requests and the triggers.                                          *)

Fetch(d, e) ==
    LET l == d.link[e] IN
    LET r == d.row[l.id] IN
    IF l.id = 0 THEN Null
    ELSE Object(l.id, r.status, r.file, l.origin, r.hash, r.shared)

\* InsertCleanup: the file of an owned, available thumbnail must be removed.
DeleteRow(d, id) ==
    LET r == d.row[id] IN
    [d EXCEPT !.row[id] = NoRow,
              !.cleanups = IF IsOwned(r.file) /\ r.status = "Available"
                           THEN @ \cup {r.file} ELSE @]

\* The update of a counter, and DeleteUnused.
Count(d, id, n) ==
    IF d.row[id].status = "Missing" THEN d
    ELSE IF d.row[id].shared + n = 0 THEN DeleteRow(d, id)
    ELSE [d EXCEPT !.row[id].shared = @ + n]

insertLinkRecord(d, e, id, origin) ==
    Count([d EXCEPT !.link[e] = [id |-> id, origin |-> origin]], id, 1)

\* Mutant of Relinked: the trigger forgets the row that is left.
RelinkedOnly(d, e, old, id) == Count(d, id, 1)

\* The old row is released before the new one is counted.
Relinked(d, e, old, id) == Count(Count(d, old, -1), id, 1)

updateLinkRecord(d, e, id, origin) ==
    LET old == d.link[e].id
        updated == [d EXCEPT !.link[e] = [id |-> id, origin |-> origin]]
    IN IF old = 0 THEN d
       ELSE IF old = id THEN updated
       ELSE Relinked(updated, e, old, id)

unlinkThumbnail(d, e) ==
    IF d.link[e].id = 0 THEN d
    ELSE Count([d EXCEPT !.link[e] = NoLink], d.link[e].id, -1)

\* A picture held in memory is written in the directory, under the new id.
insert(d, t) ==
    LET id == d.last + 1
        file == IF t.file = Embedded THEN id ELSE t.file
    IN [db |-> [d EXCEPT !.last = id,
                         !.row[id] = [status |-> t.status, file |-> file,
                                      shared |-> 0, hash |-> t.hash],
                         !.disk = IF t.file = Embedded THEN @ \cup {id} ELSE @],
        new |-> [t EXCEPT !.id = id, !.file = file]]

InsertedOnce(d, t) == IF t.id = 0 THEN insert(d, t) ELSE [db |-> d, new |-> t]

\* WHERE id_thumbnail = ? AND is_owned = ?: nothing is said of a row that is
\* no longer what old was read as.
updateMrl(d, old, file) ==
    LET r == d.row[old.id] IN
    IF old.file = file /\ old.status = "Available" THEN d
    ELSE IF r.status = "Missing" \/ IsOwned(r.file) # IsOwned(old.file) THEN d
    ELSE [d EXCEPT !.row[old.id].file = file, !.row[old.id].status = "Available"]

\* A picture in memory gets a row of its own before the old one takes its file.
update(d, old, t) ==
    LET i == IF t.file = Embedded THEN insert(d, t) ELSE [db |-> d, new |-> t]
    IN [i EXCEPT !.db = updateMrl(i.db, old, i.new.file)]

\* The thumbnail of entity e was read as old; t replaces it.  Gives the new
\* database and what t has become.
updateOrReplace(d, e, old, t, shouldUpdate) ==
    IF old.id # 0 /\ old.id = t.id THEN [db |-> d, new |-> t]
    ELSE IF old.id = 0
    THEN LET i == InsertedOnce(d, t)
         IN [i EXCEPT !.db = insertLinkRecord(i.db, e, i.new.id, i.new.origin)]
    ELSE IF old.status # "Available" THEN update(d, old, t)
    ELSE IF shouldUpdate /\ t.id = 0
    THEN LET u == update(d, old, t)
         IN [u EXCEPT !.db = IF old.origin = t.origin THEN u.db
                             ELSE updateLinkRecord(u.db, e, old.id, t.origin)]
    ELSE LET i == InsertedOnce(d, t)
         IN [i EXCEPT !.db = updateLinkRecord(i.db, e, i.new.id, i.new.origin)]

\* Media, Artist: update a thumbnail nobody shares.  Album: only a cover file.
shouldUpdateThumbnail(e, old) ==
    IF e = Album THEN old.origin = "CoverFile" ELSE old.shared <= 1

Replace(d, e, old, t) == updateOrReplace(d, e, old, t, shouldUpdateThumbnail(e, old))
setThumbnail(d, e, t) == Replace(d, e, Fetch(d, e), t)

-----------------------------------------------------------------------------
(* The metadata analyzer.                                                  *)

fetchThumbnail(d, m, art, cover) ==
    IF Fetch(d, m).status = "Available" THEN Fetch(d, m)
    ELSE IF art # NoArtwork THEN EmbeddedIn(art)
    ELSE IF parsed # {} THEN Fetch(d, Album)
    ELSE IF cover THEN AlbumArtwork ELSE Null

SetBoth(d, m, t) ==
    LET a == setThumbnail(d, Album, t) IN setThumbnail(a.db, m, a.new)

\* The album had no thumbnail: its tracks that have none get it too.
SetTracks(d, m, t) ==
    LET a == setThumbnail(d, Album, t)
        bare == {x \in parsed \cup {m} : a.db.link[x].id = 0}
        linked == [a.db EXCEPT !.link = [e \in Entities |->
                      IF e \in bare THEN [id |-> a.new.id, origin |-> a.new.origin]
                      ELSE @[e]]]
    IN [a EXCEPT !.db = Count(linked, a.new.id, Cardinality(bare))]

\* The part of assignThumbnails() that is about the media and its album.
AssignToMedia(d, m, t) ==
    LET current == Fetch(d, Album)
        same == current.hash = t.hash
    IN CASE parsed = {} -> SetBoth(d, m, t)
         [] parsed # {} /\ current.id = 0 -> SetTracks(d, m, t)
         [] current.id # 0 /\ t.origin = "Media" /\ current.origin = "CoverFile"
              -> SetBoth(d, m, t)
         [] current.id # 0 /\ t.origin = "Media" /\ current.origin = "Media" /\ same
              -> [setThumbnail(d, m, current) EXCEPT !.new = t]
         [] current.id # 0 /\ t.origin = "Media"
            /\ \/ current.origin = "UserProvided"
               \/ current.origin = "Media" /\ ~same
              -> setThumbnail(d, m, t)
         [] OTHER -> [setThumbnail(d, m, current) EXCEPT !.new = t]

assignThumbnails(d, m, t) ==
    LET a == AssignToMedia(d, m, t)
    IN IF Fetch(a.db, Artist).id = 0 THEN setThumbnail(a.db, Artist, a.new) ELSE a

\* Mutant of relocate: the row is updated even if the image was not copied.
RelocateAnyway(d, t, copied) ==
    IF t.id = 0 \/ IsOwned(t.file) THEN d
    ELSE updateMrl([d EXCEPT !.disk = IF copied THEN @ \cup {t.id} ELSE @], t, t.id)

\* The image found in the folder of the album is copied, if it can be.
relocate(d, t, copied) ==
    IF t.id = 0 \/ IsOwned(t.file) \/ ~copied THEN d
    ELSE updateMrl([d EXCEPT !.disk = @ \cup {t.id}], t, t.id)

-----------------------------------------------------------------------------
(* The database changes, and the hook of the cleanup table tells the       *)
(* notifier of each request.                                               *)

Shown(d) == {e \in Entities : d.link[e].id # 0}
Aliased(d) ==
    {f \in Ids : \E a, b \in Shown(d) :
        /\ d.link[a].id # d.link[b].id
        /\ d.row[d.link[a].id].file = f /\ d.row[d.link[b].id].file = f}

\* The foreign key of a link: a transaction that breaks it throws and is rolled back.
Valid(d) == \A e \in Shown(d) : d.row[d.link[e].id].status # "Missing"

Commit(d) ==
    /\ Valid(d)
    /\ db' = d
    /\ told' = (told \/ d.cleanups \ db.cleanups # {})
    /\ aliased' = aliased \cup Aliased(d)

Init ==
    /\ db = [row |-> [i \in Ids |-> NoRow], link |-> [e \in Entities |-> NoLink],
             last |-> 0, disk |-> {}, cleanups |-> {}]
    /\ alive = Media
    /\ parsed = {}
    /\ tasks = <<>>
    /\ queued = {}
    /\ worker = [pc |-> "idle", media |-> Cleanup, old |-> Null, first |-> FALSE,
                 todo |-> {}]
    /\ running = TRUE
    /\ paused = FALSE
    /\ told = FALSE
    /\ requests = 0
    /\ aliased = {}

Thread == <<tasks, queued, worker, running, paused, requests>>
RoomLeft == db.last < MaxRows

\* A track is analyzed, with or without a picture, beside a cover or not.
parseAudioFile(m) ==
    /\ m \in (Tracks \cap alive) \ parsed
    /\ RoomLeft
    /\ parsed' = parsed \cup {m}
    /\ \E art \in Artworks \cup {NoArtwork}, cover, copied \in BOOLEAN :
          LET t == fetchThumbnail(db, m, art, cover)
              a == assignThumbnails(db, m, t)
          IN Commit(IF t.status = "Missing" THEN db ELSE relocate(a.db, a.new, copied))
    /\ UNCHANGED <<alive, Thread>>

parseVideoFile(m) ==
    /\ m \in Videos \cap alive
    /\ RoomLeft
    /\ \E art \in Artworks : Commit(setThumbnail(db, m, EmbeddedIn(art)).db)
    /\ UNCHANGED <<alive, parsed, Thread>>

\* The application gives a media or the artist a picture of its own.
SetUserThumbnail(e) ==
    /\ e \in alive \/ (e = Artist /\ parsed # {})
    /\ RoomLeft
    /\ Commit(setThumbnail(db, e, UserProvided).db)
    /\ UNCHANGED <<alive, parsed, Thread>>

Unlinked(d, es) == FoldSet(LAMBDA e, acc : unlinkThumbnail(acc, e), d, es)

flushUserProvided ==
    LET given == {e \in Entities : db.link[e].id # 0 /\ db.link[e].origin = "UserProvided"}
    IN /\ given # {}
       /\ Commit(Unlinked(db, given))
       /\ UNCHANGED <<alive, parsed, Thread>>

\* The triggers AutoDelete*: the album and the artist go with the last track.
DeleteMedia(m) ==
    /\ m \in alive
    /\ alive' = alive \ {m}
    /\ parsed' = parsed \ {m}
    /\ Commit(Unlinked(db, {m} \cup (IF parsed = {m} THEN {Album, Artist} ELSE {})))
    /\ UNCHANGED Thread

Database == <<db, alive, parsed, aliased>>

-----------------------------------------------------------------------------
(* The thumbnailer.                                                        *)

\* What is already queued is not queued again.
Enqueue(t) ==
    IF t \in queued THEN UNCHANGED <<tasks, queued>>
    ELSE tasks' = Append(tasks, t) /\ queued' = queued \cup {t}

requestThumbnail(m) ==
    /\ running /\ requests < MaxRequests
    /\ requests' = requests + 1
    /\ Enqueue(m)
    /\ UNCHANGED <<Database, told, worker, running, paused>>

\* The notifier passes on the cleanup notifications it holds.
requestCleanupRun ==
    /\ told /\ running
    /\ told' = FALSE
    /\ Enqueue(Cleanup)
    /\ UNCHANGED <<Database, worker, running, paused, requests>>

pause ==
    /\ ~paused /\ running
    /\ paused' = TRUE
    /\ UNCHANGED <<Database, told, tasks, queued, worker, running, requests>>

resume ==
    /\ paused
    /\ paused' = FALSE
    /\ UNCHANGED <<Database, told, tasks, queued, worker, running, requests>>

\* The tasks are dropped; what the thread is doing it will finish.
stop ==
    /\ running
    /\ running' = FALSE
    /\ tasks' = <<>> /\ queued' = {}
    /\ UNCHANGED <<Database, told, worker, paused, requests>>

Idle == [pc |-> "idle", media |-> Cleanup, old |-> Null, first |-> FALSE, todo |-> {}]

\* Mutant of Take: a task leaves the set of queued media once it is done.
TakeOnly ==
    /\ worker.pc = "idle" /\ running /\ ~paused /\ tasks # <<>>
    /\ LET t == Head(tasks) IN
       /\ tasks' = Tail(tasks)
       /\ worker' = CASE t = Cleanup -> [Idle EXCEPT !.pc = "cleaning", !.todo = db.cleanups]
                      [] t \in alive -> [Idle EXCEPT !.pc = "taken", !.media = t]
                      [] OTHER -> worker
    /\ UNCHANGED <<Database, told, queued, running, paused, requests>>

\* run(): the next task; the cleanup requests are read at once, the media of a
\* thumbnail must still exist.
Take ==
    /\ worker.pc = "idle" /\ running /\ ~paused /\ tasks # <<>>
    /\ LET t == Head(tasks) IN
       /\ tasks' = Tail(tasks)
       /\ queued' = queued \ {t}
       /\ worker' = CASE t = Cleanup -> [Idle EXCEPT !.pc = "cleaning", !.todo = db.cleanups]
                      [] t \in alive -> [Idle EXCEPT !.pc = "taken", !.media = t]
                      [] OTHER -> worker
    /\ UNCHANGED <<Database, told, running, paused, requests>>

\* The file goes, then the request; the request of a file that cannot be
\* removed is kept for another run.
runCleanupRequests ==
    /\ worker.pc = "cleaning"
    /\ IF worker.todo = {}
       THEN worker' = Idle /\ UNCHANGED db
       ELSE \E f \in worker.todo :
              /\ worker' = [worker EXCEPT !.todo = @ \ {f}]
              /\ db' = IF f \in Undeletable THEN db
                       ELSE [db EXCEPT !.disk = @ \ {f}, !.cleanups = @ \ {f}]
    /\ UNCHANGED <<alive, parsed, aliased, told, tasks, queued, running, paused, requests>>

\* The first generation for a media leaves a trace first, in case it crashes.
Begin ==
    /\ worker.pc = "taken"
    /\ LET m == worker.media
           old == Fetch(db, m)
           first == old.id = 0
           marked == IF first THEN setThumbnail(db, m, CrashRecord).db ELSE db
       IN /\ first => RoomLeft
          /\ Commit(marked)
          /\ worker' = [worker EXCEPT !.pc = "generating", !.first = first,
                                      !.old = Fetch(marked, m)]
    /\ UNCHANGED <<alive, parsed, tasks, queued, running, paused, requests>>

\* No file, or the device is gone: the generation is given up.
GiveUp ==
    /\ worker.pc = "taken"
    /\ worker' = Idle
    /\ UNCHANGED <<Database, told, tasks, queued, running, paused, requests>>

\* markFailed()
MarkFailed(d, id) ==
    IF d.row[id].status = "Missing" THEN d ELSE [d EXCEPT !.row[id].status = "Failure"]

\* A first generation that was interrupted leaves no trace.
GenerationFails ==
    /\ worker.pc = "generating"
    /\ Commit(IF running THEN MarkFailed(db, worker.old.id)
              ELSE IF worker.first THEN unlinkThumbnail(db, worker.media) ELSE db)
    /\ worker' = Idle
    /\ UNCHANGED <<alive, parsed, tasks, queued, running, paused, requests>>

\* The picture is written in the file of the row that was read.
GenerationSucceeds ==
    /\ worker.pc = "generating"
    /\ db' = [db EXCEPT !.disk = @ \cup {worker.old.id}]
    /\ worker' = [worker EXCEPT !.pc = "generated"]
    /\ UNCHANGED <<alive, parsed, aliased, told, tasks, queued, running, paused, requests>>

\* The link cannot be given a row that has been deleted since: the exception
\* ends the thread.
LosesItsRow(m, old) ==
    /\ old.status = "Available" /\ old.shared <= 1 /\ old.origin # "Media"
    /\ db.link[m].id # 0 /\ db.row[old.id].status = "Missing"

Store ==
    /\ worker.pc = "generated"
    /\ LET m == worker.media
           old == worker.old
       IN IF LosesItsRow(m, old)
          THEN worker' = [Idle EXCEPT !.pc = "dead"] /\ UNCHANGED <<db, told, aliased>>
          ELSE worker' = Idle /\ Commit(Replace(db, m, old, Generated(old.id)).db)
    /\ UNCHANGED <<alive, parsed, tasks, queued, running, paused, requests>>

Exit ==
    /\ worker.pc = "idle" /\ ~running
    /\ worker' = [Idle EXCEPT !.pc = "exited"]
    /\ UNCHANGED <<Database, told, tasks, queued, running, paused, requests>>

Thumbnailer ==
    Take \/ runCleanupRequests \/ Begin \/ GiveUp \/ GenerationFails
    \/ GenerationSucceeds \/ Store \/ Exit

Next ==
    \/ \E m \in Media : parseAudioFile(m) \/ parseVideoFile(m) \/ DeleteMedia(m)
    \/ \E e \in Illustrated : SetUserThumbnail(e)
    \/ flushUserProvided
    \/ \E m \in Videos : requestThumbnail(m)
    \/ requestCleanupRun \/ pause \/ resume \/ stop
    \/ Thumbnailer

Spec == Init /\ [][Next]_vars

-----------------------------------------------------------------------------
(* Properties.                                                             *)

Row == [status : {"Missing", "Available", "Failure", "Crash"},
        file : {Blank, UserFile, CoverFile} \cup Ids,
        shared : 0 .. Cardinality(Entities), hash : Artworks \cup {NoArtwork}]

\* Every link names a row that exists, every file was written for a row.
TypeOK ==
    /\ db.row \in [Ids -> Row]
    /\ \A e \in Shown(db) : db.row[db.link[e].id].status # "Missing"
    /\ db.last \in 0 .. MaxRows
    /\ db.disk \subseteq 1 .. db.last /\ db.cleanups \subseteq 1 .. db.last
    /\ parsed \subseteq Tracks \cap alive /\ alive \subseteq Media
    /\ queued = {tasks[i] : i \in DOMAIN tasks} /\ Cardinality(queued) = Len(tasks)
    /\ worker.pc \in {"idle", "taken", "generating", "generated", "cleaning", "dead", "exited"}

\* The triggers keep in each row the number of entities that show it, whatever
\* order the analyzer, the application and the thumbnailer change them in.
SharedCounterIsExact ==
    \A id \in Ids : db.row[id].shared = Cardinality({e \in Shown(db) : db.link[e].id = id})

\* A thumbnail that is shown as available and that the media library owns has
\* its file, unless that file was once the thumbnail of two rows.
ShownFilesExist ==
    \A e \in Shown(db) :
        LET r == db.row[db.link[e].id] IN
        r.status = "Available" /\ IsOwned(r.file) /\ r.file \notin aliased
            => r.file \in db.disk

\* A cleanup request is never forgotten: as long as it stands the notifier, the
\* queue or the thread holds it, unless the thumbnailer was stopped or ended by
\* an exception, or the file cannot be removed.
NoCleanupIsForgotten ==
    \A f \in db.cleanups \ Undeletable :
        \/ told
        \/ \E i \in DOMAIN tasks : tasks[i] = Cleanup
        \/ worker.pc = "cleaning" /\ f \in worker.todo
        \/ ~running \/ worker.pc = "dead"

\* Refuted.  Two rows do not name one file ("this will become troublesome as we
\* will end up deleting the file from disk once one of those 2 thumbnail gets
\* removed from the database", Thumbnail.cpp:430).
FilesAreNotShared == aliased = {}

\* Refuted.  After flushUserProvidedThumbnails(), "any media that the
\* application provided a thumbnail for will not have a thumbnail associated
\* with it anymore" (IMediaLibrary.h:1150): every link to a row that names the
\* picture of the application can be flushed.
UserThumbnailsCanBeFlushed ==
    \A e \in Shown(db) : db.row[db.link[e].id].file = UserFile
                            => db.link[e].origin = "UserProvided"

\* Refuted.  A row nobody shows is deleted.
UnusedRowsVanish ==
    \A id \in Ids : db.row[id].status # "Missing" => \E e \in Entities : db.link[e].id = id

\* Refuted.  A file of the directory is that of a row, or will be removed.
NoFileIsLeaked ==
    \A f \in db.disk : \/ f \in db.cleanups
                       \/ \E id \in Ids : db.row[id].file = f
                       \/ worker.pc = "generated" /\ worker.old.id = f

\* Refuted.  A media that is deleted takes its link with it.
NoDanglingLink == \A m \in Media \ alive : db.link[m].id = 0
=============================================================================
