----------------------------- MODULE Collection -----------------------------
(***************************************************************************)
(* The albums, artists and genres of the audio tracks: the analysis that   *)
(* files a media under them (parseAudioFile and refreshMedia, in           *)
(* src/metadata_services/MetadataParser.cpp), what else takes it out, and  *)
(* the triggers of src/{Album,Artist,Genre}.cpp that keep their counters   *)
(* and delete the rows nothing needs any more.                             *)
(*                                                                         *)
(* The analysis looks the genre, the artists and the album up, and uses    *)
(* them in a later transaction: the discoverer, the devices and a forced   *)
(* rescan run in between.  Media are audio files, albums have one disc and *)
(* no year; thumbnails and search tables are left out.  A transaction      *)
(* whose statement breaks a constraint throws and is rolled back.          *)
(***************************************************************************)
EXTENDS Integers, FiniteSets, FiniteSetsExt

CONSTANTS
    Media,          \* the media that may be created
    Removable,      \* those on the removable device
    Folder,         \* the folder of each
    Tags,           \* the metadata a file may hold: album, albumArtist, artist, genre
    Durations,
    NoName,         \* a metadata that is not there, the title of an unknown album
    NoRow,          \* a row that is not in its table
    NoAlbum,        \* a null album object
    MaxId,          \* bound: the highest id
    MaxEdits        \* bound: the events that undo or repeat an analysis

NamesOf(field) == {t[field] : t \in Tags}
Titles == NamesOf("album") \cup {NoName}
ArtistNames == (NamesOf("albumArtist") \cup NamesOf("artist")) \cup {NoName}
GenreNames == NamesOf("genre") \ {NoName}

\* The ids, never used again (AUTOINCREMENT); 0 is a null reference.
UnknownArtistID == 1
VariousArtistID == 2
Special == {UnknownArtistID, VariousArtistID}
Ids == 1 .. MaxId
Refs == {0} \cup Ids
Kinds == {"Creation", "Refresh"}

MediaRow == [present : BOOLEAN, internal : BOOLEAN, track : BOOLEAN, duration : Durations,
             album : Refs, artist : Refs, genre : Refs]
AlbumRow == [title : Titles, artist : Refs, nb_tracks : Int, is_present : Int, duration : Int]
ArtistRow == [name : ArtistNames, nb_tracks : Int, is_present : Int, nb_albums : Int]
GenreRow == [name : GenreNames, nb_tracks : Int, is_present : Int]
Object == [id : Refs, title : Titles, artist : Refs, folder : {Folder[m] : m \in Media}]

\* What a file holds.
Content == [tag : Tags, duration : Durations]

ASSUME CollectionAssumption ==
    /\ IsFiniteSet(Media) /\ Removable \subseteq Media
    /\ DOMAIN Folder = Media
    /\ Durations \subseteq Nat \ {0}
    /\ NoRow \notin MediaRow \cup AlbumRow \cup ArtistRow \cup GenreRow \cup Content
    /\ NoAlbum \notin Object
    /\ MaxId \in Nat /\ MaxId > 2 /\ MaxEdits \in Nat

VARIABLES
    db,         \* the tables: media, albums, artists, genres, relation, and the last id
    mounted,    \* Device.is_present
    files,      \* what the file of a media holds: a tag and a duration
    tasks,      \* the uncompleted rows of Task
    queued,     \* the analyzer's queue
    pc, job,    \* how far the analyzer is, and what it holds
    previous,   \* m_previousAlbum: an Album object, with m_previousFolderId
    flushed,    \* m_flushed
    rescanning, \* forceRescan has flushed the parser
    abandoned,  \* observation: what a failed or interrupted analysis held
    edits       \* bound

analyzer == <<tasks, queued, pc, job, previous, flushed>>
vars == <<db, mounted, files, analyzer, rescanning, abandoned, edits>>

NewArtist(name) == [name |-> name, nb_tracks |-> 0, is_present |-> 0, nb_albums |-> 0]
DefaultArtists == [a \in Ids |-> IF a \in Special THEN NewArtist(NoName) ELSE NoRow]
NoRows == [i \in Ids |-> NoRow]

Idle == [media |-> "none"]

Init ==
    /\ db = [media |-> [m \in Media |-> NoRow], albums |-> NoRows, genres |-> NoRows,
             artists |-> DefaultArtists, relation |-> {}, last |-> 2]
    /\ mounted = TRUE
    /\ files = [m \in Media |-> NoRow]
    /\ tasks = {} /\ queued = {}
    /\ pc = "idle" /\ job = Idle
    /\ previous = NoAlbum /\ flushed = FALSE
    /\ rescanning = FALSE
    /\ abandoned = {}
    /\ edits = 0

Exists(d, m) == d.media[m] # NoRow
In(table, i) == i # 0 /\ table[i] # NoRow
Tracks(d, i) == {m \in Media : Exists(d, m) /\ d.media[m].album = i}
One(b) == IF b THEN 1 ELSE 0

-----------------------------------------------------------------------------
(* The tables and their triggers: each operator is given the database and  *)
(* returns it changed.                                                     *)

\* A row of Artist is deleted: its albums and its relations go with it.
DeleteArtist(d, a) ==
    [d EXCEPT !.artists[a] = NoRow,
              !.albums = [i \in Ids |-> IF In(@, i) /\ @[i].artist = a THEN NoRow ELSE @[i]],
              !.relation = {r \in @ : r[2] # a},
              !.media = [m \in Media |->
                            IF @[m] # NoRow /\ @[m].artist = a
                            THEN [@[m] EXCEPT !.artist = 0] ELSE @[m]]]

\* Mutant: the trigger watches nb_tracks only.
UpdateArtistTracks(d, a, nbTracks, isPresent, nbAlbums) ==
    LET row == [d.artists[a] EXCEPT !.nb_tracks = @ + nbTracks,
                                    !.is_present = @ + isPresent,
                                    !.nb_albums = @ + nbAlbums]
    IN  CASE ~In(d.artists, a) -> d
          [] In(d.artists, a) /\ a \notin Special /\ nbTracks # 0 /\ row.nb_tracks = 0
                /\ row.nb_albums = 0
                -> DeleteArtist(d, a)
          [] OTHER -> [d EXCEPT !.artists[a] = row]

\* UPDATE Artist, and DeleteArtistsWithoutTracks.
UpdateArtist(d, a, nbTracks, isPresent, nbAlbums) ==
    LET row == [d.artists[a] EXCEPT !.nb_tracks = @ + nbTracks,
                                    !.is_present = @ + isPresent,
                                    !.nb_albums = @ + nbAlbums]
    IN  CASE ~In(d.artists, a) -> d
          [] In(d.artists, a) /\ a \notin Special /\ row.nb_tracks = 0 /\ row.nb_albums = 0
                -> DeleteArtist(d, a)
          [] OTHER -> [d EXCEPT !.artists[a] = row]

\* A row of Album is deleted: album_id is reset, DecrementNbAlbums.
DeleteAlbum(d, i) ==
    UpdateArtist([d EXCEPT !.albums[i] = NoRow,
                           !.media = [m \in Media |->
                                         IF m \in Tracks(d, i)
                                         THEN [@[m] EXCEPT !.album = 0] ELSE @[m]]],
                 d.albums[i].artist, 0, 0, -1)

\* UPDATE Album, and DeleteEmpty.
UpdateAlbum(d, i, nbTracks, isPresent, duration) ==
    LET row == [d.albums[i] EXCEPT !.nb_tracks = @ + nbTracks,
                                   !.is_present = @ + isPresent,
                                   !.duration = @ + duration]
    IN  CASE ~In(d.albums, i) -> d
          [] In(d.albums, i) /\ row.nb_tracks = 0 -> DeleteAlbum(d, i)
          [] OTHER -> [d EXCEPT !.albums[i] = row]

\* UPDATE Genre, and DeleteEmpty.
UpdateGenre(d, g, nbTracks, isPresent) ==
    LET row == [d.genres[g] EXCEPT !.nb_tracks = @ + nbTracks, !.is_present = @ + isPresent]
    IN  CASE ~In(d.genres, g) -> d
          [] In(d.genres, g) /\ row.nb_tracks = 0 -> [d EXCEPT !.genres[g] = NoRow]
          [] OTHER -> [d EXCEPT !.genres[g] = row]

\* Mutant: a media that leaves counts as present (the triggers of model 33 and before).
LeaveAsPresent(d, row) ==
    UpdateGenre(UpdateAlbum(d, row.album, -1, -1, -row.duration), row.genre, -1, -1)

\* Album's and Genre's triggers on a media that leaves them, or comes in.
Leave(d, row) ==
    UpdateGenre(UpdateAlbum(d, row.album, -1, -One(row.present), -row.duration),
                row.genre, -1, -One(row.present))
Join(d, row) ==
    UpdateGenre(UpdateAlbum(d, row.album, 1, One(row.present), row.duration),
                row.genre, 1, One(row.present))

\* UPDATE Media SET subtype, album_id, artist_id, genre_id: the triggers take the
\* references that changed only.
File(d, m, isTrack, album, artist, genre) ==
    LET old == d.media[m]
        new == [old EXCEPT !.track = isTrack, !.album = album, !.artist = artist,
                           !.genre = genre]
        Changed(row) == [row EXCEPT !.album = IF old.album = new.album THEN 0 ELSE @,
                                    !.genre = IF old.genre = new.genre THEN 0 ELSE @]
    IN  IF ~Exists(d, m) THEN d
        ELSE Join(Leave([d EXCEPT !.media[m] = new], Changed(old)), Changed(new))

setSubTypeUnknown(d, m) == File(d, m, FALSE, 0, 0, 0)

\* Artist::addMedia, and IncrementNbTracks.
addMedia(d, a, m) ==
    UpdateArtist([d EXCEPT !.relation = @ \cup {<<m, a>>}], a, 1, 1, 0)

\* DELETE FROM MediaArtistRelation WHERE media_id = m, and DecrementNbTracks.
dropMediaArtistRelation(d, m) ==
    LET Drop(a, e) == UpdateArtist([e EXCEPT !.relation = @ \ {<<m, a>>}], a, -1, -1, 0)
    IN  FoldSet(Drop, d, {a \in Ids : <<m, a>> \in d.relation})

\* Album::setAlbumArtist, and UpdateNbAlbums.
setAlbumArtist(d, i, a) ==
    LET old == d.albums[i].artist
    IN  UpdateArtist(UpdateArtist([d EXCEPT !.albums[i].artist = a], a, 0, 0, 1),
                     old, 0, 0, -1)

-----------------------------------------------------------------------------
(* What happens to media outside the analyzer.                             *)

Edit ==
    /\ edits < MaxEdits
    /\ edits' = edits + 1

\* Media::destroy: the rows that refer to the media go with it, then DeleteTrack and
\* UpdateOnTrackDelete run.
destroy(d, m) ==
    LET row == d.media[m]
        e == dropMediaArtistRelation([d EXCEPT !.media[m] = NoRow], m)
    IN  IF row.track THEN Leave(e, row) ELSE e

DestroyMedia(m) ==
    /\ Exists(db, m)
    /\ Edit
    /\ db' = destroy(db, m)
    /\ tasks' = tasks \ ({m} \X Kinds)
    /\ UNCHANGED <<mounted, files, queued, pc, job, previous, flushed, rescanning,
                   abandoned>>

\* Media::convertToExternal, its folder being removed or banned.
convertToExternal(m) ==
    /\ Exists(db, m) /\ db.media[m].internal
    /\ Edit
    /\ LET e == IF db.media[m].track
                THEN dropMediaArtistRelation(setSubTypeUnknown(db, m), m) ELSE db
       IN  db' = [e EXCEPT !.media[m].internal = FALSE]
    /\ tasks' = tasks \ ({m} \X Kinds)
    /\ UNCHANGED <<mounted, files, queued, pc, job, previous, flushed, rescanning,
                   abandoned>>

\* Device.is_present is changed, and the rows of its media with it; IsPresent of Album,
\* HasTrackPresent of Artist, UpdateIsPresent of Genre.  Only the track's own artist is
\* told.  An artist with more present tracks than tracks breaks its CHECK.
setPresent(d, isPresent) ==
    LET Changed == {m \in Removable : Exists(d, m) /\ d.media[m].internal
                                      /\ d.media[m].present # isPresent}
        By(field, i) == (IF isPresent THEN 1 ELSE -1)
            * Cardinality({m \in Changed : d.media[m].track /\ d.media[m][field] = i})
        Counted(field, table) ==
            [i \in Ids |-> IF In(table, i)
                           THEN [table[i] EXCEPT !.is_present = @ + By(field, i)] ELSE NoRow]
    IN  [d EXCEPT !.media = [m \in Media |-> IF m \in Changed
                                             THEN [@[m] EXCEPT !.present = isPresent]
                                             ELSE @[m]],
                  !.albums = Counted("album", @),
                  !.artists = Counted("artist", @),
                  !.genres = Counted("genre", @)]

Allowed(d) == \A a \in Ids : In(d.artists, a) => d.artists[a].is_present <= d.artists[a].nb_tracks

setDevicePresent ==
    /\ Edit
    /\ Allowed(setPresent(db, ~mounted))
    /\ db' = setPresent(db, ~mounted)
    /\ mounted' = ~mounted
    /\ UNCHANGED <<files, analyzer, rescanning, abandoned>>

\* forceRescan empties the queue and the analyzer's cache, but waits for no analysis ...
Parser_flush ==
    /\ ~rescanning
    /\ Edit
    /\ queued' = {} /\ previous' = NoAlbum /\ flushed' = TRUE
    /\ rescanning' = TRUE
    /\ UNCHANGED <<db, mounted, files, tasks, pc, job, abandoned>>

\* ... then empties the tables, and starts every task again.
forceRescan ==
    /\ rescanning /\ rescanning' = FALSE
    /\ db' = [db EXCEPT
                !.media = [m \in Media |->
                              IF @[m] = NoRow THEN NoRow
                              ELSE [@[m] EXCEPT !.track = FALSE, !.album = 0, !.artist = 0,
                                                !.genre = 0]],
                !.genres = NoRows, !.albums = NoRows, !.artists = DefaultArtists,
                !.relation = {}]
    /\ tasks' = {m \in Media : Exists(db, m) /\ db.media[m].internal} \X {"Creation"}
    /\ queued' = queued \cup tasks'
    /\ UNCHANGED <<mounted, files, pc, job, previous, flushed, abandoned, edits>>

\* The file of a media was changed: the discoverer asks for a refresh.
createRefreshTask(m) ==
    /\ Exists(db, m) /\ db.media[m].internal
    /\ m \in Removable => mounted
    /\ Edit
    /\ \E content \in Content : files' = [files EXCEPT ![m] = content]
    /\ tasks' = tasks \cup {<<m, "Refresh">>}
    /\ queued' = queued \cup {<<m, "Refresh">>}
    /\ UNCHANGED <<db, mounted, pc, job, previous, flushed, rescanning, abandoned>>

-----------------------------------------------------------------------------
(* The analyzer (MetadataAnalyzer::run).                                   *)

\* A task is taken, its file read.  The media it holds is the row of that moment.
Holding(m, kind, row, content) ==
    [media |-> m, kind |-> kind, track |-> row.track, of |-> row.album,
     tag |-> content.tag, duration |-> content.duration, cache |-> NoAlbum,
     genre |-> 0, first |-> 0, second |-> 0, album |-> NoAlbum]

\* createFileAndMedia: the first analysis of a file inserts its media.
createFileAndMedia(m) ==
    /\ pc = "idle" /\ files[m] = NoRow
    /\ m \in Removable => mounted
    /\ \E content \in Content :
          LET row == [present |-> TRUE, internal |-> TRUE, track |-> FALSE,
                      duration |-> content.duration, album |-> 0, artist |-> 0, genre |-> 0]
          IN  /\ db' = [db EXCEPT !.media[m] = row]
              /\ files' = [files EXCEPT ![m] = content]
              /\ job' = [Holding(m, "Creation", row, content) EXCEPT !.cache = previous]
    /\ pc' = "genre" /\ previous' = NoAlbum /\ flushed' = FALSE
    /\ tasks' = tasks \cup {<<m, "Creation">>}
    /\ UNCHANGED <<mounted, queued, rescanning, abandoned, edits>>

\* A media that is no longer there is noticed when its streams are inserted.
Take(t) ==
    LET m == t[1] IN
    /\ pc = "idle" /\ t \in queued
    /\ queued' = queued \ {t}
    /\ IF Exists(db, m)
       THEN /\ job' = Holding(m, t[2], db.media[m], files[m])
            /\ pc' = IF t[2] = "Refresh" THEN "setDuration" ELSE "load"
       ELSE UNCHANGED <<pc, job>>
    /\ UNCHANGED <<db, mounted, files, tasks, previous, flushed, rescanning, abandoned, edits>>

\* The cache is moved to the analysis.
LoadCache ==
    /\ pc = "load" /\ pc' = "genre"
    /\ job' = [job EXCEPT !.cache = previous]
    /\ previous' = NoAlbum /\ flushed' = FALSE
    /\ UNCHANGED <<db, mounted, files, tasks, queued, rescanning, abandoned, edits>>

\* The analysis ends without success: nothing takes the task again before a restart.
Fail ==
    /\ pc' = "idle" /\ job' = Idle
    /\ abandoned' = abandoned \cup {job.genre, job.first, job.second}
    /\ UNCHANGED <<tasks, previous>>

\* refreshMedia: setDuration is not in its transaction.
setDuration ==
    /\ pc = "setDuration" /\ pc' = "refreshMedia"
    /\ db' = IF Exists(db, job.media)
             THEN [db EXCEPT !.media[job.media].duration = job.duration] ELSE db
    /\ UNCHANGED <<mounted, files, tasks, queued, job, previous, flushed, rescanning,
                   abandoned, edits>>

\* Album::removeTrack: the trigger of album_id has already taken the duration away.
removeTrack(d, i, m, duration) ==
    LET e == setSubTypeUnknown(d, m)
    IN  IF In(e.albums, i) THEN [e EXCEPT !.albums[i].duration = @ - duration] ELSE e

refreshMedia ==
    /\ pc = "refreshMedia"
    /\ IF ~Exists(db, job.media) \/ (job.track /\ ~In(db.albums, job.of))
       THEN Fail /\ UNCHANGED db
       ELSE /\ IF job.track
               THEN /\ db' = dropMediaArtistRelation(
                                removeTrack(db, job.of, job.media, job.duration), job.media)
                    /\ pc' = "load"
               ELSE UNCHANGED db /\ pc' = "save"
            /\ job' = [job EXCEPT !.track = FALSE, !.of = 0]
            /\ UNCHANGED <<tasks, previous, abandoned>>
    /\ UNCHANGED <<mounted, files, queued, flushed, rescanning, edits>>

\* The row of that name, or a new one.
Named(table, name) == {i \in Ids : In(table, i) /\ table[i].name = name}

Fresh == db.last + 1

handleGenre ==
    LET name == job.tag.genre
        found == Named(db.genres, name)
    IN
    /\ pc = "genre" /\ pc' = "albumArtist"
    /\ IF name = NoName THEN UNCHANGED <<db, job>>
       ELSE IF found # {}
       THEN /\ job' = [job EXCEPT !.genre = CHOOSE g \in found : TRUE]
            /\ UNCHANGED db
       ELSE /\ Fresh \in Ids
            /\ job' = [job EXCEPT !.genre = Fresh]
            /\ db' = [db EXCEPT !.last = Fresh,
                          !.genres[Fresh] = [name |-> name, nb_tracks |-> 0, is_present |-> 0]]
    /\ UNCHANGED <<mounted, files, tasks, queued, previous, flushed, rescanning, abandoned, edits>>

\* One of the two steps of findOrCreateArtist: an artist is found or created.
FindOrCreate(field, name) ==
    LET found == Named(db.artists, name)
    IN  IF found # {}
        THEN /\ job' = [job EXCEPT ![field] = CHOOSE a \in found : TRUE]
             /\ UNCHANGED db
        ELSE /\ Fresh \in Ids
             /\ job' = [job EXCEPT ![field] = Fresh]
             /\ db' = [db EXCEPT !.last = Fresh, !.artists[Fresh] = NewArtist(name)]

\* findOrCreateArtist, first the album artist ...
findOrCreateAlbumArtist ==
    LET tag == job.tag IN
    /\ pc = "albumArtist" /\ pc' = "artist"
    /\ IF tag.albumArtist # NoName THEN FindOrCreate("first", tag.albumArtist)
       ELSE /\ job' = [job EXCEPT !.first = IF tag.artist = NoName THEN UnknownArtistID ELSE 0]
            /\ UNCHANGED db
    /\ UNCHANGED <<mounted, files, tasks, queued, previous, flushed, rescanning, abandoned, edits>>

\* ... then the artist of the track, when it is another.
findOrCreateTrackArtist ==
    LET tag == job.tag IN
    /\ pc = "artist" /\ pc' = "album"
    /\ IF tag.artist \notin {NoName, tag.albumArtist} THEN FindOrCreate("second", tag.artist)
       ELSE /\ job' = [job EXCEPT !.second = IF tag.albumArtist = NoName
                                             THEN UnknownArtistID ELSE 0]
            /\ UNCHANGED db
    /\ UNCHANGED <<mounted, files, tasks, queued, previous, flushed, rescanning, abandoned, edits>>

\* findAlbum: the album of the previous analysis if it has that title and folder.
CacheHit ==
    /\ job.cache # NoAlbum
    /\ job.cache.title = job.tag.album /\ job.cache.folder = Folder[job.media]

ObjectOf(i) == [id |-> i, title |-> db.albums[i].title, artist |-> db.albums[i].artist,
                folder |-> Folder[job.media]]

\* The albums of that title and album artist.  One whose present tracks are elsewhere is
\* not kept; the first track decides, and it may be any of them.
Candidates == {i \in Ids : /\ In(db.albums, i)
                           /\ db.albums[i].title = job.tag.album
                           /\ job.first # 0 => db.albums[i].artist = job.first}
Nearby(t) == db.media[t].internal /\ Folder[t] = Folder[job.media]
Present(d, i) == {t \in Tracks(d, i) : d.media[t].present}
MayMatch(i) == Present(db, i) = {} \/ \E t \in Present(db, i) : Nearby(t)
MayDiffer(i) == \E t \in Present(db, i) : ~Nearby(t)

findAlbum ==
    /\ pc = "album" /\ pc' = "commit" /\ job.tag.album # NoName
    /\ IF CacheHit THEN job' = [job EXCEPT !.album = job.cache]
       ELSE \/ \E i \in Candidates :
                  /\ MayMatch(i)
                  /\ job' = [job EXCEPT !.album = ObjectOf(i), !.cache = ObjectOf(i)]
            \/ /\ \A i \in Candidates : MayDiffer(i)
               /\ job' = [job EXCEPT !.album = NoAlbum, !.cache = NoAlbum]
    /\ UNCHANGED <<db, mounted, files, tasks, queued, previous, flushed, rescanning, abandoned,
                   edits>>

AlbumArtist == IF job.first # 0 THEN job.first ELSE job.second
TrackArtist == IF job.second # 0 THEN job.second ELSE job.first

handleUnknownAlbum ==
    LET found == {i \in Ids : In(db.albums, i) /\ db.albums[i].title = NoName
                              /\ db.albums[i].artist = AlbumArtist}
    IN
    /\ pc = "album" /\ pc' = "commit" /\ job.tag.album = NoName
    /\ job' = [job EXCEPT !.album = IF found = {} THEN NoAlbum
                                    ELSE ObjectOf(CHOOSE i \in found : TRUE)]
    /\ UNCHANGED <<db, mounted, files, tasks, queued, previous, flushed, rescanning, abandoned,
                   edits>>

\* createAlbum, and createUnknownAlbum that gives it its artist (IncrementNbAlbums).
WithNewAlbum(d, i) ==
    LET title == job.tag.album
        artist == IF title = NoName THEN AlbumArtist ELSE 0
        row == [title |-> title, artist |-> artist, nb_tracks |-> 0, is_present |-> 0,
                duration |-> 0]
    IN  UpdateArtist([d EXCEPT !.albums[i] = row, !.last = i], artist, 0, 0, 1)

\* link: the media is listed with its artists; an album of several album artists is
\* given to Various Artists, and its tracks (the present ones) are listed there.
HasTurnedVarious(current) == current \notin {0, AlbumArtist, VariousArtistID}

\* Mutant: the artist of the track is forgotten.
ListingsOfTheAlbumArtist(d, i, m, current) == {<<m, AlbumArtist>>}

Listings(d, i, m, current) ==
    ({m} \X {AlbumArtist, TrackArtist})
        \cup (IF HasTurnedVarious(current) THEN Present(d, i) \X {VariousArtistID}
              ELSE IF current = VariousArtistID THEN {<<m, VariousArtistID>>} ELSE {})

link(d, i, m, current) ==
    LET Add(r, e) == addMedia(e, r[2], r[1])
        listed == FoldSet(Add, d, Listings(d, i, m, current))
    IN  IF current = 0 THEN setAlbumArtist(listed, i, AlbumArtist)
        ELSE IF HasTurnedVarious(current) THEN setAlbumArtist(listed, i, VariousArtistID)
        ELSE listed

\* The transaction of parseAudioFile.  It throws, and is rolled back, when a row it was
\* to refer to has gone or when the media is already listed with one of the artists.
parseAudioFile ==
    LET m == job.media
        isNew == job.album = NoAlbum
        i == IF isNew THEN Fresh ELSE job.album.id
        with == IF isNew THEN WithNewAlbum(db, i) ELSE db
        current == IF isNew THEN with.albums[i].artist ELSE job.album.artist
        filed == File(with, m, TRUE, i, TrackArtist, job.genre)
        refused == \/ ~Exists(db, m) \/ ~In(with.albums, i)
                   \/ ~In(db.artists, AlbumArtist) \/ ~In(db.artists, TrackArtist)
                   \/ job.genre # 0 /\ ~In(db.genres, job.genre)
                   \/ Listings(filed, i, m, current) \cap db.relation # {}
        linked == link(filed, i, m, current)
    IN
    /\ pc = "commit"
    /\ isNew => Fresh \in Ids
    /\ IF refused THEN Fail /\ UNCHANGED db
       ELSE /\ db' = linked
            /\ pc' = "keep"
            /\ job' = IF job.cache # NoAlbum /\ job.cache.id = i
                      THEN [job EXCEPT !.cache.artist = linked.albums[i].artist] ELSE job
            /\ UNCHANGED <<tasks, previous, abandoned>>
    /\ UNCHANGED <<mounted, files, queued, flushed, rescanning, edits>>

KeepCache ==
    /\ pc = "keep" /\ pc' = "save"
    /\ previous' = IF flushed THEN previous ELSE job.cache
    /\ UNCHANGED <<db, mounted, files, tasks, queued, job, flushed, rescanning, abandoned, edits>>

\* handleServiceResult.
saveParserStep ==
    /\ pc = "save" /\ pc' = "idle"
    /\ tasks' = tasks \ {<<job.media, job.kind>>}
    /\ job' = Idle
    /\ UNCHANGED <<db, mounted, files, queued, previous, flushed, rescanning, abandoned, edits>>

\* The application crashes, or stops, and starts again: what was not saved is taken again.
Restart ==
    /\ Edit
    /\ pc' = "idle" /\ job' = Idle
    /\ abandoned' = IF job = Idle THEN abandoned
                    ELSE abandoned \cup {job.genre, job.first, job.second}
    /\ queued' = tasks
    /\ previous' = NoAlbum /\ flushed' = FALSE /\ rescanning' = FALSE
    /\ UNCHANGED <<db, mounted, files, tasks>>

-----------------------------------------------------------------------------
Analyze ==
    \/ \E m \in Media : createFileAndMedia(m)
    \/ \E t \in queued : Take(t)
    \/ LoadCache \/ setDuration \/ refreshMedia
    \/ handleGenre \/ findOrCreateAlbumArtist \/ findOrCreateTrackArtist
    \/ findAlbum \/ handleUnknownAlbum
    \/ parseAudioFile \/ KeepCache \/ saveParserStep

Next ==
    \/ Analyze
    \/ \E m \in Media : DestroyMedia(m) \/ convertToExternal(m) \/ createRefreshTask(m)
    \/ setDevicePresent
    \/ Parser_flush \/ forceRescan
    \/ Restart

Spec == Init /\ [][Next]_vars

-----------------------------------------------------------------------------
TypeOK ==
    /\ db.media \in [Media -> MediaRow \cup {NoRow}]
    /\ db.albums \in [Ids -> AlbumRow \cup {NoRow}]
    /\ db.artists \in [Ids -> ArtistRow \cup {NoRow}]
    /\ db.genres \in [Ids -> GenreRow \cup {NoRow}]
    /\ db.relation \subseteq Media \X Ids /\ db.last \in Ids
    /\ previous \in Object \cup {NoAlbum}
    /\ tasks \subseteq Media \X Kinds /\ queued \subseteq Media \X Kinds

\* The counters of the albums, artists and genres are those of the rows that refer to
\* them, whatever was analysed, refreshed, moved, removed or missing (the triggers of
\* Album.cpp:701, Artist.cpp:432 and Genre.cpp:276).  Artist.is_present is not among
\* them: see ArtistPresenceIsExact.
CountersAreExact ==
    /\ \A i \in Ids : In(db.albums, i) =>
          /\ db.albums[i].nb_tracks = Cardinality(Tracks(db, i))
          /\ db.albums[i].is_present = Cardinality(Present(db, i))
    /\ \A a \in Ids : In(db.artists, a) =>
          /\ db.artists[a].nb_tracks = Cardinality({r \in db.relation : r[2] = a})
          /\ db.artists[a].nb_albums
                = Cardinality({i \in Ids : In(db.albums, i) /\ db.albums[i].artist = a})
    /\ \A g \in Ids : In(db.genres, g) =>
          LET in == {m \in Media : Exists(db, m) /\ db.media[m].genre = g}
          IN  /\ db.genres[g].nb_tracks = Cardinality(in)
              /\ db.genres[g].is_present = Cardinality({m \in in : db.media[m].present})

\* A track has an album and is listed with its artist and with the artist of its album,
\* and nothing else is listed with an artist, even when its analysis was interrupted,
\* repeated or overtaken (MetadataParser.cpp:1535-1575, refreshMedia's transaction).
\* For Various Artists: see VariousArtistsListsAll.
ListingsAgree ==
    \A m \in Media : Exists(db, m) =>
        LET row == db.media[m]
            listed == {a \in Ids : <<m, a>> \in db.relation}
        IN  IF row.track
            THEN /\ In(db.albums, row.album) /\ row.artist \in listed
                 /\ db.albums[row.album].artist \in listed \cup {VariousArtistID}
            ELSE row.album = 0 /\ row.artist = 0 /\ row.genre = 0 /\ listed = {}

\* The last track that leaves takes its album, its artists and its genre with it
\* (DeleteEmpty, DeleteArtistsWithoutTracks): a row without tracks is one that the
\* analysis in progress has just found or created, or that an analysis which did not
\* reach its end has left behind.
EmptyRowsVanish ==
    LET held == (IF job = Idle THEN {} ELSE {job.genre, job.first, job.second}) \cup abandoned
    IN  /\ \A i \in Ids : In(db.albums, i) => Tracks(db, i) # {}
        /\ \A a \in Ids \ (Special \cup held) : In(db.artists, a) =>
              db.artists[a].nb_tracks + db.artists[a].nb_albums > 0
        /\ \A g \in Ids \ held : In(db.genres, g) => db.genres[g].nb_tracks > 0

-----------------------------------------------------------------------------
(* Refuted.                                                                *)

\* "A presence flag, that represents the number of present tracks" (Artist.cpp:415).
\* Relations count whatever the media's presence, devices the track's artist only.
ArtistPresenceIsExact ==
    \A a \in Ids : In(db.artists, a) =>
        db.artists[a].is_present
            = Cardinality({r \in db.relation : r[2] = a /\ db.media[r[1]].present})

\* A device that comes back is always accepted.
PresenceIsNeverRefused == mounted \/ Allowed(setPresent(db, TRUE))

\* "All tracks from this album must now also be reflected in various artist number of
\* tracks" (MetadataParser.cpp:1559): the missing ones are not.
VariousArtistsListsAll ==
    \A m \in Media : Exists(db, m) /\ In(db.albums, db.media[m].album) =>
        LET a == db.albums[db.media[m].album].artist
        IN  a = VariousArtistID => <<m, a>> \in db.relation

\* IAlbum.h:88, "the total album duration": it is not what its tracks last.
DurationIsTheSum ==
    \A i \in Ids : In(db.albums, i) =>
        db.albums[i].duration
            = MapThenSumSet(LAMBDA m : db.media[m].duration, Tracks(db, i))

\* What the analysis has looked up is there when it commits.
LookupsAreFresh ==
    pc = "commit" /\ Exists(db, job.media) =>
        /\ job.album # NoAlbum => In(db.albums, job.album.id)
        /\ In(db.artists, AlbumArtist) /\ In(db.artists, TrackArtist)
        /\ job.genre # 0 => In(db.genres, job.genre)
=============================================================================
