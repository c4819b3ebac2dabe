------------------------- MODULE Collection_proofs -------------------------
(***************************************************************************)
(* For any media, tags and ids: the counters of the albums, artists and    *)
(* genres are those of their rows, a track is listed with its artists, and *)
(* the last track that leaves takes its rows with it.                      *)
(*                                                                         *)
(* First what each trigger and each statement does to the tables, told of  *)
(* one database and the next; then the folds over the relations; then what *)
(* the steps do, one lemma for each.                                       *)
(***************************************************************************)
EXTENDS Collection, FiniteSetTheorems, WellFoundedInduction, TLAPS

-----------------------------------------------------------------------------
(* The inductive invariant.                                                *)

Database == [media : [Media -> MediaRow \cup {NoRow}],
             albums : [Ids -> AlbumRow \cup {NoRow}],
             genres : [Ids -> GenreRow \cup {NoRow}],
             artists : [Ids -> ArtistRow \cup {NoRow}],
             relation : SUBSET (Media \X Ids), last : Ids]

Job == [media : Media, kind : Kinds, track : BOOLEAN, of : Refs, tag : Tags,
        duration : Durations, cache : Object \cup {NoAlbum}, genre : Refs, first : Refs,
        second : Refs, album : Object \cup {NoAlbum}]

Types ==
    /\ db \in Database /\ mounted \in BOOLEAN
    /\ files \in [Media -> Content \cup {NoRow}]
    /\ tasks \subseteq Media \X Kinds /\ queued \subseteq Media \X Kinds
    /\ IF pc = "idle" THEN job = Idle ELSE job \in Job
    /\ previous \in Object \cup {NoAlbum}

\* The rows that refer to an artist, or to a genre.
Listed(d, a) == {r \in d.relation : r[2] = a}
AlbumsOf(d, a) == {i \in Ids : In(d.albums, i) /\ d.albums[i].artist = a}
InGenre(d, g) == {m \in Media : Exists(d, m) /\ d.media[m].genre = g}
PresentIn(d, g) == {m \in InGenre(d, g) : d.media[m].present}

\* The counters are those of the rows, and a row that nothing holds is not empty.
AlbumCounts(d, i) ==
    /\ d.albums[i].nb_tracks = Cardinality(Tracks(d, i))
    /\ d.albums[i].is_present = Cardinality(Present(d, i))
ArtistCounts(d, a) ==
    /\ d.artists[a].nb_tracks = Cardinality(Listed(d, a))
    /\ d.artists[a].nb_albums = Cardinality(AlbumsOf(d, a))
GenreCounts(d, g) ==
    /\ d.genres[g].nb_tracks = Cardinality(InGenre(d, g))
    /\ d.genres[g].is_present = Cardinality(PresentIn(d, g))

Albums(d, held) == \A i \in Ids : In(d.albums, i) =>
                      AlbumCounts(d, i) /\ (i \notin held => Tracks(d, i) # {})
Artists(d, held) == \A a \in Ids : In(d.artists, a) =>
                       /\ ArtistCounts(d, a)
                       /\ a \notin Special \cup held.artists =>
                             Listed(d, a) # {} \/ AlbumsOf(d, a) # {}
Genres(d, held) == \A g \in Ids : In(d.genres, g) =>
                      GenreCounts(d, g) /\ (g \notin held.genres => InGenre(d, g) # {})

SpecialArtists(d) == \A a \in Special : In(d.artists, a)

\* A media and its relations: what ListingsAgree says, and a media that is not there
\* is not listed.
Agrees(d, m) ==
    LET row == d.media[m]
    IN  IF Exists(d, m) /\ row.track
        THEN /\ In(d.albums, row.album) /\ <<m, row.artist>> \in d.relation
             /\ \/ d.albums[row.album].artist = VariousArtistID
                \/ <<m, d.albums[row.album].artist>> \in d.relation
        ELSE /\ Exists(d, m) => row.album = 0 /\ row.artist = 0 /\ row.genre = 0
             /\ \A a \in Ids : <<m, a>> \notin d.relation
Agree(d) == \A m \in Media : Agrees(d, m)

\* No row refers to an id that was not given yet.
Known(d) ==
    /\ \A i \in Ids : d.last < i => ~In(d.albums, i) /\ ~In(d.artists, i) /\ ~In(d.genres, i)
    /\ \A r \in d.relation : r[2] <= d.last
    /\ \A m \in Media : Exists(d, m) =>
          d.media[m].album <= d.last /\ d.media[m].artist <= d.last /\ d.media[m].genre <= d.last
    /\ \A i \in Ids : In(d.albums, i) => d.albums[i].artist <= d.last
    /\ 2 <= d.last

Tables(d, held) ==
    /\ SpecialArtists(d) /\ Artists(d, held)
    /\ Albums(d, {}) /\ Genres(d, held)
    /\ Agree(d) /\ Known(d)

\* An album object knows the artist of its album, while the album is there.
Faithful(d, o) ==
    o # NoAlbum => o.id <= d.last /\ (In(d.albums, o.id) => d.albums[o.id].artist = o.artist)

\* What the analyzer has looked up and not used yet, or has left behind.
Held ==
    LET busy == pc \notin {"idle", "keep", "save"}
    IN  [artists |-> abandoned \cup (IF busy THEN {job.first, job.second} ELSE {}),
         genres |-> abandoned \cup (IF busy THEN {job.genre} ELSE {})]

Analysis ==
    /\ pc \in {"idle", "setDuration", "refreshMedia", "load", "genre", "albumArtist",
               "artist", "album", "commit", "keep", "save"}
    /\ pc \in {"setDuration", "refreshMedia", "load", "genre"} => job.genre = 0
    /\ pc \in {"setDuration", "refreshMedia", "load", "genre", "albumArtist"} => job.first = 0
    /\ pc \in {"setDuration", "refreshMedia", "load", "genre", "albumArtist", "artist"} =>
          job.second = 0
    /\ pc \in {"genre", "albumArtist", "artist", "album", "commit", "keep"} =>
          previous = NoAlbum
    /\ pc # "idle" => Faithful(db, job.cache)
    /\ pc = "commit" => Faithful(db, job.album)

IInv ==
    /\ Types
    /\ Tables(db, Held)
    /\ \A m \in Media : files[m] = NoRow => ~Exists(db, m)
    /\ Analysis
    /\ Faithful(db, previous)

-----------------------------------------------------------------------------
(* Finite sets.                                                            *)

LEMMA Bounds == /\ IsFiniteSet(Media) /\ IsFiniteSet(Ids) /\ IsFiniteSet(Media \X Ids)
                /\ Ids \subseteq Nat /\ 0 \notin Ids /\ Special \subseteq Ids
                /\ Refs \subseteq Nat
<1>1. IsFiniteSet(Media) /\ MaxId \in Nat /\ MaxId > 2
  BY CollectionAssumption
<1>2. IsFiniteSet(Ids)
  BY <1>1, FS_Interval DEF Ids
<1>3. IsFiniteSet(Media \X Ids)
  BY <1>1, <1>2, FS_Product
<1>4. Ids \subseteq Nat /\ 0 \notin Ids /\ Special \subseteq Ids
  BY <1>1 DEF Ids, Special, UnknownArtistID, VariousArtistID
<1>5. Refs \subseteq Nat
  BY <1>4 DEF Refs
<1>. QED  BY <1>1, <1>2, <1>3, <1>4, <1>5

\* What the counters count is finite.
LEMMA Countable ==
    ASSUME NEW d \in Database, NEW i
    PROVE  /\ IsFiniteSet(Tracks(d, i)) /\ IsFiniteSet(Present(d, i))
           /\ IsFiniteSet(InGenre(d, i)) /\ IsFiniteSet(PresentIn(d, i))
           /\ IsFiniteSet(Listed(d, i)) /\ IsFiniteSet(AlbumsOf(d, i))
<1>1. Tracks(d, i) \subseteq Media /\ Present(d, i) \subseteq Media
  BY DEF Tracks, Present
<1>2. InGenre(d, i) \subseteq Media /\ PresentIn(d, i) \subseteq Media
  BY DEF InGenre, PresentIn
<1>3. Listed(d, i) \subseteq Media \X Ids /\ AlbumsOf(d, i) \subseteq Ids
  BY DEF Listed, AlbumsOf, Database
<1>. QED  BY <1>1, <1>2, <1>3, Bounds, FS_Subset

LEMMA Count ==
    ASSUME NEW S, IsFiniteSet(S)
    PROVE  Cardinality(S) \in Nat /\ (Cardinality(S) = 0 <=> S = {})
BY FS_CardinalityType, FS_EmptySet

\* One element less, one more.
LEMMA CountMinus ==
    ASSUME NEW S, NEW x \in S, NEW T, IsFiniteSet(S), T = S \ {x}
    PROVE  Cardinality(T) = Cardinality(S) - 1
BY FS_RemoveElement

LEMMA CountPlus ==
    ASSUME NEW S, NEW x, x \notin S, NEW T, IsFiniteSet(S), T = S \cup {x}
    PROVE  Cardinality(T) = Cardinality(S) + 1
BY FS_AddElement

-----------------------------------------------------------------------------
(* The artists.                                                            *)

\* A row that is in its table is one of its rows.
LEMMA Rows ==
    ASSUME NEW d \in Database, NEW i
    PROVE  /\ i \in Refs /\ In(d.albums, i) => i \in Ids /\ d.albums[i] \in AlbumRow
           /\ i \in Refs /\ In(d.artists, i) => i \in Ids /\ d.artists[i] \in ArtistRow
           /\ i \in Refs /\ In(d.genres, i) => i \in Ids /\ d.genres[i] \in GenreRow
           /\ i \in Media /\ Exists(d, i) => d.media[i] \in MediaRow
BY DEF Database, In, Exists, Refs

\* The row of an artist whose counters have moved.
Moved(r, x, y, z) == [r EXCEPT !.nb_tracks = @ + x, !.is_present = @ + y, !.nb_albums = @ + z]

LEMMA ArtistRowMoved ==
    ASSUME NEW r \in ArtistRow, NEW x \in Int, NEW y \in Int, NEW z \in Int
    PROVE  /\ Moved(r, x, y, z) \in ArtistRow
           /\ Moved(r, x, y, z).nb_tracks = r.nb_tracks + x
           /\ Moved(r, x, y, z).nb_albums = r.nb_albums + z
           /\ Moved(r, x, y, z).is_present = r.is_present + y
<1>1. r.nb_tracks \in Int /\ r.is_present \in Int /\ r.nb_albums \in Int
  BY DEF ArtistRow
<1>2. r.nb_tracks + x \in Int /\ r.is_present + y \in Int /\ r.nb_albums + z \in Int
  BY <1>1
<1>. QED  BY <1>2 DEF ArtistRow, Moved

OnlyArtists(d, e) ==
    /\ e \in Database
    /\ e.media = d.media /\ e.albums = d.albums /\ e.genres = d.genres
    /\ e.relation = d.relation /\ e.last = d.last

\* An artist may be deleted without a media noticing it.
Spare(d, a) ==
    \/ a \in Special
    \/ Listed(d, a) # {}
    \/ \A m \in Media : Exists(d, m) => d.media[m].artist # a

Needed(d, a) == a \in Special \/ Listed(d, a) # {} \/ AlbumsOf(d, a) # {}

LEMMA ArtistUpdated ==
    ASSUME NEW d \in Database, NEW a \in Refs, NEW x \in Int, NEW y \in Int, NEW z \in Int,
           Spare(d, a),
           In(d.artists, a) =>
               /\ d.artists[a].nb_tracks + x = Cardinality(Listed(d, a))
               /\ d.artists[a].nb_albums + z = Cardinality(AlbumsOf(d, a)),
           NEW e, e = UpdateArtist(d, a, x, y, z)
    PROVE  /\ OnlyArtists(d, e)
           /\ \A b \in Ids \ {a} : e.artists[b] = d.artists[b]
           /\ In(e.artists, a) <=> In(d.artists, a) /\ Needed(d, a)
           /\ In(e.artists, a) => ArtistCounts(e, a)
<1>1. CASE ~In(d.artists, a)
  BY <1>1 DEF UpdateArtist, OnlyArtists
<1>2. CASE In(d.artists, a)
  <2>. DEFINE row == Moved(d.artists[a], x, y, z)
  <2>1. a \in Ids /\ d.artists[a] \in ArtistRow /\ NoRow \notin ArtistRow /\ a # 0
    BY <1>2, Rows, CollectionAssumption, Bounds
  <2>2. /\ row \in ArtistRow
        /\ row.nb_tracks = Cardinality(Listed(d, a))
        /\ row.nb_albums = Cardinality(AlbumsOf(d, a))
    <3>1. row \in ArtistRow
          /\ row.nb_tracks = d.artists[a].nb_tracks + x
          /\ row.nb_albums = d.artists[a].nb_albums + z
      BY <2>1, ArtistRowMoved
    <3>. QED  BY <1>2, <3>1
  <2>3. (row.nb_tracks = 0 <=> Listed(d, a) = {}) /\ (row.nb_albums = 0 <=> AlbumsOf(d, a) = {})
    BY <2>2, Countable, Count
  <2>4. CASE Needed(d, a)
    <3>1. e = [d EXCEPT !.artists[a] = row]
      BY <1>2, <2>3, <2>4 DEF Needed, UpdateArtist, Moved
    <3>. HIDE DEF row
    <3>2. OnlyArtists(d, e) /\ e.artists = [d.artists EXCEPT ![a] = row]
      BY <2>1, <2>2, <3>1 DEF OnlyArtists, Database
    <3>3. e.artists[a] = row /\ \A b \in Ids \ {a} : e.artists[b] = d.artists[b]
      BY <2>1, <3>2 DEF Database
    <3>4. Listed(e, a) = Listed(d, a) /\ AlbumsOf(e, a) = AlbumsOf(d, a)
      BY <3>2 DEF OnlyArtists, Listed, AlbumsOf
    <3>. QED  BY <1>2, <2>1, <2>2, <2>4, <3>2, <3>3, <3>4 DEF In, ArtistCounts
  <2>5. CASE ~Needed(d, a)
    <3>1. e = DeleteArtist(d, a)
      BY <1>2, <2>3, <2>5 DEF Needed, UpdateArtist, Moved
    <3>2. \A i \in Ids : ~(In(d.albums, i) /\ d.albums[i].artist = a)
      BY <2>5 DEF Needed, AlbumsOf
    <3>3. \A m \in Media : Exists(d, m) => d.media[m].artist # a
      BY <2>5 DEF Needed, Spare
    <3>4. [i \in Ids |-> IF In(d.albums, i) /\ d.albums[i].artist = a THEN NoRow
                         ELSE d.albums[i]] = d.albums
      BY <3>2 DEF Database
    <3>5. {r \in d.relation : r[2] # a} = d.relation
      BY <2>5 DEF Needed, Listed
    <3>6. [m \in Media |-> IF d.media[m] # NoRow /\ d.media[m].artist = a
                           THEN [d.media[m] EXCEPT !.artist = 0] ELSE d.media[m]] = d.media
      BY <3>3 DEF Database, Exists
    <3>7. e = [d EXCEPT !.artists[a] = NoRow, !.albums = d.albums, !.relation = d.relation,
                        !.media = d.media]
      BY <3>1, <3>4, <3>5, <3>6 DEF DeleteArtist
    <3>8. OnlyArtists(d, e) /\ e.artists = [d.artists EXCEPT ![a] = NoRow]
      BY <2>1, <3>7, ZenonT(30) DEF OnlyArtists, Database
    <3>9. e.artists[a] = NoRow /\ \A b \in Ids \ {a} : e.artists[b] = d.artists[b]
      BY <2>1, <3>8 DEF Database
    <3>. QED  BY <2>5, <3>8, <3>9 DEF In
  <2>. QED  BY <2>4, <2>5
<1>. QED  BY <1>1, <1>2

-----------------------------------------------------------------------------
(* The albums and the genres.                                              *)

LEMMA SameMedia ==
    ASSUME NEW d, NEW e, e.media = d.media
    PROVE  \A i : /\ Tracks(e, i) = Tracks(d, i) /\ Present(e, i) = Present(d, i)
                  /\ InGenre(e, i) = InGenre(d, i) /\ PresentIn(e, i) = PresentIn(d, i)
BY DEF Tracks, Present, InGenre, PresentIn, Exists

\* A step of the artists only keeps the others.
LEMMA ArtistsStep ==
    ASSUME NEW d \in Database, NEW e \in Database, NEW a, NEW held, Artists(d, held),
           \A b \in Ids \ {a} : e.artists[b] = d.artists[b],
           \A b \in Ids \ {a} : Listed(e, b) = Listed(d, b),
           \A b \in Ids \ {a} : AlbumsOf(e, b) = AlbumsOf(d, b),
           a \in Refs,
           In(e.artists, a) => ArtistCounts(e, a) /\ Needed(e, a)
    PROVE  Artists(e, held)
<1>. SUFFICES ASSUME NEW b \in Ids, In(e.artists, b)
              PROVE  /\ ArtistCounts(e, b)
                     /\ b \notin Special \cup held.artists =>
                           Listed(e, b) # {} \/ AlbumsOf(e, b) # {}
  BY DEF Artists
<1>1. CASE b = a
  BY <1>1 DEF Needed
<1>2. CASE b # a
  <2>1. e.artists[b] = d.artists[b] /\ AlbumsOf(e, b) = AlbumsOf(d, b) /\ In(d.artists, b)
    BY <1>2 DEF In
  <2>2. Listed(e, b) = Listed(d, b)
    BY <1>2
  <2>. QED  BY <2>1, <2>2 DEF Artists, ArtistCounts
<1>. QED  BY <1>1, <1>2

OnlyAlbums(d, e) ==
    /\ e \in Database
    /\ e.media = d.media /\ e.genres = d.genres /\ e.relation = d.relation /\ e.last = d.last

\* The artists that are still there are those that were and are needed.
StillThere(d, e) ==
    \A a \in Ids : /\ In(e.artists, a) => In(d.artists, a)
                   /\ In(d.artists, a) /\ Needed(e, a) => In(e.artists, a)

MovedAlbum(r, x, y, z) ==
    [r EXCEPT !.nb_tracks = @ + x, !.is_present = @ + y, !.duration = @ + z]

LEMMA AlbumRowMoved ==
    ASSUME NEW r \in AlbumRow, NEW x \in Int, NEW y \in Int, NEW z \in Int
    PROVE  /\ MovedAlbum(r, x, y, z) \in AlbumRow
           /\ MovedAlbum(r, x, y, z).artist = r.artist
           /\ MovedAlbum(r, x, y, z).nb_tracks = r.nb_tracks + x
           /\ MovedAlbum(r, x, y, z).is_present = r.is_present + y
<1>1. r.nb_tracks \in Int /\ r.is_present \in Int /\ r.duration \in Int
  BY DEF AlbumRow
<1>2. r.nb_tracks + x \in Int /\ r.is_present + y \in Int /\ r.duration + z \in Int
  BY <1>1
<1>. QED  BY <1>2 DEF AlbumRow, MovedAlbum

\* An album without tracks is deleted, and its artist loses it.
LEMMA AlbumDeleted ==
    ASSUME NEW d \in Database, NEW i \in Ids, In(d.albums, i), Tracks(d, i) = {},
           NEW held, Artists(d, held), Spare(d, d.albums[i].artist),
           NEW e, e = DeleteAlbum(d, i)
    PROVE  /\ OnlyAlbums(d, e) /\ e.albums = [d.albums EXCEPT ![i] = NoRow]
           /\ Artists(e, held) /\ StillThere(d, e)
<1>. DEFINE x == d.albums[i].artist
            f == [d EXCEPT !.albums[i] = NoRow]
            none == 0
            less == -1
<1>1. x \in Refs
  BY Rows, Bounds DEF Refs, AlbumRow
<1>2. [m \in Media |-> IF m \in Tracks(d, i) THEN [d.media[m] EXCEPT !.album = 0]
                       ELSE d.media[m]] = d.media
  BY DEF Database
<1>3. e = UpdateArtist([d EXCEPT !.albums[i] = NoRow, !.media = d.media], x, none, none, less)
  BY <1>2 DEF DeleteAlbum
<1>4. /\ f \in Database /\ OnlyAlbums(d, f) /\ f.artists = d.artists
      /\ f.albums = [d.albums EXCEPT ![i] = NoRow]
  BY DEF Database, OnlyAlbums
<1>5. [d EXCEPT !.albums[i] = NoRow, !.media = d.media] = f
  BY DEF Database
<1>6. \A a \in Ids \ {x} : AlbumsOf(f, a) = AlbumsOf(d, a)
  BY <1>4 DEF AlbumsOf, Database, In
<1>7. AlbumsOf(f, x) = AlbumsOf(d, x) \ {i} /\ i \in AlbumsOf(d, x)
  BY <1>4 DEF AlbumsOf, Database, In
<1>8. \A a : Listed(f, a) = Listed(d, a)
  BY <1>4 DEF Listed, OnlyAlbums
<1>9. Spare(f, x)
  BY <1>4, <1>8 DEF Spare, OnlyAlbums, Exists
<1>10. none \in Int /\ less \in Int
  OBVIOUS
<1>11. In(f.artists, x) => /\ f.artists[x].nb_tracks + none = Cardinality(Listed(f, x))
                           /\ f.artists[x].nb_albums + less = Cardinality(AlbumsOf(f, x))
  <2>. SUFFICES ASSUME In(f.artists, x)
                PROVE  /\ f.artists[x].nb_tracks + none = Cardinality(Listed(f, x))
                       /\ f.artists[x].nb_albums + less = Cardinality(AlbumsOf(f, x))
    OBVIOUS
  <2>1. x \in Ids /\ In(d.artists, x) /\ f.artists[x] = d.artists[x]
    BY <1>1, <1>4 DEF Refs, In
  <2>2. ArtistCounts(d, x)
    BY <2>1 DEF Artists
  <2>3. Cardinality(AlbumsOf(f, x)) = Cardinality(AlbumsOf(d, x)) - 1
    BY <1>7, Countable, CountMinus
  <2>4. Cardinality(AlbumsOf(d, x)) \in Nat /\ Cardinality(Listed(d, x)) \in Nat
    BY Countable, Count
  <2>. HIDE DEF f, x
  <2>. QED  BY <1>8, <2>1, <2>2, <2>3, <2>4 DEF ArtistCounts
<1>12. e = UpdateArtist(f, x, none, none, less)
  BY <1>3, <1>5
<1>. HIDE DEF f, x, none, less
<1>13. /\ OnlyArtists(f, e)
       /\ \A b \in Ids \ {x} : e.artists[b] = f.artists[b]
       /\ In(e.artists, x) <=> In(f.artists, x) /\ Needed(f, x)
       /\ In(e.artists, x) => ArtistCounts(e, x)
  BY <1>1, <1>4, <1>9, <1>10, <1>11, <1>12, ArtistUpdated
<1>14. \A a : Listed(e, a) = Listed(f, a) /\ AlbumsOf(e, a) = AlbumsOf(f, a)
  BY <1>13 DEF OnlyArtists, Listed, AlbumsOf
<1>15. \A a : Needed(e, a) <=> Needed(f, a)
  BY <1>14 DEF Needed
<1>16. OnlyAlbums(d, e) /\ e.albums = [d.albums EXCEPT ![i] = NoRow]
  BY <1>4, <1>13 DEF OnlyAlbums, OnlyArtists
<1>17. Artists(e, held)
  <2>1. \A b \in Ids \ {x} : /\ Listed(e, b) = Listed(d, b) /\ AlbumsOf(e, b) = AlbumsOf(d, b)
                            /\ e.artists[b] = d.artists[b]
    BY <1>4, <1>6, <1>8, <1>13, <1>14
  <2>2. In(e.artists, x) => ArtistCounts(e, x) /\ Needed(e, x)
    BY <1>13, <1>15
  <2>3. e \in Database
    BY <1>16 DEF OnlyAlbums
  <2>. QED  BY <1>1, <2>1, <2>2, <2>3, ArtistsStep
<1>18. StillThere(d, e)
  <2>. SUFFICES ASSUME NEW a \in Ids
                PROVE  /\ In(e.artists, a) => In(d.artists, a)
                       /\ In(d.artists, a) /\ Needed(e, a) => In(e.artists, a)
    BY DEF StillThere
  <2>1. CASE a = x
    BY <1>4, <1>13, <1>15, <2>1
  <2>2. CASE a # x
    BY <1>4, <1>13, <2>2 DEF In
  <2>. QED  BY <2>1, <2>2
<1>. QED  BY <1>16, <1>17, <1>18

\* The counters of an album, once they have moved.
AlbumDue(d, i, x, y) ==
    In(d.albums, i) =>
        /\ d.albums[i].nb_tracks + x = Cardinality(Tracks(d, i))
        /\ d.albums[i].is_present + y = Cardinality(Present(d, i))
        /\ Tracks(d, i) = {} => Spare(d, d.albums[i].artist)

\* No other album has changed, and an album without tracks is no longer there.
AlbumDone(d, e, i) ==
    /\ \A j \in Ids \ {i} : e.albums[j] = d.albums[j]
    /\ In(e.albums, i) <=> In(d.albums, i) /\ Tracks(d, i) # {}
    /\ In(e.albums, i) => AlbumCounts(e, i) /\ e.albums[i].artist = d.albums[i].artist

LEMMA AlbumUpdated ==
    ASSUME NEW d \in Database, NEW i \in Refs, NEW x \in Int, NEW y \in Int, NEW z \in Int,
           NEW held, Artists(d, held),
           AlbumDue(d, i, x, y),
           NEW e, e = UpdateAlbum(d, i, x, y, z)
    PROVE  OnlyAlbums(d, e) /\ AlbumDone(d, e, i) /\ Artists(e, held) /\ StillThere(d, e)
<1>. USE DEF AlbumDue, AlbumDone
<1>1. CASE ~In(d.albums, i)
  BY <1>1 DEF UpdateAlbum, OnlyAlbums, StillThere
<1>2. CASE In(d.albums, i)
  <2>. DEFINE row == MovedAlbum(d.albums[i], x, y, z)
  <2>1. i \in Ids /\ d.albums[i] \in AlbumRow /\ NoRow \notin AlbumRow /\ i # 0
    BY <1>2, Rows, CollectionAssumption, Bounds
  <2>2. /\ row \in AlbumRow /\ row.artist = d.albums[i].artist
        /\ row.nb_tracks = Cardinality(Tracks(d, i))
        /\ row.is_present = Cardinality(Present(d, i))
    <3>1. /\ row \in AlbumRow /\ row.artist = d.albums[i].artist
          /\ row.nb_tracks = d.albums[i].nb_tracks + x
          /\ row.is_present = d.albums[i].is_present + y
      <4>. HIDE DEF row
      <4>1. row = MovedAlbum(d.albums[i], x, y, z)
        BY DEF row
      <4>. QED  BY <2>1, <4>1, AlbumRowMoved
    <3>. HIDE DEF row
    <3>. QED  BY <1>2, <3>1
  <2>3. row.nb_tracks = 0 <=> Tracks(d, i) = {}
    BY <2>2, Countable, Count
  <2>4. CASE Tracks(d, i) # {}
    <3>1. e = [d EXCEPT !.albums[i] = row]
      BY <1>2, <2>3, <2>4 DEF UpdateAlbum, MovedAlbum
    <3>. HIDE DEF row
    <3>2. /\ OnlyAlbums(d, e) /\ e.albums = [d.albums EXCEPT ![i] = row]
          /\ e.artists = d.artists
      BY <2>1, <2>2, <3>1 DEF OnlyAlbums, Database
    <3>3. e.albums[i] = row /\ \A j \in Ids \ {i} : e.albums[j] = d.albums[j]
      BY <2>1, <3>2 DEF Database
    <3>4. \A a : Listed(e, a) = Listed(d, a) /\ AlbumsOf(e, a) = AlbumsOf(d, a)
      BY <1>2, <2>1, <2>2, <3>2, <3>3 DEF OnlyAlbums, Listed, AlbumsOf, In
    <3>5. Artists(e, held) /\ StillThere(d, e)
      BY <3>2, <3>4 DEF Artists, StillThere, ArtistCounts
    <3>6. Tracks(e, i) = Tracks(d, i) /\ Present(e, i) = Present(d, i)
      BY <3>2, SameMedia DEF OnlyAlbums
    <3>. QED  BY <1>2, <2>1, <2>2, <2>4, <3>2, <3>3, <3>5, <3>6 DEF In, AlbumCounts
  <2>5. CASE Tracks(d, i) = {}
    <3>1. e = DeleteAlbum(d, i)
      BY <1>2, <2>3, <2>5 DEF UpdateAlbum, MovedAlbum
    <3>2. /\ OnlyAlbums(d, e) /\ e.albums = [d.albums EXCEPT ![i] = NoRow]
          /\ Artists(e, held) /\ StillThere(d, e)
      BY <1>2, <2>1, <2>5, <3>1, AlbumDeleted
    <3>3. e.albums[i] = NoRow /\ \A j \in Ids \ {i} : e.albums[j] = d.albums[j]
      BY <2>1, <3>2 DEF Database
    <3>. QED  BY <2>5, <3>2, <3>3 DEF In
  <2>. QED  BY <2>4, <2>5
<1>. QED  BY <1>1, <1>2

OnlyGenres(d, e) ==
    /\ e \in Database
    /\ e.media = d.media /\ e.albums = d.albums /\ e.artists = d.artists
    /\ e.relation = d.relation /\ e.last = d.last

MovedGenre(r, x, y) == [r EXCEPT !.nb_tracks = @ + x, !.is_present = @ + y]

LEMMA GenreRowMoved ==
    ASSUME NEW r \in GenreRow, NEW x \in Int, NEW y \in Int
    PROVE  /\ MovedGenre(r, x, y) \in GenreRow
           /\ MovedGenre(r, x, y).nb_tracks = r.nb_tracks + x
           /\ MovedGenre(r, x, y).is_present = r.is_present + y
<1>1. r.nb_tracks \in Int /\ r.is_present \in Int
  BY DEF GenreRow
<1>2. r.nb_tracks + x \in Int /\ r.is_present + y \in Int
  BY <1>1
<1>. QED  BY <1>2 DEF GenreRow, MovedGenre

GenreDue(d, g, x, y) ==
    In(d.genres, g) =>
        /\ d.genres[g].nb_tracks + x = Cardinality(InGenre(d, g))
        /\ d.genres[g].is_present + y = Cardinality(PresentIn(d, g))

GenreDone(d, e, g) ==
    /\ \A j \in Ids \ {g} : e.genres[j] = d.genres[j]
    /\ In(e.genres, g) <=> In(d.genres, g) /\ InGenre(d, g) # {}
    /\ In(e.genres, g) => GenreCounts(e, g)

LEMMA GenreUpdated ==
    ASSUME NEW d \in Database, NEW g \in Refs, NEW x \in Int, NEW y \in Int,
           GenreDue(d, g, x, y),
           NEW e, e = UpdateGenre(d, g, x, y)
    PROVE  OnlyGenres(d, e) /\ GenreDone(d, e, g)
<1>. USE DEF GenreDue, GenreDone
<1>1. CASE ~In(d.genres, g)
  BY <1>1 DEF UpdateGenre, OnlyGenres
<1>2. CASE In(d.genres, g)
  <2>. DEFINE row == MovedGenre(d.genres[g], x, y)
  <2>1. g \in Ids /\ d.genres[g] \in GenreRow /\ NoRow \notin GenreRow /\ g # 0
    BY <1>2, Rows, CollectionAssumption, Bounds
  <2>2. /\ row \in GenreRow
        /\ row.nb_tracks = Cardinality(InGenre(d, g))
        /\ row.is_present = Cardinality(PresentIn(d, g))
    <3>1. /\ row \in GenreRow
          /\ row.nb_tracks = d.genres[g].nb_tracks + x
          /\ row.is_present = d.genres[g].is_present + y
      <4>. HIDE DEF row
      <4>1. row = MovedGenre(d.genres[g], x, y)
        BY DEF row
      <4>. QED  BY <2>1, <4>1, GenreRowMoved
    <3>. HIDE DEF row
    <3>. QED  BY <1>2, <3>1
  <2>3. row.nb_tracks = 0 <=> InGenre(d, g) = {}
    BY <2>2, Countable, Count
  <2>4. CASE InGenre(d, g) # {}
    <3>1. e = [d EXCEPT !.genres[g] = row]
      BY <1>2, <2>3, <2>4 DEF UpdateGenre, MovedGenre
    <3>. HIDE DEF row
    <3>2. OnlyGenres(d, e) /\ e.genres = [d.genres EXCEPT ![g] = row]
      BY <2>1, <2>2, <3>1 DEF OnlyGenres, Database
    <3>3. e.genres[g] = row /\ \A j \in Ids \ {g} : e.genres[j] = d.genres[j]
      BY <2>1, <3>2 DEF Database
    <3>4. InGenre(e, g) = InGenre(d, g) /\ PresentIn(e, g) = PresentIn(d, g)
      BY <3>2, SameMedia DEF OnlyGenres
    <3>. QED  BY <1>2, <2>1, <2>2, <2>4, <3>2, <3>3, <3>4 DEF In, GenreCounts
  <2>5. CASE InGenre(d, g) = {}
    <3>1. e = [d EXCEPT !.genres[g] = NoRow]
      BY <1>2, <2>3, <2>5 DEF UpdateGenre, MovedGenre
    <3>2. OnlyGenres(d, e) /\ e.genres = [d.genres EXCEPT ![g] = NoRow]
      BY <2>1, <3>1 DEF OnlyGenres, Database
    <3>3. e.genres[g] = NoRow /\ \A j \in Ids \ {g} : e.genres[j] = d.genres[j]
      BY <2>1, <3>2 DEF Database
    <3>. QED  BY <2>5, <3>2, <3>3 DEF In
  <2>. QED  BY <2>4, <2>5
<1>. QED  BY <1>1, <1>2

-----------------------------------------------------------------------------
(* A media leaves an album and a genre, or comes in.                       *)

Both(d, i, g, x, y, z) == UpdateGenre(UpdateAlbum(d, i, x, y, z), g, x, y)

\* Albums are only deleted.
Fewer(d, e) ==
    \A j \in Ids : In(e.albums, j) =>
        In(d.albums, j) /\ e.albums[j].artist = d.albums[j].artist

LEMMA FewerNeeded ==
    ASSUME NEW d, NEW e, Fewer(d, e), e.relation = d.relation
    PROVE  \A a : Needed(e, a) => Needed(d, a)
BY DEF Fewer, Needed, AlbumsOf, Listed

LEMMA StillThereAgain ==
    ASSUME NEW c, NEW d, NEW e, StillThere(c, d), StillThere(d, e), Fewer(d, e),
           e.relation = d.relation
    PROVE  StillThere(c, e)
<1>1. \A a : Needed(e, a) => Needed(d, a)
  BY FewerNeeded
<1>. QED  BY <1>1 DEF StillThere

Due(d, i, g, x, y) == AlbumDue(d, i, x, y) /\ GenreDue(d, g, x, y)
Done(d, e, i, g) ==
    /\ e \in Database
    /\ e.media = d.media /\ e.relation = d.relation /\ e.last = d.last
    /\ AlbumDone(d, e, i) /\ GenreDone(d, e, g)

LEMMA BothUpdated ==
    ASSUME NEW d \in Database, NEW i \in Refs, NEW g \in Refs,
           NEW x \in Int, NEW y \in Int, NEW z \in Int,
           NEW held, Artists(d, held), Due(d, i, g, x, y),
           NEW e, e = Both(d, i, g, x, y, z)
    PROVE  Done(d, e, i, g) /\ Fewer(d, e) /\ Artists(e, held) /\ StillThere(d, e)
<1>. DEFINE f == UpdateAlbum(d, i, x, y, z)
<1>1. e = UpdateGenre(f, g, x, y)
  BY DEF Both
<1>2. f = UpdateAlbum(d, i, x, y, z)
  OBVIOUS
<1>. HIDE DEF f
<1>3. OnlyAlbums(d, f) /\ AlbumDone(d, f, i) /\ Artists(f, held) /\ StillThere(d, f)
  BY <1>2, AlbumUpdated DEF Due
<1>4. f \in Database /\ InGenre(f, g) = InGenre(d, g) /\ PresentIn(f, g) = PresentIn(d, g)
      /\ f.genres = d.genres
  BY <1>3, SameMedia DEF OnlyAlbums
<1>5. GenreDue(f, g, x, y)
  BY <1>4 DEF GenreDue, Due
<1>6. OnlyGenres(f, e) /\ GenreDone(f, e, g)
  BY <1>1, <1>4, <1>5, GenreUpdated
<1>7. e.albums = f.albums /\ e.media = f.media
  BY <1>6 DEF OnlyGenres
<1>8. AlbumCounts(e, i) <=> AlbumCounts(f, i)
  BY <1>7, SameMedia DEF AlbumCounts
<1>9. AlbumDone(d, e, i)
  BY <1>3, <1>7, <1>8 DEF AlbumDone
<1>10. Fewer(d, e)
  BY <1>9 DEF AlbumDone, Fewer, In
<1>11. GenreDone(d, e, g)
  BY <1>4, <1>6 DEF GenreDone
<1>12. e \in Database /\ e.media = d.media /\ e.relation = d.relation /\ e.last = d.last
  BY <1>3, <1>6 DEF OnlyGenres, OnlyAlbums
<1>13. Artists(e, held) /\ StillThere(d, e)
  <2>1. \A a : Listed(e, a) = Listed(f, a) /\ AlbumsOf(e, a) = AlbumsOf(f, a)
    BY <1>6 DEF OnlyGenres, Listed, AlbumsOf
  <2>2. \A a : Needed(e, a) <=> Needed(f, a)
    BY <2>1 DEF Needed
  <2>3. e.artists = f.artists
    BY <1>6 DEF OnlyGenres
  <2>4. Artists(e, held)
    BY <1>3, <2>1, <2>3 DEF Artists, ArtistCounts
  <2>5. StillThere(d, e)
    BY <1>3, <2>2, <2>3 DEF StillThere
  <2>. QED  BY <2>4, <2>5
<1>. QED  BY <1>9, <1>10, <1>11, <1>12, <1>13 DEF Done

\* A media that leaves a set, or comes in, if it is present.
LEMMA CountLeaves ==
    ASSUME NEW P, IsFiniteSet(P), NEW m, NEW b \in BOOLEAN, b <=> m \in P, NEW Q, Q = P \ {m}
    PROVE  Cardinality(P) + (-One(b)) = Cardinality(Q)
<1>. DEFINE one == One(b)
            n == Cardinality(P)
            k == Cardinality(Q)
<1>1. n \in Nat
  BY Count
<1>2. one \in Int /\ n - one = k
  <2>1. CASE b
    <3>1. k = n - 1 /\ one = 1
      BY <2>1, CountMinus DEF One
    <3>. HIDE DEF one, n, k
    <3>. QED  BY <1>1, <3>1
  <2>2. CASE ~b
    <3>1. k = n /\ one = 0
      BY <2>2 DEF One
    <3>. HIDE DEF one, n, k
    <3>. QED  BY <1>1, <3>1
  <2>. QED  BY <2>1, <2>2
<1>3. n + (-one) = k
  <2>. HIDE DEF one, n, k
  <2>. QED  BY <1>1, <1>2
<1>. QED  BY <1>3

LEMMA CountComes ==
    ASSUME NEW P, IsFiniteSet(P), NEW m, m \notin P, NEW b \in BOOLEAN,
           NEW Q, Q = IF b THEN P \cup {m} ELSE P
    PROVE  Cardinality(P) + One(b) = Cardinality(Q)
<1>1. Cardinality(P) \in Nat
  BY Count
<1>2. CASE b
  <2>1. Cardinality(Q) = Cardinality(P) + 1 /\ One(b) = 1
    BY <1>2, CountPlus DEF One
  <2>. QED  BY <1>1, <2>1
<1>3. CASE ~b
  <2>1. Q = P /\ One(b) = 0
    BY <1>3 DEF One
  <2>. QED  BY <1>1, <2>1
<1>. QED  BY <1>2, <1>3

\* The media m is the only one to change, and keeps its presence.
OnlyMedia(d, e, m) ==
    /\ \A t \in Media \ {m} : e.media[t] = d.media[t]
    /\ Exists(d, m) /\ Exists(e, m) /\ e.media[m].present = d.media[m].present
    /\ e.media[m].internal = d.media[m].internal

LEMMA TracksMoved ==
    ASSUME NEW d, NEW e, NEW m \in Media, OnlyMedia(d, e, m), NEW i
    PROVE  /\ i \notin {d.media[m].album, e.media[m].album} =>
                 Tracks(e, i) = Tracks(d, i) /\ Present(e, i) = Present(d, i)
           /\ i = d.media[m].album /\ i = e.media[m].album =>
                 Tracks(e, i) = Tracks(d, i) /\ Present(e, i) = Present(d, i) /\ m \in Tracks(d, i)
           /\ i = d.media[m].album /\ i # e.media[m].album =>
                 /\ Tracks(e, i) = Tracks(d, i) \ {m} /\ Present(e, i) = Present(d, i) \ {m}
                 /\ m \in Tracks(d, i) /\ (m \in Present(d, i) <=> d.media[m].present)
           /\ i # d.media[m].album /\ i = e.media[m].album =>
                 /\ Tracks(e, i) = Tracks(d, i) \cup {m} /\ m \notin Tracks(d, i)
                 /\ Present(e, i) = IF d.media[m].present THEN Present(d, i) \cup {m}
                                    ELSE Present(d, i)
                 /\ m \notin Present(d, i)
<1>1. \A t \in Media : /\ t # m => (t \in Tracks(e, i) <=> t \in Tracks(d, i))
                       /\ t # m => (t \in Present(e, i) <=> t \in Present(d, i))
  BY DEF OnlyMedia, Tracks, Present, Exists
<1>2. /\ m \in Tracks(d, i) <=> i = d.media[m].album
      /\ m \in Tracks(e, i) <=> i = e.media[m].album
      /\ m \in Present(d, i) <=> i = d.media[m].album /\ d.media[m].present
      /\ m \in Present(e, i) <=> i = e.media[m].album /\ d.media[m].present
  BY DEF OnlyMedia, Tracks, Present
<1>3. Tracks(d, i) \subseteq Media /\ Present(d, i) \subseteq Media
      /\ Tracks(e, i) \subseteq Media /\ Present(e, i) \subseteq Media
  BY DEF Tracks, Present
<1>. QED  BY <1>1, <1>2, <1>3

LEMMA GenreMoved ==
    ASSUME NEW d, NEW e, NEW m \in Media, OnlyMedia(d, e, m), NEW i
    PROVE  /\ i \notin {d.media[m].genre, e.media[m].genre} =>
                 InGenre(e, i) = InGenre(d, i) /\ PresentIn(e, i) = PresentIn(d, i)
           /\ i = d.media[m].genre /\ i = e.media[m].genre =>
                 InGenre(e, i) = InGenre(d, i) /\ PresentIn(e, i) = PresentIn(d, i)
           /\ i = d.media[m].genre /\ i # e.media[m].genre =>
                 /\ InGenre(e, i) = InGenre(d, i) \ {m} /\ PresentIn(e, i) = PresentIn(d, i) \ {m}
                 /\ m \in InGenre(d, i) /\ (m \in PresentIn(d, i) <=> d.media[m].present)
           /\ i # d.media[m].genre /\ i = e.media[m].genre =>
                 /\ InGenre(e, i) = InGenre(d, i) \cup {m} /\ m \notin InGenre(d, i)
                 /\ PresentIn(e, i) = IF d.media[m].present THEN PresentIn(d, i) \cup {m}
                                      ELSE PresentIn(d, i)
                 /\ m \notin PresentIn(d, i)
<1>1. \A t \in Media : /\ t # m => (t \in InGenre(e, i) <=> t \in InGenre(d, i))
                       /\ t # m => (t \in PresentIn(e, i) <=> t \in PresentIn(d, i))
  BY DEF OnlyMedia, InGenre, PresentIn, Exists
<1>2. /\ m \in InGenre(d, i) <=> i = d.media[m].genre
      /\ m \in InGenre(e, i) <=> i = e.media[m].genre
      /\ m \in PresentIn(d, i) <=> i = d.media[m].genre /\ d.media[m].present
      /\ m \in PresentIn(e, i) <=> i = e.media[m].genre /\ d.media[m].present
  BY DEF OnlyMedia, InGenre, PresentIn
<1>3. InGenre(d, i) \subseteq Media /\ PresentIn(d, i) \subseteq Media
      /\ InGenre(e, i) \subseteq Media /\ PresentIn(e, i) \subseteq Media
  BY DEF InGenre, PresentIn
<1>. QED  BY <1>1, <1>2, <1>3

\* The row of a media that is filed elsewhere.
Refiled(row, isTrack, album, artist, genre) ==
    [row EXCEPT !.track = isTrack, !.album = album, !.artist = artist, !.genre = genre]

LEMMA RowRefiled ==
    ASSUME NEW row \in MediaRow, NEW isTrack \in BOOLEAN, NEW album \in Refs,
           NEW artist \in Refs, NEW genre \in Refs
    PROVE  /\ Refiled(row, isTrack, album, artist, genre) \in MediaRow
           /\ Refiled(row, isTrack, album, artist, genre).track = isTrack
           /\ Refiled(row, isTrack, album, artist, genre).album = album
           /\ Refiled(row, isTrack, album, artist, genre).artist = artist
           /\ Refiled(row, isTrack, album, artist, genre).genre = genre
           /\ Refiled(row, isTrack, album, artist, genre).present = row.present
           /\ Refiled(row, isTrack, album, artist, genre).internal = row.internal
           /\ Refiled(row, isTrack, album, artist, genre) # NoRow
<1>1. NoRow \notin MediaRow
  BY CollectionAssumption
<1>. QED  BY <1>1 DEF MediaRow, Refiled

LEMMA MediaTypes ==
    ASSUME NEW row \in MediaRow
    PROVE  /\ row.present \in BOOLEAN /\ row.internal \in BOOLEAN /\ row.track \in BOOLEAN
           /\ row.duration \in Durations /\ row.duration \in Int /\ row.album \in Refs
           /\ row.artist \in Refs /\ row.genre \in Refs
<1>1. row.duration \in Durations /\ Durations \subseteq Int
  BY CollectionAssumption DEF MediaRow
<1>. QED  BY <1>1 DEF MediaRow

FewerGenres(d, e) == \A g \in Ids : In(e.genres, g) => In(d.genres, g)

Filed(d, e, m, isTrack, album, artist, genre) ==
    /\ e \in Database /\ e.relation = d.relation /\ e.last = d.last
    /\ OnlyMedia(d, e, m)
    /\ e.media[m].track = isTrack /\ e.media[m].album = album
    /\ e.media[m].artist = artist /\ e.media[m].genre = genre

LEMMA FileTwice ==
    ASSUME NEW d \in Database, NEW m \in Media, Exists(d, m), NEW isTrack, NEW album,
           NEW artist, NEW genre, NEW old, old = d.media[m],
           NEW oa, oa = IF old.album = album THEN 0 ELSE old.album,
           NEW na, na = IF old.album = album THEN 0 ELSE album,
           NEW og, og = IF old.genre = genre THEN 0 ELSE old.genre,
           NEW ng, ng = IF old.genre = genre THEN 0 ELSE genre,
           NEW c, c = [d EXCEPT !.media[m] = Refiled(old, isTrack, album, artist, genre)]
    PROVE  File(d, m, isTrack, album, artist, genre)
               = Both(Both(c, oa, og, -1, -One(old.present), -old.duration),
                      na, ng, 1, One(old.present), old.duration)
<1>1. old \in MediaRow
  BY Rows
<1>. DEFINE new == [old EXCEPT !.track = isTrack, !.album = album, !.artist = artist,
                               !.genre = genre]
            left == [old EXCEPT !.album = IF old.album = new.album THEN 0 ELSE @,
                                !.genre = IF old.genre = new.genre THEN 0 ELSE @]
            joined == [new EXCEPT !.album = IF old.album = new.album THEN 0 ELSE @,
                                  !.genre = IF old.genre = new.genre THEN 0 ELSE @]
<1>2. File(d, m, isTrack, album, artist, genre) = Join(Leave([d EXCEPT !.media[m] = new], left),
                                                       joined)
  BY DEF File
<1>3. new.album = album /\ new.genre = genre
  BY <1>1 DEF MediaRow
<1>4. /\ left.album = IF old.album = album THEN 0 ELSE old.album
      /\ left.genre = IF old.genre = genre THEN 0 ELSE old.genre
      /\ left.present = old.present /\ left.duration = old.duration
  BY <1>1, <1>3 DEF MediaRow
<1>5. /\ joined.album = IF old.album = album THEN 0 ELSE album
      /\ joined.genre = IF old.genre = genre THEN 0 ELSE genre
      /\ joined.present = old.present /\ joined.duration = old.duration
  BY <1>1, <1>3 DEF MediaRow
<1>6. new = Refiled(old, isTrack, album, artist, genre)
  BY DEF Refiled
<1>. HIDE DEF left, joined, new
<1>. QED  BY <1>2, <1>4, <1>5, <1>6 DEF Join, Leave, Both

LEMMA FileDone ==
    ASSUME NEW d \in Database, NEW m \in Media, Exists(d, m), NEW isTrack \in BOOLEAN,
           NEW album \in Refs, NEW artist \in Refs, NEW genre \in Refs,
           NEW held, Artists(d, held), Albums(d, {album}), Genres(d, held),
           In(d.albums, d.media[m].album) =>
               d.albums[d.media[m].album].artist \in Special
               \/ Listed(d, d.albums[d.media[m].album].artist) # {},
           NEW e, e = File(d, m, isTrack, album, artist, genre)
    PROVE  /\ Filed(d, e, m, isTrack, album, artist, genre)
           /\ Artists(e, held) /\ StillThere(d, e) /\ Fewer(d, e) /\ FewerGenres(d, e)
           /\ \A j \in Ids : In(e.albums, j) <=> In(d.albums, j) /\ Tracks(e, j) # {}
           /\ Albums(e, {}) /\ Genres(e, held)
<1>. DEFINE old == d.media[m]
            oa == IF old.album = album THEN 0 ELSE old.album
            na == IF old.album = album THEN 0 ELSE album
            og == IF old.genre = genre THEN 0 ELSE old.genre
            ng == IF old.genre = genre THEN 0 ELSE genre
            c == [d EXCEPT !.media[m] = Refiled(old, isTrack, album, artist, genre)]
            one == 1
            less == -1
            p == One(old.present)
            q == -One(old.present)
            u == old.duration
            v == -old.duration
            f == Both(c, oa, og, less, q, v)
<1>0. /\ old = d.media[m] /\ oa = IF old.album = album THEN 0 ELSE old.album
      /\ na = IF old.album = album THEN 0 ELSE album
      /\ og = IF old.genre = genre THEN 0 ELSE old.genre
      /\ ng = IF old.genre = genre THEN 0 ELSE genre
      /\ c = [d EXCEPT !.media[m] = Refiled(old, isTrack, album, artist, genre)]
  OBVIOUS
<1>1. e = Both(f, na, ng, one, p, u)
  <2>. HIDE DEF old, oa, na, og, ng, c
  <2>. QED  BY <1>0, FileTwice
<1>2. old \in MediaRow
  BY Rows
<1>3. /\ oa \in Refs /\ na \in Refs /\ og \in Refs /\ ng \in Refs
      /\ old.album \in Refs /\ old.genre \in Refs /\ 0 \in Refs
      /\ one \in Int /\ less \in Int /\ p \in Int /\ q \in Int /\ u \in Int /\ v \in Int
      /\ old.present \in BOOLEAN
  <2>. HIDE DEF old
  <2>1. old.duration \in Int /\ old.album \in Refs /\ old.genre \in Refs
        /\ old.present \in BOOLEAN
    BY <1>2, MediaTypes
  <2>. QED  BY <2>1 DEF Refs, One
<1>4. /\ c \in Database /\ OnlyMedia(d, c, m) /\ c.albums = d.albums /\ c.genres = d.genres
      /\ c.artists = d.artists /\ c.relation = d.relation /\ c.last = d.last
      /\ c.media[m].track = isTrack /\ c.media[m].album = album
      /\ c.media[m].artist = artist /\ c.media[m].genre = genre
  <2>. DEFINE new == Refiled(old, isTrack, album, artist, genre)
  <2>1. /\ new \in MediaRow /\ new.track = isTrack /\ new.album = album
        /\ new.artist = artist /\ new.genre = genre /\ new.present = old.present
        /\ new.internal = old.internal /\ new # NoRow
    <3>1. new = Refiled(old, isTrack, album, artist, genre)
      OBVIOUS
    <3>. HIDE DEF new, old
    <3>. QED  BY <1>2, <3>1, RowRefiled
  <2>. HIDE DEF new
  <2>2. /\ c \in Database /\ c.albums = d.albums /\ c.genres = d.genres
        /\ c.artists = d.artists /\ c.relation = d.relation /\ c.last = d.last
        /\ c.media = [d.media EXCEPT ![m] = new]
    BY <2>1 DEF Database, new
  <2>3. c.media[m] = new /\ \A t \in Media \ {m} : c.media[t] = d.media[t]
    BY <2>2 DEF Database
  <2>. HIDE DEF c
  <2>. QED  BY <2>1, <2>2, <2>3 DEF OnlyMedia, Exists
<1>. HIDE DEF c, one, less, p, q, u, v, f
<1>5. Artists(c, held)
  <2>1. \A a : Listed(c, a) = Listed(d, a) /\ AlbumsOf(c, a) = AlbumsOf(d, a)
    BY <1>4 DEF Listed, AlbumsOf
  <2>. QED  BY <1>4, <2>1 DEF Artists, ArtistCounts
<1>6. AlbumDue(c, oa, less, q)
  <2>. SUFFICES ASSUME In(c.albums, oa)
                PROVE  /\ c.albums[oa].nb_tracks + less = Cardinality(Tracks(c, oa))
                       /\ c.albums[oa].is_present + q = Cardinality(Present(c, oa))
                       /\ Tracks(c, oa) = {} => Spare(c, c.albums[oa].artist)
    BY DEF AlbumDue
  <2>1. oa = old.album /\ oa # album /\ oa \in Ids /\ In(d.albums, oa)
    BY <1>3, <1>4 DEF In, Refs
  <2>2. /\ Tracks(c, oa) = Tracks(d, oa) \ {m} /\ Present(c, oa) = Present(d, oa) \ {m}
        /\ m \in Tracks(d, oa) /\ (m \in Present(d, oa) <=> old.present)
    BY <1>4, <2>1, TracksMoved
  <2>3. AlbumCounts(d, oa)
    BY <2>1 DEF Albums
  <2>. HIDE DEF oa, old
  <2>4. /\ Cardinality(Tracks(d, oa)) + (-1) = Cardinality(Tracks(c, oa))
        /\ Cardinality(Present(d, oa)) + (-One(old.present)) = Cardinality(Present(c, oa))
    <3>1. Cardinality(Tracks(d, oa)) \in Nat
      BY Countable, Count
    <3>2. Cardinality(Tracks(c, oa)) = Cardinality(Tracks(d, oa)) - 1
      BY <2>2, Countable, CountMinus
    <3>3. Cardinality(Present(d, oa)) + (-One(old.present)) = Cardinality(Present(c, oa))
      BY <1>3, <2>2, Countable, CountLeaves
    <3>. QED  BY <3>1, <3>2, <3>3
  <2>5. Spare(c, c.albums[oa].artist)
    <3>1. Listed(c, c.albums[oa].artist) = Listed(d, d.albums[oa].artist)
      BY <1>4 DEF Listed
    <3>. QED  BY <1>4, <2>1, <3>1 DEF Spare, old
  <2>. QED  BY <1>4, <2>3, <2>4, <2>5 DEF AlbumCounts, less, q
<1>7. GenreDue(c, og, less, q)
  <2>. SUFFICES ASSUME In(c.genres, og)
                PROVE  /\ c.genres[og].nb_tracks + less = Cardinality(InGenre(c, og))
                       /\ c.genres[og].is_present + q = Cardinality(PresentIn(c, og))
    BY DEF GenreDue
  <2>1. og = old.genre /\ og # genre /\ og \in Ids /\ In(d.genres, og)
    BY <1>3, <1>4 DEF In, Refs
  <2>2. /\ InGenre(c, og) = InGenre(d, og) \ {m} /\ PresentIn(c, og) = PresentIn(d, og) \ {m}
        /\ m \in InGenre(d, og) /\ (m \in PresentIn(d, og) <=> old.present)
    BY <1>4, <2>1, GenreMoved
  <2>3. GenreCounts(d, og)
    BY <2>1 DEF Genres
  <2>. HIDE DEF og, old
  <2>4. /\ Cardinality(InGenre(d, og)) + (-1) = Cardinality(InGenre(c, og))
        /\ Cardinality(PresentIn(d, og)) + (-One(old.present)) = Cardinality(PresentIn(c, og))
    <3>1. Cardinality(InGenre(d, og)) \in Nat
      BY Countable, Count
    <3>2. Cardinality(InGenre(c, og)) = Cardinality(InGenre(d, og)) - 1
      BY <2>2, Countable, CountMinus
    <3>3. Cardinality(PresentIn(d, og)) + (-One(old.present)) = Cardinality(PresentIn(c, og))
      BY <1>3, <2>2, Countable, CountLeaves
    <3>. QED  BY <3>1, <3>2, <3>3
  <2>. QED  BY <1>4, <2>3, <2>4 DEF GenreCounts, less, q
<1>8. Done(c, f, oa, og) /\ Fewer(c, f) /\ Artists(f, held) /\ StillThere(c, f)
  <2>1. f = Both(c, oa, og, less, q, v) /\ Due(c, oa, og, less, q)
    BY <1>6, <1>7 DEF f, Due
  <2>. HIDE DEF oa, og
  <2>. QED  BY <1>3, <1>4, <1>5, <2>1, BothUpdated
<1>9. /\ f \in Database /\ f.media = c.media /\ f.relation = d.relation /\ f.last = d.last
      /\ \A i : /\ Tracks(f, i) = Tracks(c, i) /\ Present(f, i) = Present(c, i)
                /\ InGenre(f, i) = InGenre(c, i) /\ PresentIn(f, i) = PresentIn(c, i)
  BY <1>4, <1>8, SameMedia DEF Done
<1>10. AlbumDue(f, na, one, p)
  <2>. SUFFICES ASSUME In(f.albums, na)
                PROVE  /\ f.albums[na].nb_tracks + one = Cardinality(Tracks(f, na))
                       /\ f.albums[na].is_present + p = Cardinality(Present(f, na))
                       /\ Tracks(f, na) # {}
    BY DEF AlbumDue
  <2>1. na = album /\ na # old.album /\ na \in Ids /\ na # oa
    BY <1>3 DEF In, Refs
  <2>2. f.albums[na] = d.albums[na] /\ In(d.albums, na)
    BY <1>4, <1>8, <2>1 DEF Done, AlbumDone, In
  <2>3. /\ Tracks(f, na) = Tracks(d, na) \cup {m} /\ m \notin Tracks(d, na)
        /\ Present(f, na) = IF old.present THEN Present(d, na) \cup {m} ELSE Present(d, na)
        /\ m \notin Present(d, na)
    <3>1. na = c.media[m].album /\ na # d.media[m].album
      BY <1>4, <2>1
    <3>. HIDE DEF na
    <3>2. /\ Tracks(c, na) = Tracks(d, na) \cup {m} /\ m \notin Tracks(d, na)
          /\ Present(c, na) = IF d.media[m].present THEN Present(d, na) \cup {m}
                              ELSE Present(d, na)
          /\ m \notin Present(d, na)
      BY <1>4, <3>1, TracksMoved
    <3>. QED  BY <1>9, <3>2
  <2>4. AlbumCounts(d, na)
    BY <2>1, <2>2 DEF Albums
  <2>. HIDE DEF na, old
  <2>5. /\ Cardinality(Tracks(d, na)) + 1 = Cardinality(Tracks(f, na))
        /\ Cardinality(Present(d, na)) + One(old.present) = Cardinality(Present(f, na))
    <3>1. Cardinality(Tracks(d, na)) \in Nat
      BY Countable, Count
    <3>2. Cardinality(Tracks(f, na)) = Cardinality(Tracks(d, na)) + 1
      BY <2>3, Countable, CountPlus
    <3>3. Cardinality(Present(d, na)) + One(old.present) = Cardinality(Present(f, na))
      BY <1>3, <2>3, Countable, CountComes
    <3>. QED  BY <3>1, <3>2, <3>3
  <2>. QED  BY <2>2, <2>3, <2>4, <2>5 DEF AlbumCounts, one, p
<1>11. GenreDue(f, ng, one, p)
  <2>. SUFFICES ASSUME In(f.genres, ng)
                PROVE  /\ f.genres[ng].nb_tracks + one = Cardinality(InGenre(f, ng))
                       /\ f.genres[ng].is_present + p = Cardinality(PresentIn(f, ng))
    BY DEF GenreDue
  <2>1. ng = genre /\ ng # old.genre /\ ng \in Ids /\ ng # og
    BY <1>3 DEF In, Refs
  <2>2. f.genres[ng] = d.genres[ng] /\ In(d.genres, ng)
    BY <1>4, <1>8, <2>1 DEF Done, GenreDone, In
  <2>3. /\ InGenre(f, ng) = InGenre(d, ng) \cup {m} /\ m \notin InGenre(d, ng)
        /\ PresentIn(f, ng) = IF old.present THEN PresentIn(d, ng) \cup {m} ELSE PresentIn(d, ng)
        /\ m \notin PresentIn(d, ng)
    <3>1. ng = c.media[m].genre /\ ng # d.media[m].genre
      BY <1>4, <2>1
    <3>. HIDE DEF ng
    <3>2. /\ InGenre(c, ng) = InGenre(d, ng) \cup {m} /\ m \notin InGenre(d, ng)
          /\ PresentIn(c, ng) = IF d.media[m].present THEN PresentIn(d, ng) \cup {m}
                                ELSE PresentIn(d, ng)
          /\ m \notin PresentIn(d, ng)
      BY <1>4, <3>1, GenreMoved
    <3>. QED  BY <1>9, <3>2
  <2>4. GenreCounts(d, ng)
    BY <2>1, <2>2 DEF Genres
  <2>. HIDE DEF ng, old
  <2>5. /\ Cardinality(InGenre(d, ng)) + 1 = Cardinality(InGenre(f, ng))
        /\ Cardinality(PresentIn(d, ng)) + One(old.present) = Cardinality(PresentIn(f, ng))
    <3>1. Cardinality(InGenre(d, ng)) \in Nat
      BY Countable, Count
    <3>2. Cardinality(InGenre(f, ng)) = Cardinality(InGenre(d, ng)) + 1
      BY <2>3, Countable, CountPlus
    <3>3. Cardinality(PresentIn(d, ng)) + One(old.present) = Cardinality(PresentIn(f, ng))
      BY <1>3, <2>3, Countable, CountComes
    <3>. QED  BY <3>1, <3>2, <3>3
  <2>. QED  BY <2>2, <2>3, <2>4, <2>5 DEF GenreCounts, one, p
<1>12. Done(f, e, na, ng) /\ Fewer(f, e) /\ Artists(e, held) /\ StillThere(f, e)
  <2>1. Due(f, na, ng, one, p)
    BY <1>10, <1>11 DEF Due
  <2>. HIDE DEF na, ng
  <2>. QED  BY <1>1, <1>3, <1>8, <1>9, <2>1, BothUpdated
<1>13. /\ e \in Database /\ e.media = c.media /\ e.relation = d.relation /\ e.last = d.last
       /\ \A i : /\ Tracks(e, i) = Tracks(c, i) /\ Present(e, i) = Present(c, i)
                 /\ InGenre(e, i) = InGenre(c, i) /\ PresentIn(e, i) = PresentIn(c, i)
  BY <1>9, <1>12, SameMedia DEF Done
<1>14. Filed(d, e, m, isTrack, album, artist, genre)
  BY <1>4, <1>13 DEF Filed, OnlyMedia, Exists
<1>15. StillThere(d, e)
  <2>1. StillThere(d, f)
    BY <1>4, <1>8 DEF StillThere
  <2>. QED  BY <1>9, <1>12, <1>13, <2>1, StillThereAgain
<1>16. Fewer(d, e)
  BY <1>4, <1>8, <1>12 DEF Fewer
<1>17. ASSUME NEW j \in Ids
       PROVE  /\ In(e.albums, j) <=> In(d.albums, j) /\ Tracks(e, j) # {}
              /\ In(e.albums, j) => AlbumCounts(e, j)
  <2>1. AlbumDone(c, f, oa) /\ AlbumDone(f, e, na)
    BY <1>8, <1>12 DEF Done
  <2>2. CASE j = na
    <3>1. na = album /\ na # old.album /\ na # oa
      BY <1>3, <2>2, Bounds
    <3>2. In(f.albums, na) <=> In(d.albums, na)
      BY <1>4, <2>1, <2>2, <3>1, SMTT(20) DEF AlbumDone, In
    <3>3. /\ In(e.albums, na) <=> In(f.albums, na) /\ Tracks(f, na) # {}
          /\ In(e.albums, na) => AlbumCounts(e, na)
      BY <2>1 DEF AlbumDone
    <3>. HIDE DEF na
    <3>. QED  BY <1>9, <1>13, <2>2, <3>2, <3>3
  <2>3. CASE j # na /\ j = oa
    <3>1. e.albums[j] = f.albums[j]
      BY <2>1, <2>3 DEF AlbumDone
    <3>2. /\ In(f.albums, oa) <=> In(c.albums, oa) /\ Tracks(c, oa) # {}
          /\ In(f.albums, oa) => AlbumCounts(f, oa)
      BY <2>1 DEF AlbumDone
    <3>. HIDE DEF oa
    <3>. QED  BY <1>4, <1>9, <1>13, <2>3, <3>1, <3>2 DEF In, AlbumCounts
  <2>4. CASE j # na /\ j # oa
    <3>1. e.albums[j] = d.albums[j]
      BY <1>4, <2>1, <2>4 DEF AlbumDone
    <3>2. /\ Tracks(c, j) = Tracks(d, j) /\ Present(c, j) = Present(d, j)
          /\ j = album => m \in Tracks(d, j)
      <4>1. CASE j = album
        <5>1. j = old.album
          BY <2>4, <4>1
        <5>. QED  BY <1>4, <4>1, <5>1, TracksMoved
      <4>2. CASE j # album
        <5>1. j # old.album
          BY <2>4, <4>2
        <5>. QED  BY <1>4, <4>2, <5>1, TracksMoved
      <4>. QED  BY <4>1, <4>2
    <3>3. In(d.albums, j) => AlbumCounts(d, j) /\ Tracks(d, j) # {}
      BY <3>2 DEF Albums
    <3>. QED  BY <1>13, <3>1, <3>2, <3>3 DEF In, AlbumCounts
  <2>. QED  BY <2>2, <2>3, <2>4
<1>18. Albums(e, {})
  BY <1>17 DEF Albums
<1>19. ASSUME NEW j \in Ids, In(e.genres, j)
       PROVE  /\ In(d.genres, j)
              /\ GenreCounts(e, j) /\ (j \notin held.genres => InGenre(e, j) # {})
  <2>1. GenreDone(c, f, og) /\ GenreDone(f, e, ng)
    BY <1>8, <1>12 DEF Done
  <2>2. CASE j = ng
    <3>1. ng = genre /\ ng # old.genre /\ ng # og
      BY <1>3, <2>2, Bounds
    <3>2. f.genres[ng] = d.genres[ng]
      BY <1>4, <2>1, <2>2, <3>1 DEF GenreDone
    <3>3. /\ In(f.genres, ng) /\ InGenre(f, ng) # {}
          /\ GenreCounts(e, ng)
      BY <1>19, <2>1, <2>2 DEF GenreDone
    <3>. HIDE DEF ng
    <3>. QED  BY <1>9, <1>13, <2>2, <3>2, <3>3 DEF In
  <2>3. CASE j # ng /\ j = og
    <3>1. e.genres[j] = f.genres[j] /\ In(f.genres, og)
      BY <1>19, <2>1, <2>3 DEF GenreDone, In
    <3>2. /\ In(c.genres, og) /\ InGenre(c, og) # {}
          /\ GenreCounts(f, og)
      BY <2>1, <3>1 DEF GenreDone
    <3>. HIDE DEF og
    <3>. QED  BY <1>4, <1>9, <1>13, <2>3, <3>1, <3>2 DEF In, GenreCounts
  <2>4. CASE j # ng /\ j # og
    <3>1. e.genres[j] = d.genres[j]
      BY <1>4, <2>1, <2>4 DEF GenreDone
    <3>2. InGenre(c, j) = InGenre(d, j) /\ PresentIn(c, j) = PresentIn(d, j)
      <4>1. CASE j = genre
        <5>1. j = old.genre
          BY <2>4, <4>1
        <5>. QED  BY <1>4, <4>1, <5>1, GenreMoved
      <4>2. CASE j # genre
        <5>1. j # old.genre
          BY <2>4, <4>2
        <5>. QED  BY <1>4, <4>2, <5>1, GenreMoved
      <4>. QED  BY <4>1, <4>2
    <3>. QED  BY <1>13, <1>19, <3>1, <3>2 DEF In, GenreCounts, Genres
  <2>. QED  BY <2>2, <2>3, <2>4
<1>20. FewerGenres(d, e) /\ Genres(e, held)
  BY <1>19 DEF FewerGenres, Genres
<1>. HIDE DEF old, oa, na, og, ng
<1>. QED  BY <1>12, <1>14, <1>15, <1>16, <1>17, <1>18, <1>20

-----------------------------------------------------------------------------
(* The folds of the model.                                                 *)

LEMMA MinimalSubset ==
    ASSUME NEW S, IsFiniteSet(S), NEW T \in SUBSET (SUBSET S), T # {}
    PROVE  \E x \in T : \A y \in T : y \subseteq x => y = x
<1>. DEFINE R == StrictSubsetOrdering(S)
<1>1. IsWellFoundedOn(R, SUBSET S)
  BY FS_StrictSubsetOrderingWellFounded, FS_FiniteSubsetsOfFinite
<1>2. \E x \in T : \A y \in T : ~ (<<y, x>> \in R)
  <2>. HIDE DEF R
  <2>. QED  BY <1>1, WFMin
<1>. QED  BY <1>2 DEF StrictSubsetOrdering

\* The element a fold takes, and those it has taken before.
Choice(S) == CHOOSE x \in S : TRUE
Rest(S) == S \ {Choice(S)}

\* A media is no longer listed with an artist.
Unlist(d, m, a) == UpdateArtist([d EXCEPT !.relation = @ \ {<<m, a>>}], a, -1, -1, 0)

\* The folds of the model, told apart by a kind.
Step(k, x, acc) ==
    IF k.kind = "drop" THEN Unlist(acc, k.media, x) ELSE addMedia(acc, x[2], x[1])

Iterates(k, base, S, iter) ==
    iter = [s \in SUBSET S |-> IF s = {} THEN base ELSE Step(k, Choice(s), iter[Rest(s)])]

Fold(k, base, S) == (CHOOSE iter : Iterates(k, base, S, iter))[S]

Unfolds(k, base, S) ==
    Fold(k, base, S) = IF S = {} THEN base ELSE Step(k, Choice(S), Fold(k, base, Rest(S)))

LEMMA Chosen ==
    ASSUME NEW S, S # {}
    PROVE  /\ Choice(S) \in S /\ Choice(S) \notin Rest(S)
           /\ Rest(S) \subseteq S /\ Rest(S) # S /\ S = Rest(S) \cup {Choice(S)}
<1>1. Choice(S) \in S
  BY DEF Choice
<1>. QED  BY <1>1 DEF Rest

\* The recursion of a fold is well defined.
LEMMA FoldUnfolds ==
    ASSUME NEW k, NEW base, NEW S, IsFiniteSet(S)
    PROVE  \A s \in SUBSET S : Unfolds(k, base, s)
<1>. DEFINE Bad == {s \in SUBSET S : ~Unfolds(k, base, s)}
<1>. SUFFICES ASSUME Bad # {} PROVE FALSE
  OBVIOUS
<1>1. PICK t \in Bad : \A u \in Bad : u \subseteq t => u = t
  <2>1. Bad \in SUBSET (SUBSET S)
    OBVIOUS
  <2>. HIDE DEF Bad
  <2>. QED  BY <2>1, MinimalSubset
<1>2. \A u \in SUBSET t : u # t => Unfolds(k, base, u)
  BY <1>1
<1>3. ASSUME NEW s \in SUBSET t, s # {}
      PROVE  Rest(s) \in SUBSET t /\ Rest(s) # t /\ Rest(s) \subseteq s /\ Rest(s) # s
  BY <1>3, Chosen
<1>. DEFINE G == [s \in SUBSET t |->
                     IF s = {} THEN base ELSE Step(k, Choice(s), Fold(k, base, Rest(s)))]
            H == CHOOSE iter : Iterates(k, base, t, iter)
<1>4. Iterates(k, base, t, G)
  <2>1. ASSUME NEW s \in SUBSET t, s # {}
        PROVE  G[Rest(s)] = Fold(k, base, Rest(s))
    <3>1. Rest(s) \in SUBSET t /\ Unfolds(k, base, Rest(s))
      BY <1>2, <1>3, <2>1
    <3>. QED  BY <3>1 DEF Unfolds
  <2>2. G = [s \in SUBSET t |-> IF s = {} THEN base ELSE Step(k, Choice(s), G[Rest(s)])]
    BY <2>1
  <2>. QED  BY <2>2 DEF Iterates
<1>5. Iterates(k, base, t, H) /\ Fold(k, base, t) = H[t]
  <2>. HIDE DEF G
  <2>. QED  BY <1>4 DEF Fold
<1>. HIDE DEF H
<1>6. \A s \in SUBSET t : H[s] = IF s = {} THEN base ELSE Step(k, Choice(s), H[Rest(s)])
  BY <1>5 DEF Iterates
<1>7. \A s \in SUBSET t : s # t => H[s] = Fold(k, base, s)
  <2>. DEFINE Off == {s \in SUBSET t : s # t /\ H[s] # Fold(k, base, s)}
  <2>. SUFFICES ASSUME Off # {} PROVE FALSE
    OBVIOUS
  <2>1. PICK s \in Off : \A u \in Off : u \subseteq s => u = s
    <3>1. Off \in SUBSET (SUBSET t) /\ IsFiniteSet(t)
      BY <1>1, FS_Subset
    <3>. HIDE DEF Off
    <3>. QED  BY <3>1, MinimalSubset
  <2>2. Unfolds(k, base, s)
    BY <1>2, <2>1
  <2>3. CASE s = {}
    BY <1>6, <2>1, <2>2, <2>3 DEF Unfolds
  <2>4. CASE s # {}
    <3>1. H[Rest(s)] = Fold(k, base, Rest(s))
      BY <1>3, <2>1, <2>4
    <3>. QED  BY <1>6, <2>1, <2>2, <2>4, <3>1 DEF Unfolds
  <2>. QED  BY <2>3, <2>4
<1>8. Unfolds(k, base, t)
  <2>1. CASE t = {}
    BY <1>5, <1>6, <2>1 DEF Unfolds
  <2>2. CASE t # {}
    <3>1. H[Rest(t)] = Fold(k, base, Rest(t))
      BY <1>3, <1>7, <2>2
    <3>. QED  BY <1>5, <1>6, <2>2, <3>1 DEF Unfolds
  <2>. QED  BY <2>1, <2>2
<1>. QED  BY <1>1, <1>8

DropKind(m) == [kind |-> "drop", media |-> m]
AddKind == [kind |-> "add"]

LEMMA DropFold ==
    ASSUME NEW d, NEW m
    PROVE  dropMediaArtistRelation(d, m)
               = Fold(DropKind(m), d, {a \in Ids : <<m, a>> \in d.relation})
<1>. DEFINE k == DropKind(m)
            S == {a \in Ids : <<m, a>> \in d.relation}
            body(iter) == [s \in SUBSET S |->
                IF s = {} THEN d ELSE Unlist(iter[s \ {Choice(s)}], m, Choice(s))]
<1>1. \A x, acc : Step(k, x, acc) = Unlist(acc, m, x)
  BY DEF Step, DropKind
<1>2. \A iter : Iterates(k, d, S, iter) <=> iter = body(iter)
  <2>. HIDE DEF k, S
  <2>. QED  BY <1>1 DEF Iterates, Rest
<1>3. (CHOOSE iter : Iterates(k, d, S, iter)) = (CHOOSE iter : iter = body(iter))
  <2>. HIDE DEF k, body, S
  <2>. QED  BY <1>2
<1>4. dropMediaArtistRelation(d, m) = (CHOOSE iter : iter = body(iter))[S]
  BY DEF dropMediaArtistRelation, FoldSet, MapThenFoldSet, Choice, Unlist
<1>. HIDE DEF body
<1>. QED  BY <1>3, <1>4 DEF Fold

\* The media of link are listed one after the other.
Listing(d, S) == Fold(AddKind, d, S)

LEMMA LinkFold ==
    ASSUME NEW d, NEW i, NEW m, NEW current
    PROVE  LET listed == Listing(d, Listings(d, i, m, current))
           IN  link(d, i, m, current)
                   = IF current = 0 THEN setAlbumArtist(listed, i, AlbumArtist)
                     ELSE IF HasTurnedVarious(current)
                     THEN setAlbumArtist(listed, i, VariousArtistID)
                     ELSE listed
<1>. DEFINE k == AddKind
            S == Listings(d, i, m, current)
            body(iter) == [s \in SUBSET S |->
                IF s = {} THEN d
                ELSE addMedia(iter[s \ {Choice(s)}], Choice(s)[2], Choice(s)[1])]
            listing == (CHOOSE iter : iter = body(iter))[S]
<1>1. \A x, acc : Step(k, x, acc) = addMedia(acc, x[2], x[1])
  BY DEF Step, AddKind
<1>2. \A iter : Iterates(k, d, S, iter) <=> iter = body(iter)
  <2>. HIDE DEF k, S
  <2>. QED  BY <1>1 DEF Iterates, Rest
<1>3. (CHOOSE iter : Iterates(k, d, S, iter)) = (CHOOSE iter : iter = body(iter))
  <2>. HIDE DEF k, body, S
  <2>. QED  BY <1>2
<1>4. link(d, i, m, current)
          = IF current = 0 THEN setAlbumArtist(listing, i, AlbumArtist)
            ELSE IF HasTurnedVarious(current) THEN setAlbumArtist(listing, i, VariousArtistID)
            ELSE listing
  BY DEF link, FoldSet, MapThenFoldSet, Choice
<1>. HIDE DEF body
<1>5. Listing(d, S) = listing
  BY <1>3 DEF Fold, Listing
<1>. HIDE DEF listing, S
<1>. QED  BY <1>4, <1>5 DEF S

-----------------------------------------------------------------------------
(* Relations come and go.                                                  *)

\* Every media but m is listed with its artist, and m has none.
Lone(d, m) ==
    \A t \in Media : Exists(d, t) =>
        d.media[t].artist = 0 \/ (t # m /\ <<t, d.media[t].artist>> \in d.relation)

\* Only the relations and the artists have changed.
OnlyRelations(d, e) ==
    /\ e \in Database
    /\ e.media = d.media /\ e.albums = d.albums /\ e.genres = d.genres /\ e.last = d.last

\* The relations of one artist have changed, and nothing else yet.
Relisted(d, f, a) ==
    /\ f \in Database
    /\ f.media = d.media /\ f.albums = d.albums /\ f.genres = d.genres
    /\ f.last = d.last /\ f.artists = d.artists
    /\ \A b \in Ids \ {a} : Listed(f, b) = Listed(d, b)

\* A relation of an artist has come or gone, and its counters are updated.
LEMMA RelationUpdated ==
    ASSUME NEW d \in Database, NEW a \in Ids, NEW held, Artists(d, held),
           NEW f, Relisted(d, f, a),
           NEW x \in Int, Cardinality(Listed(d, a)) + x = Cardinality(Listed(f, a)),
           Spare(f, a), NEW z, z = 0,
           NEW e, e = UpdateArtist(f, a, x, x, z)
    PROVE  /\ OnlyRelations(d, e) /\ e.relation = f.relation /\ Artists(e, held)
           /\ \A b \in Ids : In(e.artists, b) <=> In(d.artists, b) /\ (b = a => Needed(f, a))
<1>. USE DEF Relisted
<1>1. \A b : AlbumsOf(f, b) = AlbumsOf(d, b)
  BY DEF AlbumsOf
<1>2. In(f.artists, a) => /\ f.artists[a].nb_tracks + x = Cardinality(Listed(f, a))
                          /\ f.artists[a].nb_albums + z = Cardinality(AlbumsOf(f, a))
  <2>. SUFFICES ASSUME In(d.artists, a)
                PROVE  /\ d.artists[a].nb_tracks + x = Cardinality(Listed(f, a))
                       /\ d.artists[a].nb_albums + z = Cardinality(AlbumsOf(f, a))
    OBVIOUS
  <2>1. ArtistCounts(d, a) /\ Cardinality(AlbumsOf(d, a)) \in Nat
    BY Countable, Count DEF Artists
  <2>. QED  BY <1>1, <2>1 DEF ArtistCounts
<1>3. a \in Refs /\ z \in Int
  BY DEF Refs
<1>4. /\ OnlyArtists(f, e)
      /\ \A b \in Ids \ {a} : e.artists[b] = f.artists[b]
      /\ In(e.artists, a) <=> In(f.artists, a) /\ Needed(f, a)
      /\ In(e.artists, a) => ArtistCounts(e, a)
  BY <1>2, <1>3, ArtistUpdated
<1>5. \A b : Listed(e, b) = Listed(f, b) /\ AlbumsOf(e, b) = AlbumsOf(f, b)
  BY <1>4 DEF OnlyArtists, Listed, AlbumsOf
<1>6. OnlyRelations(d, e) /\ e.relation = f.relation
  BY <1>4 DEF OnlyArtists, OnlyRelations
<1>7. Needed(e, a) <=> Needed(f, a)
  BY <1>5 DEF Needed
<1>8. Artists(e, held)
  <2>1. \A b \in Ids \ {a} : /\ Listed(e, b) = Listed(d, b) /\ AlbumsOf(e, b) = AlbumsOf(d, b)
                            /\ e.artists[b] = d.artists[b]
    BY <1>1, <1>4, <1>5
  <2>2. e \in Database
    BY <1>6 DEF OnlyRelations
  <2>. QED  BY <1>3, <1>4, <1>7, <2>1, <2>2, ArtistsStep
<1>9. \A b \in Ids : In(e.artists, b) <=> In(d.artists, b) /\ (b = a => Needed(f, a))
  BY <1>4 DEF In
<1>. QED  BY <1>6, <1>8, <1>9

LEMMA UnlistDone ==
    ASSUME NEW d \in Database, NEW m \in Media, NEW a \in Ids, <<m, a>> \in d.relation,
           NEW held, Artists(d, held), Lone(d, m), NEW e, e = Unlist(d, m, a)
    PROVE  /\ OnlyRelations(d, e) /\ e.relation = d.relation \ {<<m, a>>}
           /\ Artists(e, held) /\ StillThere(d, e) /\ Lone(e, m)
<1>. DEFINE f == [d EXCEPT !.relation = @ \ {<<m, a>>}]
            less == -1
            none == 0
<1>1. /\ f \in Database /\ f.media = d.media /\ f.albums = d.albums /\ f.genres = d.genres
      /\ f.last = d.last /\ f.artists = d.artists /\ f.relation = d.relation \ {<<m, a>>}
  BY DEF Database
<1>2. e = UpdateArtist(f, a, less, less, none)
  BY DEF Unlist
<1>3. less \in Int /\ none = 0
  OBVIOUS
<1>. HIDE DEF f
<1>4. /\ \A b \in Ids \ {a} : Listed(f, b) = Listed(d, b)
      /\ Listed(f, a) = Listed(d, a) \ {<<m, a>>} /\ <<m, a>> \in Listed(d, a)
  BY <1>1 DEF Listed
<1>5. Cardinality(Listed(d, a)) + less = Cardinality(Listed(f, a))
  <2>1. Cardinality(Listed(f, a)) = Cardinality(Listed(d, a)) - 1
    BY <1>4, Countable, CountMinus
  <2>2. Cardinality(Listed(d, a)) \in Nat
    BY Countable, Count
  <2>. QED  BY <2>1, <2>2
<1>6. Lone(f, m)
  BY <1>1 DEF Lone, Exists
<1>7. Spare(f, a)
  <2>1. ASSUME NEW t \in Media, Exists(f, t), f.media[t].artist = a
        PROVE  Listed(f, a) # {}
    <3>1. <<t, a>> \in f.relation
      BY <1>6, <2>1, Bounds DEF Lone
    <3>2. <<t, a>> \in Listed(f, a)
      BY <3>1 DEF Listed
    <3>. QED  BY <3>2
  <2>. QED  BY <2>1 DEF Spare
<1>. HIDE DEF less, none
<1>8. /\ OnlyRelations(d, e) /\ e.relation = f.relation /\ Artists(e, held)
      /\ \A b \in Ids : In(e.artists, b) <=> In(d.artists, b) /\ (b = a => Needed(f, a))
  <2>1. Relisted(d, f, a)
    BY <1>1, <1>4 DEF Relisted
  <2>. QED  BY <1>2, <1>3, <1>5, <1>7, <2>1, RelationUpdated
<1>9. \A b : Needed(e, b) <=> Needed(f, b)
  BY <1>1, <1>8 DEF OnlyRelations, Needed, Listed, AlbumsOf
<1>10. StillThere(d, e)
  BY <1>8, <1>9 DEF StillThere
<1>11. Lone(e, m)
  BY <1>1, <1>6, <1>8 DEF Lone, OnlyRelations, Exists
<1>. QED  BY <1>1, <1>8, <1>10, <1>11

LEMMA AddMediaDone ==
    ASSUME NEW d \in Database, NEW m \in Media, NEW a \in Ids, <<m, a>> \notin d.relation,
           NEW held, Artists(d, held), NEW e, e = addMedia(d, a, m)
    PROVE  /\ OnlyRelations(d, e) /\ e.relation = d.relation \cup {<<m, a>>}
           /\ Artists(e, held) /\ \A b \in Ids : In(e.artists, b) <=> In(d.artists, b)
<1>. DEFINE f == [d EXCEPT !.relation = @ \cup {<<m, a>>}]
            one == 1
            none == 0
<1>1. /\ f \in Database /\ f.media = d.media /\ f.albums = d.albums /\ f.genres = d.genres
      /\ f.last = d.last /\ f.artists = d.artists /\ f.relation = d.relation \cup {<<m, a>>}
  BY DEF Database
<1>2. e = UpdateArtist(f, a, one, one, none)
  BY DEF addMedia
<1>3. one \in Int /\ none = 0
  OBVIOUS
<1>. HIDE DEF f
<1>4. /\ \A b \in Ids \ {a} : Listed(f, b) = Listed(d, b)
      /\ Listed(f, a) = Listed(d, a) \cup {<<m, a>>} /\ <<m, a>> \notin Listed(d, a)
  BY <1>1 DEF Listed
<1>5. Cardinality(Listed(d, a)) + one = Cardinality(Listed(f, a))
  BY <1>4, Countable, CountPlus
<1>6. Spare(f, a) /\ Needed(f, a)
  BY <1>4 DEF Spare, Needed
<1>. HIDE DEF one, none
<1>7. /\ OnlyRelations(d, e) /\ e.relation = f.relation /\ Artists(e, held)
      /\ \A b \in Ids : In(e.artists, b) <=> In(d.artists, b) /\ (b = a => Needed(f, a))
  <2>1. Relisted(d, f, a)
    BY <1>1, <1>4 DEF Relisted
  <2>. QED  BY <1>2, <1>3, <1>5, <1>6, <2>1, RelationUpdated
<1>. QED  BY <1>1, <1>6, <1>7

LEMMA DropDone ==
    ASSUME NEW d \in Database, NEW m \in Media, NEW held, Artists(d, held), Lone(d, m),
           NEW e, e = dropMediaArtistRelation(d, m)
    PROVE  /\ OnlyRelations(d, e) /\ e.relation = {r \in d.relation : r[1] # m}
           /\ Artists(e, held) /\ StillThere(d, e) /\ Lone(e, m)
<1>. DEFINE S == {a \in Ids : <<m, a>> \in d.relation}
            k == DropKind(m)
            Good(s) == LET f == Fold(k, d, s)
                       IN  /\ OnlyRelations(d, f) /\ f.relation = d.relation \ ({m} \X s)
                           /\ Artists(f, held) /\ StillThere(d, f) /\ Lone(f, m)
            Bad == {s \in SUBSET S : ~Good(s)}
<1>1. \A x, acc : Step(k, x, acc) = Unlist(acc, m, x)
  BY DEF Step, DropKind
<1>2. IsFiniteSet(S) /\ \A s \in SUBSET S : Unfolds(k, d, s)
  <2>1. IsFiniteSet(S)
    BY Bounds, FS_Subset
  <2>. HIDE DEF S, k
  <2>. QED  BY <2>1, FoldUnfolds
<1>. HIDE DEF k
<1>3. ASSUME NEW s \in SUBSET S, \A u \in SUBSET S : u \subseteq s /\ u # s => Good(u)
      PROVE  Good(s)
  <2>1. CASE s = {}
    <3>1. Fold(k, d, s) = d
      BY <1>2, <2>1 DEF Unfolds
    <3>2. d.relation = d.relation \ ({m} \X s)
      BY <2>1
    <3>. QED  BY <3>1, <3>2 DEF OnlyRelations, StillThere
  <2>2. CASE s # {}
    <3>. DEFINE a == Choice(s)
                f == Fold(k, d, Rest(s))
                g == Fold(k, d, s)
    <3>1. /\ a \in s /\ a \notin Rest(s) /\ Rest(s) \subseteq s /\ Rest(s) # s
          /\ s = Rest(s) \cup {a}
      BY <2>2, Chosen
    <3>2. /\ OnlyRelations(d, f) /\ f.relation = d.relation \ ({m} \X Rest(s))
          /\ Artists(f, held) /\ StillThere(d, f) /\ Lone(f, m)
      BY <1>3, <3>1
    <3>3. g = Unlist(f, m, a)
      BY <1>1, <1>2, <2>2 DEF Unfolds
    <3>4. f \in Database /\ a \in Ids /\ <<m, a>> \in f.relation
      BY <3>1, <3>2 DEF OnlyRelations
    <3>. HIDE DEF a, f, g
    <3>5. /\ OnlyRelations(f, g) /\ g.relation = f.relation \ {<<m, a>>}
          /\ Artists(g, held) /\ StillThere(f, g) /\ Lone(g, m)
      BY <3>2, <3>3, <3>4, UnlistDone
    <3>6. OnlyRelations(d, g)
      BY <3>2, <3>5 DEF OnlyRelations
    <3>7. g.relation = d.relation \ ({m} \X s)
      BY <3>1, <3>2, <3>5
    <3>8. StillThere(d, g)
      <4>1. \A b : Needed(g, b) => Needed(f, b)
        BY <3>5 DEF Needed, OnlyRelations, Listed, AlbumsOf
      <4>. QED  BY <3>2, <3>5, <4>1 DEF StillThere
    <3>. QED  BY <3>5, <3>6, <3>7, <3>8 DEF g
  <2>. QED  BY <2>1, <2>2
<1>4. Bad = {}
  <2>. SUFFICES ASSUME Bad # {} PROVE FALSE
    OBVIOUS
  <2>1. PICK t \in Bad : \A u \in Bad : u \subseteq t => u = t
    <3>1. Bad \in SUBSET (SUBSET S)
      OBVIOUS
    <3>. HIDE DEF Bad, S
    <3>. QED  BY <1>2, <3>1, MinimalSubset
  <2>2. t \in SUBSET S /\ ~Good(t) /\ \A u \in SUBSET S : u \subseteq t /\ u # t => Good(u)
    BY <2>1
  <2>. HIDE DEF Good, S, Bad
  <2>. QED  BY <1>3, <2>2
<1>5. Good(S)
  <2>. HIDE DEF Good, S
  <2>. QED  BY <1>4 DEF Bad
<1>6. e = Fold(k, d, S)
  BY DropFold DEF k
<1>7. d.relation \ ({m} \X S) = {r \in d.relation : r[1] # m}
  <2>1. \A r \in d.relation : r \in Media \X Ids
    BY DEF Database
  <2>. QED  BY <2>1
<1>. HIDE DEF S
<1>. QED  BY <1>5, <1>6, <1>7

LEMMA ListingDone ==
    ASSUME NEW d \in Database, NEW S \in SUBSET (Media \X Ids), S \cap d.relation = {},
           NEW held, Artists(d, held), NEW e, e = Listing(d, S)
    PROVE  /\ OnlyRelations(d, e) /\ e.relation = d.relation \cup S
           /\ Artists(e, held) /\ \A b \in Ids : In(e.artists, b) <=> In(d.artists, b)
<1>. DEFINE k == AddKind
            Good(s) == LET f == Fold(k, d, s)
                       IN  /\ OnlyRelations(d, f) /\ f.relation = d.relation \cup s
                           /\ Artists(f, held)
                           /\ \A b \in Ids : In(f.artists, b) <=> In(d.artists, b)
            Bad == {s \in SUBSET S : ~Good(s)}
<1>1. \A x, acc : Step(k, x, acc) = addMedia(acc, x[2], x[1])
  BY DEF Step, AddKind
<1>2. IsFiniteSet(S) /\ \A s \in SUBSET S : Unfolds(k, d, s)
  <2>1. IsFiniteSet(S)
    BY Bounds, FS_Subset
  <2>. HIDE DEF k
  <2>. QED  BY <2>1, FoldUnfolds
<1>. HIDE DEF k
<1>3. ASSUME NEW s \in SUBSET S, \A u \in SUBSET S : u \subseteq s /\ u # s => Good(u)
      PROVE  Good(s)
  <2>1. CASE s = {}
    <3>1. Fold(k, d, s) = d
      BY <1>2, <2>1 DEF Unfolds
    <3>. QED  BY <2>1, <3>1 DEF OnlyRelations
  <2>2. CASE s # {}
    <3>. DEFINE x == Choice(s)
                m == x[1]
                a == x[2]
                f == Fold(k, d, Rest(s))
                g == Fold(k, d, s)
    <3>1. /\ x \in s /\ x \notin Rest(s) /\ Rest(s) \subseteq s /\ Rest(s) # s
          /\ s = Rest(s) \cup {x}
      BY <2>2, Chosen
    <3>2. /\ OnlyRelations(d, f) /\ f.relation = d.relation \cup Rest(s)
          /\ Artists(f, held) /\ \A b \in Ids : In(f.artists, b) <=> In(d.artists, b)
      BY <1>3, <3>1
    <3>3. g = addMedia(f, a, m)
      BY <1>1, <1>2, <2>2 DEF Unfolds
    <3>4. f \in Database /\ m \in Media /\ a \in Ids /\ x = <<m, a>>
      BY <3>1, <3>2 DEF OnlyRelations
    <3>5. <<m, a>> \notin f.relation
      BY <3>1, <3>2, <3>4
    <3>. HIDE DEF a, m, x, f, g
    <3>6. /\ OnlyRelations(f, g) /\ g.relation = f.relation \cup {<<m, a>>}
          /\ Artists(g, held) /\ \A b \in Ids : In(g.artists, b) <=> In(f.artists, b)
      BY <3>2, <3>3, <3>4, <3>5, AddMediaDone
    <3>7. OnlyRelations(d, g) /\ g.relation = d.relation \cup s
      BY <3>1, <3>2, <3>4, <3>6 DEF OnlyRelations
    <3>. QED  BY <3>2, <3>6, <3>7 DEF g
  <2>. QED  BY <2>1, <2>2
<1>4. Bad = {}
  <2>. SUFFICES ASSUME Bad # {} PROVE FALSE
    OBVIOUS
  <2>1. PICK t \in Bad : \A u \in Bad : u \subseteq t => u = t
    <3>1. Bad \in SUBSET (SUBSET S)
      OBVIOUS
    <3>. HIDE DEF Bad
    <3>. QED  BY <1>2, <3>1, MinimalSubset
  <2>2. t \in SUBSET S /\ ~Good(t) /\ \A u \in SUBSET S : u \subseteq t /\ u # t => Good(u)
    BY <2>1
  <2>. HIDE DEF Good, Bad
  <2>. QED  BY <1>3, <2>2
<1>5. Good(S)
  <2>. HIDE DEF Good
  <2>. QED  BY <1>4 DEF Bad
<1>6. e = Fold(k, d, S)
  BY DEF k, Listing
<1>. QED  BY <1>5, <1>6

-----------------------------------------------------------------------------
(* The operations keep the invariant of the tables.                        *)

LEMMA RowsAgree ==
    ASSUME NEW d \in Database, Agree(d), NEW m \in Media, Exists(d, m)
    PROVE  /\ d.media[m] \in MediaRow
           /\ d.media[m].track =>
                 /\ In(d.albums, d.media[m].album) /\ d.media[m].album \in Ids
                 /\ <<m, d.media[m].artist>> \in d.relation /\ d.media[m].artist \in Ids
                 /\ \/ d.albums[d.media[m].album].artist = VariousArtistID
                    \/ <<m, d.albums[d.media[m].album].artist>> \in d.relation
                 /\ d.albums[d.media[m].album].artist \in Ids
           /\ ~d.media[m].track =>
                 /\ d.media[m].album = 0 /\ d.media[m].artist = 0 /\ d.media[m].genre = 0
                 /\ \A a \in Ids : <<m, a>> \notin d.relation
<1>1. Agrees(d, m) /\ d.media[m] \in MediaRow
  BY Rows DEF Agree
<1>2. \A a : <<m, a>> \in d.relation => a \in Ids
  BY DEF Database
<1>3. VariousArtistID \in Ids
  BY Bounds DEF Special
<1>4. CASE d.media[m].track
  <2>1. In(d.albums, d.media[m].album) /\ d.media[m].album \in Ids
    BY <1>1, <1>4, MediaTypes DEF Agrees, In, Refs
  <2>. QED  BY <1>1, <1>2, <1>3, <1>4, <2>1 DEF Agrees
<1>5. CASE ~d.media[m].track
  BY <1>1, <1>5 DEF Agrees
<1>. QED  BY <1>1, <1>4, <1>5

\* An album of a track may lose it.
LEMMA AlbumIsSafe ==
    ASSUME NEW d \in Database, Agree(d), NEW m \in Media, Exists(d, m),
           In(d.albums, d.media[m].album)
    PROVE  \/ d.albums[d.media[m].album].artist \in Special
           \/ Listed(d, d.albums[d.media[m].album].artist) # {}
<1>1. d.media[m].track
  BY RowsAgree DEF In
<1>2. CASE d.albums[d.media[m].album].artist = VariousArtistID
  BY <1>2 DEF Special
<1>3. CASE <<m, d.albums[d.media[m].album].artist>> \in d.relation
  <2>1. <<m, d.albums[d.media[m].album].artist>>
            \in Listed(d, d.albums[d.media[m].album].artist)
    BY <1>3 DEF Listed
  <2>. QED  BY <2>1
<1>. QED  BY <1>1, <1>2, <1>3, RowsAgree

\* Rows have only gone, references been reset.
Shrinks(d, e) ==
    /\ e.last = d.last /\ Fewer(d, e) /\ FewerGenres(d, e)
    /\ \A a \in Ids : In(e.artists, a) => In(d.artists, a)
    /\ e.relation \subseteq d.relation
    /\ \A t \in Media : Exists(e, t) =>
          /\ Exists(d, t) /\ e.media[t].album \in {0, d.media[t].album}
          /\ e.media[t].artist \in {0, d.media[t].artist}
          /\ e.media[t].genre \in {0, d.media[t].genre}

LEMMA KnownShrinks ==
    ASSUME NEW d \in Database, NEW e \in Database, Known(d), Shrinks(d, e)
    PROVE  Known(e)
<1>1. 0 <= d.last
  BY DEF Known, Database, Ids
<1>. QED  BY <1>1 DEF Known, Shrinks, Fewer, FewerGenres

Later(d, e) == d.last <= e.last

LEMMA FaithfulKept ==
    ASSUME NEW d \in Database, NEW e \in Database, Fewer(d, e), Later(d, e),
           NEW o \in Object \cup {NoAlbum}, Faithful(d, o)
    PROVE  Faithful(e, o)
<1>. SUFFICES ASSUME o # NoAlbum
              PROVE  /\ o.id <= e.last
                     /\ In(e.albums, o.id) => e.albums[o.id].artist = o.artist
  BY DEF Faithful
<1>1. o.id <= d.last /\ (In(d.albums, o.id) => d.albums[o.id].artist = o.artist)
  BY DEF Faithful
<1>2. o.id \in Refs /\ o.id \in Int /\ d.last \in Int /\ e.last \in Int
  <2>1. d.last \in Ids /\ e.last \in Ids /\ o.id \in Refs
    BY DEF Database, Object
  <2>2. \A x \in Ids \cup Refs : x \in Int
    BY Bounds
  <2>. QED  BY <2>1, <2>2
<1>3. ASSUME In(e.albums, o.id) PROVE e.albums[o.id].artist = o.artist
  <2>1. o.id \in Ids
    BY <1>2, <1>3 DEF Refs, In
  <2>. QED  BY <1>1, <1>3, <2>1 DEF Fewer
<1>4. o.id <= e.last
  BY <1>1, <1>2 DEF Later
<1>. QED  BY <1>3, <1>4

LEMMA SpecialStay ==
    ASSUME NEW d, NEW e, SpecialArtists(d), StillThere(d, e)
    PROVE  SpecialArtists(e)
BY Bounds DEF SpecialArtists, StillThere, Needed

\* The other tracks still have their albums and artists when one has left.
LEMMA OthersAgree ==
    ASSUME NEW d \in Database, NEW e \in Database, Agree(d), NEW m \in Media,
           \A t \in Media \ {m} : e.media[t] = d.media[t],
           \A t \in Media \ {m} : \A a \in Ids :
               <<t, a>> \in e.relation <=> <<t, a>> \in d.relation,
           Fewer(d, e),
           \A j \in Ids : In(d.albums, j) /\ Tracks(e, j) # {} => In(e.albums, j)
    PROVE  \A t \in Media \ {m} : Agrees(e, t)
<1>. SUFFICES ASSUME NEW t \in Media, t # m
              PROVE  Agrees(e, t)
  OBVIOUS
<1>1. Agrees(d, t) /\ e.media[t] = d.media[t] /\ (Exists(e, t) <=> Exists(d, t))
  BY DEF Agree, Exists
<1>2. CASE Exists(d, t) /\ d.media[t].track
  <2>. DEFINE i == d.media[t].album
  <2>1. /\ In(d.albums, i) /\ i \in Ids
        /\ <<t, d.media[t].artist>> \in d.relation /\ d.media[t].artist \in Ids
        /\ d.albums[i].artist = VariousArtistID \/ <<t, d.albums[i].artist>> \in d.relation
        /\ d.albums[i].artist \in Ids
    BY <1>2, RowsAgree
  <2>2. t \in Tracks(e, i)
    BY <1>1, <1>2 DEF Tracks
  <2>3. In(e.albums, i) /\ e.albums[i].artist = d.albums[i].artist
    BY <2>1, <2>2 DEF Fewer
  <2>. HIDE DEF i
  <2>. QED  BY <1>1, <1>2, <2>1, <2>3 DEF Agrees, i
<1>3. CASE ~(Exists(d, t) /\ d.media[t].track)
  BY <1>1, <1>3 DEF Agrees
<1>. QED  BY <1>2, <1>3

\* What an operation on the tables that loses rows guarantees.
Keeps(d, e, held) ==
    /\ e \in Database /\ Tables(e, held) /\ Fewer(d, e) /\ e.last = d.last

LEMMA TracksGone ==
    ASSUME NEW d, NEW e, NEW m \in Media, \A t \in Media \ {m} : e.media[t] = d.media[t],
           Exists(d, m), ~Exists(e, m), NEW i
    PROVE  /\ i # d.media[m].album =>
                 Tracks(e, i) = Tracks(d, i) /\ Present(e, i) = Present(d, i)
           /\ i = d.media[m].album =>
                 /\ Tracks(e, i) = Tracks(d, i) \ {m} /\ Present(e, i) = Present(d, i) \ {m}
                 /\ m \in Tracks(d, i) /\ (m \in Present(d, i) <=> d.media[m].present)
<1>1. \A t \in Media : /\ t # m => (t \in Tracks(e, i) <=> t \in Tracks(d, i))
                       /\ t # m => (t \in Present(e, i) <=> t \in Present(d, i))
  BY DEF Tracks, Present, Exists
<1>2. /\ m \in Tracks(d, i) <=> i = d.media[m].album
      /\ m \notin Tracks(e, i)
      /\ m \in Present(d, i) <=> i = d.media[m].album /\ d.media[m].present
      /\ m \notin Present(e, i)
  BY DEF Tracks, Present
<1>3. Tracks(d, i) \subseteq Media /\ Present(d, i) \subseteq Media
      /\ Tracks(e, i) \subseteq Media /\ Present(e, i) \subseteq Media
  BY DEF Tracks, Present
<1>. QED  BY <1>1, <1>2, <1>3

LEMMA GenreGone ==
    ASSUME NEW d, NEW e, NEW m \in Media, \A t \in Media \ {m} : e.media[t] = d.media[t],
           Exists(d, m), ~Exists(e, m), NEW i
    PROVE  /\ i # d.media[m].genre =>
                 InGenre(e, i) = InGenre(d, i) /\ PresentIn(e, i) = PresentIn(d, i)
           /\ i = d.media[m].genre =>
                 /\ InGenre(e, i) = InGenre(d, i) \ {m} /\ PresentIn(e, i) = PresentIn(d, i) \ {m}
                 /\ m \in InGenre(d, i) /\ (m \in PresentIn(d, i) <=> d.media[m].present)
<1>1. \A t \in Media : /\ t # m => (t \in InGenre(e, i) <=> t \in InGenre(d, i))
                       /\ t # m => (t \in PresentIn(e, i) <=> t \in PresentIn(d, i))
  BY DEF InGenre, PresentIn, Exists
<1>2. /\ m \in InGenre(d, i) <=> i = d.media[m].genre
      /\ m \notin InGenre(e, i)
      /\ m \in PresentIn(d, i) <=> i = d.media[m].genre /\ d.media[m].present
      /\ m \notin PresentIn(e, i)
  BY DEF InGenre, PresentIn
<1>3. InGenre(d, i) \subseteq Media /\ PresentIn(d, i) \subseteq Media
      /\ InGenre(e, i) \subseteq Media /\ PresentIn(e, i) \subseteq Media
  BY DEF InGenre, PresentIn
<1>. QED  BY <1>1, <1>2, <1>3

LEMMA Destroyed ==
    ASSUME NEW d \in Database, NEW held, Tables(d, held), NEW m \in Media, Exists(d, m),
           NEW e, e = destroy(d, m)
    PROVE  Keeps(d, e, held) /\ e.media = [d.media EXCEPT ![m] = NoRow]
<1>. DEFINE row == d.media[m]
            c == [d EXCEPT !.media[m] = NoRow]
            f == dropMediaArtistRelation(c, m)
            i == IF row.track THEN row.album ELSE 0
            g == IF row.track THEN row.genre ELSE 0
            less == -1
            q == -One(row.present)
            v == -row.duration
<1>1. /\ row \in MediaRow /\ row.present \in BOOLEAN /\ row.duration \in Int
      /\ row.album \in Refs /\ row.genre \in Refs
  BY Rows, MediaTypes
<1>2. Agree(d) /\ Artists(d, held) /\ Albums(d, {}) /\ Genres(d, held)
      /\ SpecialArtists(d) /\ Known(d)
  BY DEF Tables
<1>3. /\ i \in Refs /\ g \in Refs /\ less \in Int /\ q \in Int /\ v \in Int
      /\ i = row.album /\ g = row.genre
  <2>1. ~row.track => row.album = 0 /\ row.genre = 0
    BY <1>2, RowsAgree
  <2>. HIDE DEF row
  <2>. QED  BY <1>1, <2>1 DEF Refs, One
<1>4. /\ c \in Database /\ c.albums = d.albums /\ c.genres = d.genres /\ c.last = d.last
      /\ c.artists = d.artists /\ c.relation = d.relation
      /\ c.media = [d.media EXCEPT ![m] = NoRow]
  BY DEF Database
<1>5. (\A t \in Media \ {m} : c.media[t] = d.media[t]) /\ c.media[m] = NoRow /\ ~Exists(c, m)
  BY <1>4 DEF Database, Exists
<1>. DEFINE b == Both(f, i, g, less, q, v)
<1>6. e = b
  <2>1. e = IF row.track THEN Leave(f, row) ELSE f
    BY DEF destroy
  <2>2. CASE row.track
    BY <1>3, <2>1, <2>2 DEF Leave, Both
  <2>3. CASE ~row.track
    <3>1. \A x : UpdateAlbum(x, 0, less, q, v) = x /\ UpdateGenre(x, 0, less, q) = x
      BY DEF UpdateAlbum, UpdateGenre, In
    <3>2. i = 0 /\ g = 0
      BY <2>3
    <3>. HIDE DEF i, g, less, q, v, f
    <3>. QED  BY <2>1, <2>3, <3>1, <3>2 DEF Both
  <2>. QED  BY <2>2, <2>3
<1>. HIDE DEF row, c, f, i, g, less, q, v, b
<1>7. Artists(c, held)
  <2>1. \A a : Listed(c, a) = Listed(d, a) /\ AlbumsOf(c, a) = AlbumsOf(d, a)
    BY <1>4 DEF Listed, AlbumsOf
  <2>. QED  BY <1>2, <1>4, <2>1 DEF Artists, ArtistCounts
<1>8. Lone(c, m)
  <2>. SUFFICES ASSUME NEW t \in Media, Exists(c, t), t # m
                PROVE  c.media[t].artist = 0 \/ <<t, c.media[t].artist>> \in c.relation
    BY <1>5 DEF Lone
  <2>1. Exists(d, t) /\ c.media[t] = d.media[t]
    BY <1>5 DEF Exists
  <2>2. d.media[t].artist = 0 \/ <<t, d.media[t].artist>> \in d.relation
    BY <1>2, <2>1, RowsAgree
  <2>. QED  BY <1>4, <2>1, <2>2
<1>9. /\ OnlyRelations(c, f) /\ f.relation = {r \in d.relation : r[1] # m}
      /\ Artists(f, held) /\ StillThere(c, f) /\ Lone(f, m)
  BY <1>4, <1>7, <1>8, DropDone DEF f
<1>10. /\ f \in Database /\ f.media = c.media /\ f.albums = d.albums /\ f.genres = d.genres
       /\ f.last = d.last
       /\ \A j : /\ Tracks(f, j) = Tracks(c, j) /\ Present(f, j) = Present(c, j)
                 /\ InGenre(f, j) = InGenre(c, j) /\ PresentIn(f, j) = PresentIn(c, j)
  BY <1>4, <1>9, SameMedia DEF OnlyRelations
<1>11. AlbumDue(f, i, less, q)
  <2>. SUFFICES ASSUME In(f.albums, i)
                PROVE  /\ f.albums[i].nb_tracks + less = Cardinality(Tracks(f, i))
                       /\ f.albums[i].is_present + q = Cardinality(Present(f, i))
                       /\ Tracks(f, i) = {} => Spare(f, f.albums[i].artist)
    BY DEF AlbumDue
  <2>1. i \in Ids /\ In(d.albums, i) /\ In(d.albums, row.album)
    BY <1>3, <1>10 DEF In, Refs
  <2>2. /\ Tracks(c, i) = Tracks(d, i) \ {m} /\ Present(c, i) = Present(d, i) \ {m}
        /\ m \in Tracks(d, i) /\ (m \in Present(d, i) <=> row.present)
    BY <1>3, <1>5, TracksGone DEF row
  <2>3. AlbumCounts(d, i)
    BY <1>2, <2>1 DEF Albums
  <2>4. Cardinality(Tracks(d, i)) \in Nat
    BY Countable, Count
  <2>5. Cardinality(Tracks(c, i)) = Cardinality(Tracks(d, i)) - 1
    BY <2>2, Countable, CountMinus
  <2>6. Cardinality(Present(d, i)) + (-One(row.present)) = Cardinality(Present(c, i))
    BY <1>1, <2>2, Countable, CountLeaves
  <2>7. f.albums[i].artist \in Ids
    <3>1. row.track
      BY <2>1, <1>2, RowsAgree DEF row, In
    <3>. QED  BY <1>2, <1>3, <1>10, <3>1, RowsAgree DEF row
  <2>8. Spare(f, f.albums[i].artist)
    <3>. DEFINE a == f.albums[i].artist
    <3>1. ASSUME NEW t \in Media, Exists(f, t), f.media[t].artist = a
          PROVE  Listed(f, a) # {}
      <4>1. <<t, a>> \in f.relation
        BY <1>9, <2>7, <3>1, Bounds DEF Lone
      <4>2. <<t, a>> \in Listed(f, a)
        BY <4>1 DEF Listed
      <4>. QED  BY <4>2
    <3>. QED  BY <3>1 DEF Spare
  <2>. QED  BY <1>10, <2>3, <2>4, <2>5, <2>6, <2>8 DEF AlbumCounts, less, q
<1>12. GenreDue(f, g, less, q)
  <2>. SUFFICES ASSUME In(f.genres, g)
                PROVE  /\ f.genres[g].nb_tracks + less = Cardinality(InGenre(f, g))
                       /\ f.genres[g].is_present + q = Cardinality(PresentIn(f, g))
    BY DEF GenreDue
  <2>1. g \in Ids /\ In(d.genres, g)
    BY <1>3, <1>10 DEF In, Refs
  <2>2. /\ InGenre(c, g) = InGenre(d, g) \ {m} /\ PresentIn(c, g) = PresentIn(d, g) \ {m}
        /\ m \in InGenre(d, g) /\ (m \in PresentIn(d, g) <=> row.present)
    BY <1>3, <1>5, GenreGone DEF row
  <2>3. GenreCounts(d, g)
    BY <1>2, <2>1 DEF Genres
  <2>4. Cardinality(InGenre(d, g)) \in Nat
    BY Countable, Count
  <2>5. Cardinality(InGenre(c, g)) = Cardinality(InGenre(d, g)) - 1
    BY <2>2, Countable, CountMinus
  <2>6. Cardinality(PresentIn(d, g)) + (-One(row.present)) = Cardinality(PresentIn(c, g))
    BY <1>1, <2>2, Countable, CountLeaves
  <2>. QED  BY <1>10, <2>3, <2>4, <2>5, <2>6 DEF GenreCounts, less, q
<1>13. Done(f, e, i, g) /\ Fewer(f, e) /\ Artists(e, held) /\ StillThere(f, e)
  <2>1. Due(f, i, g, less, q)
    BY <1>11, <1>12 DEF Due
  <2>. QED  BY <1>3, <1>6, <1>9, <1>10, <2>1, BothUpdated DEF b
<1>14. /\ e \in Database /\ e.media = c.media /\ e.relation = f.relation /\ e.last = d.last
       /\ \A j : /\ Tracks(e, j) = Tracks(c, j) /\ Present(e, j) = Present(c, j)
                 /\ InGenre(e, j) = InGenre(c, j) /\ PresentIn(e, j) = PresentIn(c, j)
  BY <1>10, <1>13, SameMedia DEF Done
<1>15. Fewer(d, e)
  BY <1>10, <1>13 DEF Fewer
<1>16. ASSUME NEW j \in Ids
       PROVE  /\ In(d.albums, j) /\ Tracks(e, j) # {} => In(e.albums, j)
              /\ In(e.albums, j) => AlbumCounts(e, j) /\ Tracks(e, j) # {}
  <2>1. AlbumDone(f, e, i)
    BY <1>13 DEF Done
  <2>2. CASE j = i
    BY <1>10, <1>14, <2>1, <2>2 DEF AlbumDone
  <2>3. CASE j # i
    <3>1. e.albums[j] = d.albums[j]
      BY <1>10, <2>1, <2>3 DEF AlbumDone
    <3>2. Tracks(e, j) = Tracks(d, j) /\ Present(e, j) = Present(d, j)
      BY <1>3, <1>5, <1>14, <2>3, TracksGone DEF row
    <3>. QED  BY <1>2, <3>1, <3>2 DEF In, Albums, AlbumCounts
  <2>. QED  BY <2>2, <2>3
<1>17. ASSUME NEW j \in Ids, In(e.genres, j)
       PROVE  In(d.genres, j) /\ GenreCounts(e, j) /\ (j \notin held.genres => InGenre(e, j) # {})
  <2>1. GenreDone(f, e, g)
    BY <1>13 DEF Done
  <2>2. CASE j = g
    BY <1>10, <1>14, <1>17, <2>1, <2>2 DEF GenreDone
  <2>3. CASE j # g
    <3>1. e.genres[j] = d.genres[j]
      BY <1>10, <2>1, <2>3 DEF GenreDone
    <3>2. InGenre(e, j) = InGenre(d, j) /\ PresentIn(e, j) = PresentIn(d, j)
      BY <1>3, <1>5, <1>14, <2>3, GenreGone DEF row
    <3>. QED  BY <1>2, <1>17, <3>1, <3>2 DEF In, Genres, GenreCounts
  <2>. QED  BY <2>2, <2>3
<1>18. Albums(e, {}) /\ Genres(e, held) /\ FewerGenres(d, e)
  BY <1>16, <1>17 DEF Albums, Genres, FewerGenres
<1>19. SpecialArtists(e) /\ \A a \in Ids : In(e.artists, a) => In(d.artists, a)
  <2>1. StillThere(d, f)
    BY <1>4, <1>9 DEF StillThere
  <2>2. StillThere(d, e)
    BY <1>13, <1>14, <2>1, StillThereAgain
  <2>. QED  BY <1>2, <2>2, SpecialStay DEF StillThere
<1>20. e.media = [d.media EXCEPT ![m] = NoRow]
  BY <1>4, <1>14
<1>21. Agree(e)
  <2>1. \A t \in Media \ {m} : e.media[t] = d.media[t]
    BY <1>5, <1>14
  <2>2. \A t \in Media \ {m} : \A a \in Ids : <<t, a>> \in e.relation <=> <<t, a>> \in d.relation
    BY <1>9, <1>14
  <2>3. \A t \in Media \ {m} : Agrees(e, t)
    BY <1>2, <1>14, <1>15, <1>16, <2>1, <2>2, OthersAgree
  <2>4. ~Exists(e, m) /\ \A a \in Ids : <<m, a>> \notin e.relation
    BY <1>5, <1>9, <1>14 DEF Exists
  <2>5. Agrees(e, m)
    BY <2>4 DEF Agrees
  <2>. QED  BY <2>3, <2>5 DEF Agree
<1>22. Known(e)
  <2>1. \A t \in Media : Exists(e, t) => Exists(d, t) /\ e.media[t] = d.media[t]
    BY <1>5, <1>14 DEF Exists
  <2>2. e.relation \subseteq d.relation
    BY <1>9, <1>14
  <2>3. Shrinks(d, e)
    BY <1>14, <1>15, <1>18, <1>19, <2>1, <2>2 DEF Shrinks
  <2>. QED  BY <1>2, <1>14, <2>3, KnownShrinks
<1>. QED  BY <1>13, <1>14, <1>15, <1>18, <1>19, <1>20, <1>21, <1>22 DEF Keeps, Tables

\* The tables tell the same, but for what nothing counts.
Alike(d, e) ==
    /\ e \in Database
    /\ e.genres = d.genres /\ e.artists = d.artists /\ e.relation = d.relation /\ e.last = d.last
    /\ \A t \in Media :
          /\ Exists(e, t) <=> Exists(d, t)
          /\ Exists(d, t) =>
                /\ e.media[t].present = d.media[t].present /\ e.media[t].track = d.media[t].track
                /\ e.media[t].album = d.media[t].album /\ e.media[t].artist = d.media[t].artist
                /\ e.media[t].genre = d.media[t].genre
    /\ \A j \in Ids :
          /\ In(e.albums, j) <=> In(d.albums, j)
          /\ In(d.albums, j) =>
                /\ e.albums[j].artist = d.albums[j].artist
                /\ e.albums[j].nb_tracks = d.albums[j].nb_tracks
                /\ e.albums[j].is_present = d.albums[j].is_present

LEMMA AlikeParts ==
    ASSUME NEW d \in Database, NEW e, Alike(d, e), NEW held
    PROVE  /\ Artists(d, held) => Artists(e, held)
           /\ Albums(d, held) => Albums(e, held)
           /\ Genres(d, held) => Genres(e, held)
           /\ SpecialArtists(d) => SpecialArtists(e)
           /\ Agree(d) => Agree(e)
           /\ Known(d) => Known(e)
           /\ Fewer(d, e) /\ StillThere(d, e) /\ e.last = d.last /\ e \in Database
           /\ \A i : Tracks(e, i) = Tracks(d, i)
<1>. USE DEF Alike
<1>1. \A i : /\ Tracks(e, i) = Tracks(d, i) /\ Present(e, i) = Present(d, i)
             /\ InGenre(e, i) = InGenre(d, i) /\ PresentIn(e, i) = PresentIn(d, i)
  <2>1. \A i : Tracks(e, i) = Tracks(d, i) /\ InGenre(e, i) = InGenre(d, i)
    BY DEF Tracks, InGenre
  <2>2. \A i : \A t \in Tracks(d, i) \cup InGenre(d, i) :
           t \in Media /\ e.media[t].present = d.media[t].present
    BY DEF Tracks, InGenre
  <2>. QED  BY <2>1, <2>2 DEF Present, PresentIn
<1>2. \A a : Listed(e, a) = Listed(d, a) /\ AlbumsOf(e, a) = AlbumsOf(d, a)
  BY DEF Listed, AlbumsOf
<1>3. \A a : Needed(e, a) <=> Needed(d, a)
  BY <1>2 DEF Needed
<1>4. Artists(d, held) => Artists(e, held)
  BY <1>2 DEF Artists, ArtistCounts
<1>5. Albums(d, held) => Albums(e, held)
  BY <1>1 DEF Albums, AlbumCounts
<1>6. Genres(d, held) => Genres(e, held)
  BY <1>1 DEF Genres, GenreCounts
<1>7. SpecialArtists(d) => SpecialArtists(e)
  BY DEF SpecialArtists
<1>8. Agree(d) => Agree(e)
  <2>. SUFFICES ASSUME Agree(d), NEW t \in Media PROVE Agrees(e, t)
    BY DEF Agree
  <2>1. Agrees(d, t)
    BY DEF Agree
  <2>2. CASE Exists(d, t) /\ d.media[t].track
    <3>1. In(d.albums, d.media[t].album) /\ d.media[t].album \in Ids
      BY <2>2, RowsAgree
    <3>2. /\ e.media[t].album = d.media[t].album /\ e.media[t].artist = d.media[t].artist
          /\ e.media[t].track /\ Exists(e, t)
          /\ e.albums[d.media[t].album].artist = d.albums[d.media[t].album].artist
          /\ In(e.albums, d.media[t].album)
      BY <2>2, <3>1
    <3>. QED  BY <2>1, <2>2, <3>2 DEF Agrees
  <2>3. CASE ~(Exists(d, t) /\ d.media[t].track)
    <3>1. ~(Exists(e, t) /\ e.media[t].track)
      BY <2>3
    <3>. QED  BY <2>1, <2>3, <3>1 DEF Agrees
  <2>. QED  BY <2>2, <2>3
<1>9. Known(d) => Known(e)
  BY DEF Known
<1>10. Fewer(d, e) /\ StillThere(d, e)
  BY <1>3 DEF Fewer, StillThere
<1>. QED  BY <1>1, <1>4, <1>5, <1>6, <1>7, <1>8, <1>9, <1>10

\* The same media are there.
SamePlaces(d, e) == \A t \in Media : Exists(e, t) <=> Exists(d, t)

\* A row of a media is changed, in what nothing counts.
LEMMA RowTouched ==
    ASSUME NEW d \in Database, NEW held, Tables(d, held), NEW m \in Media, Exists(d, m),
           NEW row \in MediaRow, row.present = d.media[m].present, row.track = d.media[m].track,
           row.album = d.media[m].album, row.artist = d.media[m].artist,
           row.genre = d.media[m].genre,
           NEW e, e = [d EXCEPT !.media[m] = row]
    PROVE  Keeps(d, e, held) /\ SamePlaces(d, e)
<1>1. row # NoRow
  BY CollectionAssumption
<1>2. /\ e \in Database /\ e.albums = d.albums /\ e.genres = d.genres /\ e.artists = d.artists
      /\ e.relation = d.relation /\ e.last = d.last /\ e.media = [d.media EXCEPT ![m] = row]
  BY DEF Database
<1>3. e.media[m] = row /\ \A t \in Media \ {m} : e.media[t] = d.media[t]
  BY <1>2 DEF Database
<1>4. Alike(d, e)
  BY <1>1, <1>2, <1>3 DEF Alike, Exists
<1>5. Tables(e, held)
  BY <1>4, AlikeParts DEF Tables
<1>. QED  BY <1>4, <1>5, AlikeParts, ZenonT(30) DEF Keeps, SamePlaces, Alike

LEMMA KeepsAgain ==
    ASSUME NEW c, NEW d, NEW e, NEW held, Keeps(c, d, held), Keeps(d, e, held)
    PROVE  Keeps(c, e, held)
BY DEF Keeps, Fewer

\* Only the durations of albums have changed.
OnlyDurations(d, e) ==
    /\ Alike(d, e) /\ e.media = d.media

\* A media leaves its album, its genre and its artists, but stays.
LEMMA Unfiled ==
    ASSUME NEW d \in Database, NEW held, Tables(d, held), NEW m \in Media, Exists(d, m),
           NEW f, f = setSubTypeUnknown(d, m), NEW g, f \in Database => OnlyDurations(f, g),
           NEW e, e = dropMediaArtistRelation(g, m)
    PROVE  /\ Keeps(d, e, held) /\ SamePlaces(d, e) /\ e.media[m] \in MediaRow
           /\ ~e.media[m].track /\ f \in Database
<1>. DEFINE false == FALSE
            none == 0
<1>1. /\ false \in BOOLEAN /\ none \in Refs /\ f = File(d, m, false, none, none, none)
  BY DEF setSubTypeUnknown, Refs
<1>2. Agree(d) /\ Artists(d, held) /\ Albums(d, {}) /\ Genres(d, held)
      /\ SpecialArtists(d) /\ Known(d)
  BY DEF Tables
<1>. HIDE DEF false, none
<1>3. Albums(d, {none})
  BY <1>2 DEF Albums
<1>4. /\ Filed(d, f, m, false, none, none, none)
      /\ Artists(f, held) /\ StillThere(d, f) /\ Fewer(d, f) /\ FewerGenres(d, f)
      /\ \A j \in Ids : In(f.albums, j) <=> In(d.albums, j) /\ Tracks(f, j) # {}
      /\ Albums(f, {}) /\ Genres(f, held)
  BY <1>1, <1>2, <1>3, AlbumIsSafe, FileDone
<1>5. /\ f \in Database /\ f.relation = d.relation /\ f.last = d.last /\ OnlyMedia(d, f, m)
      /\ f.media[m].track = false /\ f.media[m].album = none
      /\ f.media[m].artist = none /\ f.media[m].genre = none
  BY <1>4 DEF Filed
<1>6. Alike(f, g) /\ g.media = f.media /\ g \in Database
  BY <1>5 DEF OnlyDurations, Alike
<1>7. /\ Artists(g, held) /\ Albums(g, {}) /\ Genres(g, held) /\ g.relation = d.relation
      /\ g.last = d.last /\ g.genres = f.genres /\ Fewer(f, g) /\ StillThere(f, g)
      /\ \A i : Tracks(g, i) = Tracks(f, i)
  BY <1>4, <1>5, <1>6, AlikeParts DEF Alike
<1>8. Lone(g, m)
  <2>. SUFFICES ASSUME NEW t \in Media, Exists(g, t), g.media[t].artist # 0
                PROVE  t # m /\ <<t, g.media[t].artist>> \in g.relation
    BY DEF Lone
  <2>1. t # m
    BY <1>5, <1>6 DEF none
  <2>2. Exists(d, t) /\ g.media[t] = d.media[t]
    BY <1>5, <1>6, <2>1 DEF OnlyMedia, Exists
  <2>. QED  BY <1>2, <1>7, <2>1, <2>2, RowsAgree, ZenonT(30)
<1>9. /\ OnlyRelations(g, e) /\ e.relation = {r \in d.relation : r[1] # m}
      /\ Artists(e, held) /\ StillThere(g, e)
  BY <1>6, <1>7, <1>8, DropDone
<1>10. /\ e \in Database /\ e.media = f.media /\ e.albums = g.albums /\ e.genres = f.genres
       /\ e.last = d.last
       /\ \A j : /\ Tracks(e, j) = Tracks(g, j) /\ Present(e, j) = Present(g, j)
                 /\ InGenre(e, j) = InGenre(g, j) /\ PresentIn(e, j) = PresentIn(g, j)
  BY <1>6, <1>7, <1>9, SameMedia DEF OnlyRelations
<1>11. Albums(e, {}) /\ Genres(e, held)
  BY <1>7, <1>10 DEF Albums, AlbumCounts, Genres, GenreCounts
<1>12. SpecialArtists(e)
  <2>1. SpecialArtists(g)
    BY <1>2, <1>4, <1>7, SpecialStay
  <2>. QED  BY <1>9, <2>1, SpecialStay
<1>13. Fewer(d, e) /\ FewerGenres(d, e)
  BY <1>4, <1>7, <1>10 DEF Fewer, FewerGenres
<1>14. \A a \in Ids : In(e.artists, a) => In(d.artists, a)
  BY <1>4, <1>7, <1>9 DEF StillThere
<1>15. \A t \in Media \ {m} : e.media[t] = d.media[t]
  BY <1>5, <1>10 DEF OnlyMedia
<1>16. Exists(d, m) /\ Exists(e, m) /\ e.media[m] \in MediaRow /\ ~e.media[m].track
       /\ e.media[m].album = 0 /\ e.media[m].artist = 0 /\ e.media[m].genre = 0
  <2>1. Exists(e, m)
    BY <1>5, <1>10 DEF OnlyMedia, Exists
  <2>. QED  BY <1>5, <1>10, <2>1, Rows DEF none, false
<1>17. Agree(e)
  <2>1. \A t \in Media \ {m} : \A a \in Ids : <<t, a>> \in e.relation <=> <<t, a>> \in d.relation
    BY <1>9
  <2>2. \A j \in Ids : In(d.albums, j) /\ Tracks(e, j) # {} => In(e.albums, j)
    BY <1>4, <1>6, <1>7, <1>10 DEF Alike
  <2>3. \A t \in Media \ {m} : Agrees(e, t)
    BY <1>2, <1>10, <1>13, <1>15, <2>1, <2>2, OthersAgree
  <2>4. \A a \in Ids : <<m, a>> \notin e.relation
    BY <1>9
  <2>5. Agrees(e, m)
    BY <1>16, <2>4 DEF Agrees
  <2>. QED  BY <2>3, <2>5 DEF Agree
<1>18. Known(e)
  <2>1. \A t \in Media : Exists(e, t) =>
            /\ Exists(d, t) /\ e.media[t].album \in {0, d.media[t].album}
            /\ e.media[t].artist \in {0, d.media[t].artist}
            /\ e.media[t].genre \in {0, d.media[t].genre}
    BY <1>15, <1>16 DEF Exists
  <2>2. Shrinks(d, e)
    BY <1>9, <1>10, <1>13, <1>14, <2>1 DEF Shrinks
  <2>. QED  BY <1>2, <1>10, <2>2, KnownShrinks
<1>19. SamePlaces(d, e)
  BY <1>15, <1>16 DEF SamePlaces, Exists
<1>. QED  BY <1>5, <1>9, <1>10, <1>11, <1>12, <1>13, <1>16, <1>17, <1>18, <1>19 DEF Keeps, Tables

-----------------------------------------------------------------------------
(* A device comes or goes.                                                 *)

\* The media whose presence changes.
Switched(d, b) == {m \in Removable : Exists(d, m) /\ d.media[m].internal
                                     /\ d.media[m].present # b}
Shift(b, S) == (IF b THEN 1 ELSE -1) * Cardinality(S)

LEMMA CountSwitched ==
    ASSUME NEW b \in BOOLEAN, NEW P, IsFiniteSet(P), NEW C, IsFiniteSet(C),
           b => C \cap P = {}, ~b => C \subseteq P, NEW Q, Q = IF b THEN P \cup C ELSE P \ C
    PROVE  Shift(b, C) \in Int /\ Cardinality(P) + Shift(b, C) = Cardinality(Q)
<1>. DEFINE p == Cardinality(P)
            c == Cardinality(C)
            q == Cardinality(Q)
            s == Shift(b, C)
<1>1. p \in Nat /\ c \in Nat
  BY Count
<1>2. CASE b
  <2>1. P \cap C = {} /\ Cardinality(P \cap C) = 0
    BY <1>2, Count, FS_EmptySet
  <2>2. q = p + c - 0
    BY <1>2, <2>1, FS_Union
  <2>3. s = 1 * c
    BY <1>2 DEF Shift
  <2>. HIDE DEF p, c, q, s
  <2>4. s \in Int /\ p + s = q
    BY <1>1, <2>2, <2>3
  <2>. QED  BY <2>4 DEF p, c, q, s
<1>3. CASE ~b
  <2>1. P \cap C = C /\ Q = P \ C
    BY <1>3
  <2>2. q = p - c
    <3>1. Cardinality(P \ C) = Cardinality(P) - Cardinality(P \cap C)
      BY FS_Difference
    <3>. QED  BY <2>1, <3>1
  <2>3. s = (-1) * c
    BY <1>3 DEF Shift
  <2>. HIDE DEF p, c, q, s
  <2>4. s \in Int /\ p + s = q
    BY <1>1, <2>2, <2>3
  <2>. QED  BY <2>4 DEF p, c, q, s
<1>. QED  BY <1>2, <1>3

\* A row of which the presence count has moved.
Shown(r, x) == [r EXCEPT !.is_present = @ + x]

LEMMA RowsShown ==
    ASSUME NEW r, NEW x \in Int
    PROVE  /\ r \in AlbumRow => /\ Shown(r, x) \in AlbumRow /\ Shown(r, x) # NoRow
                                /\ Shown(r, x).is_present = r.is_present + x
                                /\ Shown(r, x).nb_tracks = r.nb_tracks
                                /\ Shown(r, x).artist = r.artist
           /\ r \in ArtistRow => /\ Shown(r, x) \in ArtistRow /\ Shown(r, x) # NoRow
                                 /\ Shown(r, x).nb_tracks = r.nb_tracks
                                 /\ Shown(r, x).nb_albums = r.nb_albums
           /\ r \in GenreRow => /\ Shown(r, x) \in GenreRow /\ Shown(r, x) # NoRow
                                /\ Shown(r, x).is_present = r.is_present + x
                                /\ Shown(r, x).nb_tracks = r.nb_tracks
<1>1. r \in AlbumRow => /\ Shown(r, x) \in AlbumRow
                        /\ Shown(r, x).is_present = r.is_present + x
                        /\ Shown(r, x).nb_tracks = r.nb_tracks
                        /\ Shown(r, x).artist = r.artist
  BY DEF AlbumRow, Shown
<1>2. r \in ArtistRow => /\ Shown(r, x) \in ArtistRow
                         /\ Shown(r, x).nb_tracks = r.nb_tracks
                         /\ Shown(r, x).nb_albums = r.nb_albums
  BY DEF ArtistRow, Shown
<1>3. r \in GenreRow => /\ Shown(r, x) \in GenreRow
                        /\ Shown(r, x).is_present = r.is_present + x
                        /\ Shown(r, x).nb_tracks = r.nb_tracks
  BY DEF GenreRow, Shown
<1>. QED  BY <1>1, <1>2, <1>3, CollectionAssumption

\* The tracks of an album, an artist or a genre that are switched.
OfAlbum(d, b, i) == {m \in Switched(d, b) : d.media[m].track /\ d.media[m].album = i}
OfArtist(d, b, i) == {m \in Switched(d, b) : d.media[m].track /\ d.media[m].artist = i}
OfGenre(d, b, i) == {m \in Switched(d, b) : d.media[m].track /\ d.media[m].genre = i}

LEMMA PresenceIsSet ==
    ASSUME NEW d \in Database, NEW b \in BOOLEAN, NEW e, e = setPresent(d, b)
    PROVE  /\ e.relation = d.relation /\ e.last = d.last
           /\ e.media = [m \in Media |-> IF m \in Switched(d, b)
                                         THEN [d.media[m] EXCEPT !.present = b] ELSE d.media[m]]
           /\ e.albums = [i \in Ids |-> IF In(d.albums, i)
                              THEN Shown(d.albums[i], Shift(b, OfAlbum(d, b, i))) ELSE NoRow]
           /\ e.artists = [i \in Ids |-> IF In(d.artists, i)
                              THEN Shown(d.artists[i], Shift(b, OfArtist(d, b, i))) ELSE NoRow]
           /\ e.genres = [i \in Ids |-> IF In(d.genres, i)
                              THEN Shown(d.genres[i], Shift(b, OfGenre(d, b, i))) ELSE NoRow]
           /\ e = [media |-> e.media, albums |-> e.albums, genres |-> e.genres,
                   artists |-> e.artists, relation |-> e.relation, last |-> e.last]
BY DEF setPresent, Shown, Shift, OfAlbum, OfArtist, OfGenre, Switched, Database

LEMMA Presented ==
    ASSUME NEW d \in Database, NEW held, Tables(d, held), NEW b \in BOOLEAN,
           NEW e, e = setPresent(d, b)
    PROVE  Keeps(d, e, held) /\ SamePlaces(d, e)
<1>. DEFINE Row(m) == [d.media[m] EXCEPT !.present = b]
<1>1. /\ e.relation = d.relation /\ e.last = d.last
      /\ e.media = [m \in Media |-> IF m \in Switched(d, b) THEN Row(m) ELSE d.media[m]]
      /\ e.albums = [i \in Ids |-> IF In(d.albums, i)
                         THEN Shown(d.albums[i], Shift(b, OfAlbum(d, b, i))) ELSE NoRow]
      /\ e.artists = [i \in Ids |-> IF In(d.artists, i)
                         THEN Shown(d.artists[i], Shift(b, OfArtist(d, b, i))) ELSE NoRow]
      /\ e.genres = [i \in Ids |-> IF In(d.genres, i)
                         THEN Shown(d.genres[i], Shift(b, OfGenre(d, b, i))) ELSE NoRow]
      /\ e = [media |-> e.media, albums |-> e.albums, genres |-> e.genres,
              artists |-> e.artists, relation |-> e.relation, last |-> e.last]
  BY PresenceIsSet
<1>2. Switched(d, b) \subseteq Media
  BY CollectionAssumption DEF Switched
<1>3. \A m \in Switched(d, b) :
          /\ Exists(d, m) /\ d.media[m].present # b /\ Row(m) \in MediaRow /\ Row(m) # NoRow
          /\ Row(m).present = b /\ Row(m).track = d.media[m].track
          /\ Row(m).album = d.media[m].album /\ Row(m).artist = d.media[m].artist
          /\ Row(m).genre = d.media[m].genre
  <2>. SUFFICES ASSUME NEW m \in Switched(d, b)
                PROVE  /\ Exists(d, m) /\ d.media[m].present # b
                       /\ Row(m) \in MediaRow /\ Row(m) # NoRow
                       /\ Row(m).present = b /\ Row(m).track = d.media[m].track
                       /\ Row(m).album = d.media[m].album /\ Row(m).artist = d.media[m].artist
                       /\ Row(m).genre = d.media[m].genre
    OBVIOUS
  <2>1. m \in Media /\ Exists(d, m) /\ d.media[m].present # b
    BY <1>2 DEF Switched
  <2>2. d.media[m] \in MediaRow
    BY <2>1, Rows
  <2>. QED  BY <2>1, <2>2, CollectionAssumption DEF MediaRow
<1>. HIDE DEF Row
<1>4. \A m \in Media :
          /\ Exists(e, m) <=> Exists(d, m)
          /\ Exists(d, m) =>
                /\ e.media[m].track = d.media[m].track /\ e.media[m].album = d.media[m].album
                /\ e.media[m].artist = d.media[m].artist /\ e.media[m].genre = d.media[m].genre
                /\ e.media[m].present = IF m \in Switched(d, b) THEN b ELSE d.media[m].present
  BY <1>1, <1>3 DEF Exists
<1>5. Agree(d) /\ Artists(d, held) /\ Albums(d, {}) /\ Genres(d, held)
      /\ SpecialArtists(d) /\ Known(d)
  BY DEF Tables
<1>6. \A i : Tracks(e, i) = Tracks(d, i) /\ InGenre(e, i) = InGenre(d, i)
  BY <1>4 DEF Tracks, InGenre
<1>7. ASSUME NEW i \in Ids
      PROVE  /\ Shift(b, OfAlbum(d, b, i)) \in Int
             /\ Cardinality(Present(d, i)) + Shift(b, OfAlbum(d, b, i)) = Cardinality(Present(e, i))
  <2>. DEFINE C == OfAlbum(d, b, i)
              P == Present(d, i)
              Q == Present(e, i)
  <2>1. \A m : m \in C <=> m \in Switched(d, b) /\ m \in Tracks(d, i)
    <3>1. ASSUME NEW m \in Media, Exists(d, m), d.media[m].album = i
          PROVE  d.media[m].track
      BY <1>5, <3>1, RowsAgree, Bounds
    <3>. QED  BY <1>2, <1>3, <3>1 DEF OfAlbum, Tracks
  <2>2. \A m : m \in P <=> m \in Tracks(d, i) /\ d.media[m].present
    BY DEF Present
  <2>3. \A m : m \in Q <=> m \in Tracks(d, i) /\ (IF m \in Switched(d, b) THEN b
                                                ELSE d.media[m].present)
    BY <1>4, <1>6 DEF Present, Tracks
  <2>4. \A m \in Tracks(d, i) : d.media[m].present \in BOOLEAN
    BY Rows, MediaTypes DEF Tracks
  <2>5. IsFiniteSet(P) /\ IsFiniteSet(C)
    <3>1. C \subseteq Tracks(d, i)
      BY <2>1
    <3>. QED  BY <3>1, Countable, FS_Subset
  <2>. HIDE DEF C, P, Q
  <2>6. \A m \in Switched(d, b) : d.media[m].present # b
    BY <1>3
  <2>7. (b => C \cap P = {}) /\ (~b => C \subseteq P) /\ Q = IF b THEN P \cup C ELSE P \ C
    <3>1. CASE b
      BY <2>1, <2>2, <2>3, <2>4, <2>6, <3>1
    <3>2. CASE ~b
      BY <2>1, <2>2, <2>3, <2>4, <2>6, <3>2
    <3>. QED  BY <3>1, <3>2
  <2>8. Shift(b, C) \in Int /\ Cardinality(P) + Shift(b, C) = Cardinality(Q)
    BY <2>5, <2>7, CountSwitched
  <2>. QED  BY <2>8 DEF C, P, Q
<1>8. ASSUME NEW i \in Ids
      PROVE  /\ Shift(b, OfGenre(d, b, i)) \in Int
             /\ Cardinality(PresentIn(d, i)) + Shift(b, OfGenre(d, b, i))
                    = Cardinality(PresentIn(e, i))
  <2>. DEFINE C == OfGenre(d, b, i)
              P == PresentIn(d, i)
              Q == PresentIn(e, i)
  <2>1. \A m : m \in C <=> m \in Switched(d, b) /\ m \in InGenre(d, i)
    <3>1. ASSUME NEW m \in Media, Exists(d, m), d.media[m].genre = i
          PROVE  d.media[m].track
      BY <1>5, <3>1, RowsAgree, Bounds
    <3>. QED  BY <1>2, <1>3, <3>1 DEF OfGenre, InGenre
  <2>2. \A m : m \in P <=> m \in InGenre(d, i) /\ d.media[m].present
    BY DEF PresentIn
  <2>3. \A m : m \in Q <=> m \in InGenre(d, i) /\ (IF m \in Switched(d, b) THEN b
                                                 ELSE d.media[m].present)
    BY <1>4, <1>6 DEF PresentIn, InGenre
  <2>4. \A m \in InGenre(d, i) : d.media[m].present \in BOOLEAN
    BY Rows, MediaTypes DEF InGenre
  <2>5. IsFiniteSet(P) /\ IsFiniteSet(C)
    <3>1. C \subseteq InGenre(d, i)
      BY <2>1
    <3>. QED  BY <3>1, Countable, FS_Subset
  <2>. HIDE DEF C, P, Q
  <2>6. \A m \in Switched(d, b) : d.media[m].present # b
    BY <1>3
  <2>7. (b => C \cap P = {}) /\ (~b => C \subseteq P) /\ Q = IF b THEN P \cup C ELSE P \ C
    <3>1. CASE b
      BY <2>1, <2>2, <2>3, <2>4, <2>6, <3>1
    <3>2. CASE ~b
      BY <2>1, <2>2, <2>3, <2>4, <2>6, <3>2
    <3>. QED  BY <3>1, <3>2
  <2>8. Shift(b, C) \in Int /\ Cardinality(P) + Shift(b, C) = Cardinality(Q)
    BY <2>5, <2>7, CountSwitched
  <2>. QED  BY <2>8 DEF C, P, Q
<1>9. ASSUME NEW i \in Ids PROVE Shift(b, OfArtist(d, b, i)) \in Int
  <2>. DEFINE C == OfArtist(d, b, i)
  <2>1. IsFiniteSet(C)
    <3>1. C \subseteq Media
      BY <1>2 DEF OfArtist
    <3>. QED  BY <3>1, Bounds, FS_Subset
  <2>. HIDE DEF C
  <2>2. Cardinality(C) \in Nat
    BY <2>1, Count
  <2>3. Shift(b, C) \in Int
    BY <2>2 DEF Shift
  <2>. QED  BY <2>3 DEF C
<1>10. \A i \in Ids :
          /\ In(e.albums, i) <=> In(d.albums, i)
          /\ In(d.albums, i) =>
                /\ e.albums[i] \in AlbumRow
                /\ e.albums[i].artist = d.albums[i].artist
                /\ e.albums[i].nb_tracks = d.albums[i].nb_tracks
                /\ e.albums[i].is_present = d.albums[i].is_present + Shift(b, OfAlbum(d, b, i))
  BY <1>1, <1>7, Rows, RowsShown DEF In, Refs
<1>11. \A i \in Ids :
          /\ In(e.artists, i) <=> In(d.artists, i)
          /\ In(d.artists, i) =>
                /\ e.artists[i] \in ArtistRow
                /\ e.artists[i].nb_albums = d.artists[i].nb_albums
                /\ e.artists[i].nb_tracks = d.artists[i].nb_tracks
  BY <1>1, <1>9, Rows, RowsShown DEF In, Refs
<1>12. \A i \in Ids :
          /\ In(e.genres, i) <=> In(d.genres, i)
          /\ In(d.genres, i) =>
                /\ e.genres[i] \in GenreRow
                /\ e.genres[i].nb_tracks = d.genres[i].nb_tracks
                /\ e.genres[i].is_present = d.genres[i].is_present + Shift(b, OfGenre(d, b, i))
  BY <1>1, <1>8, Rows, RowsShown DEF In, Refs
<1>13. e \in Database
  <2>1. e.media \in [Media -> MediaRow \cup {NoRow}]
    BY <1>1, <1>3 DEF Database
  <2>2. e.albums \in [Ids -> AlbumRow \cup {NoRow}]
    BY <1>1, <1>10, Bounds DEF In
  <2>3. e.artists \in [Ids -> ArtistRow \cup {NoRow}]
    BY <1>1, <1>11, Bounds DEF In
  <2>4. e.genres \in [Ids -> GenreRow \cup {NoRow}]
    BY <1>1, <1>12, Bounds DEF In
  <2>5. e.relation \in SUBSET (Media \X Ids) /\ e.last \in Ids
    BY <1>1 DEF Database
  <2>. QED  BY <1>1, <2>1, <2>2, <2>3, <2>4, <2>5 DEF Database
<1>14. Albums(e, {})
  BY <1>5, <1>6, <1>7, <1>10 DEF Albums, AlbumCounts
<1>15. Genres(e, held)
  BY <1>5, <1>6, <1>8, <1>12 DEF Genres, GenreCounts
<1>16. \A a : Listed(e, a) = Listed(d, a) /\ AlbumsOf(e, a) = AlbumsOf(d, a)
  BY <1>1, <1>10 DEF Listed, AlbumsOf
<1>17. Artists(e, held)
  BY <1>5, <1>11, <1>16 DEF Artists, ArtistCounts
<1>18. SpecialArtists(e)
  BY <1>5, <1>11, Bounds DEF SpecialArtists
<1>19. Agree(e)
  <2>. SUFFICES ASSUME NEW t \in Media PROVE Agrees(e, t)
    BY DEF Agree
  <2>1. Agrees(d, t)
    BY <1>5 DEF Agree
  <2>2. CASE Exists(d, t) /\ d.media[t].track
    <3>1. In(d.albums, d.media[t].album) /\ d.media[t].album \in Ids
      BY <1>5, <2>2, RowsAgree
    <3>2. /\ e.media[t].album = d.media[t].album /\ e.media[t].artist = d.media[t].artist
          /\ e.media[t].track /\ Exists(e, t)
          /\ e.albums[d.media[t].album].artist = d.albums[d.media[t].album].artist
          /\ In(e.albums, d.media[t].album)
      BY <1>4, <1>10, <2>2, <3>1
    <3>. QED  BY <1>1, <2>1, <2>2, <3>2 DEF Agrees
  <2>3. CASE ~(Exists(d, t) /\ d.media[t].track)
    <3>1. ~(Exists(e, t) /\ e.media[t].track)
      BY <1>4, <2>3
    <3>. QED  BY <1>1, <1>4, <2>1, <2>3, <3>1 DEF Agrees
  <2>. QED  BY <2>2, <2>3
<1>20. Fewer(d, e) /\ SamePlaces(d, e)
  BY <1>4, <1>10 DEF Fewer, SamePlaces
<1>21. Known(e)
  <2>1. Shrinks(d, e)
    BY <1>1, <1>4, <1>11, <1>12, <1>20 DEF Shrinks, FewerGenres
  <2>. QED  BY <1>5, <1>13, <2>1, KnownShrinks
<1>. QED  BY <1>1, <1>13, <1>14, <1>15, <1>17, <1>18, <1>19, <1>20, <1>21 DEF Keeps, Tables

-----------------------------------------------------------------------------
(* New rows.                                                               *)

LEMMA HeldMore ==
    ASSUME NEW d, NEW held, NEW more, Tables(d, held),
           \A i \in Ids : i \in held.artists => i \in more.artists,
           \A i \in Ids : i \in held.genres => i \in more.genres
    PROVE  Tables(d, more)
<1>1. Artists(d, more)
  BY DEF Tables, Artists
<1>2. Genres(d, more)
  BY DEF Tables, Genres
<1>. QED  BY <1>1, <1>2 DEF Tables

\* A media that is not a track yet.
LEMMA MediaComes ==
    ASSUME NEW d \in Database, NEW held, Tables(d, held), NEW m \in Media, ~Exists(d, m),
           NEW row \in MediaRow, ~row.track, row.album = 0, row.artist = 0, row.genre = 0,
           NEW e, e = [d EXCEPT !.media[m] = row]
    PROVE  Keeps(d, e, held) /\ \A t \in Media \ {m} : Exists(e, t) <=> Exists(d, t)
<1>1. row # NoRow
  BY CollectionAssumption
<1>2. /\ e \in Database /\ e.albums = d.albums /\ e.genres = d.genres /\ e.artists = d.artists
      /\ e.relation = d.relation /\ e.last = d.last /\ e.media = [d.media EXCEPT ![m] = row]
  BY DEF Database
<1>3. e.media[m] = row /\ \A t \in Media \ {m} : e.media[t] = d.media[t]
  BY <1>2 DEF Database
<1>4. ASSUME NEW i \in Ids
      PROVE  /\ Tracks(e, i) = Tracks(d, i) /\ Present(e, i) = Present(d, i)
             /\ InGenre(e, i) = InGenre(d, i) /\ PresentIn(e, i) = PresentIn(d, i)
  <2>1. i # 0
    BY Bounds
  <2>2. Tracks(e, i) = Tracks(d, i) /\ m \notin Tracks(d, i)
    BY <1>3, <2>1 DEF Tracks, Exists
  <2>3. InGenre(e, i) = InGenre(d, i) /\ m \notin InGenre(d, i)
    BY <1>3, <2>1 DEF InGenre, Exists
  <2>4. \A t \in Tracks(d, i) \cup InGenre(d, i) : e.media[t] = d.media[t]
    BY <1>3, <2>2, <2>3 DEF Tracks, InGenre
  <2>. QED  BY <2>2, <2>3, <2>4 DEF Present, PresentIn
<1>5. \A a : Listed(e, a) = Listed(d, a) /\ AlbumsOf(e, a) = AlbumsOf(d, a)
  BY <1>2 DEF Listed, AlbumsOf
<1>6. Artists(e, held) /\ SpecialArtists(e)
  BY <1>2, <1>5 DEF Tables, Artists, ArtistCounts, SpecialArtists
<1>7. Albums(e, {})
  BY <1>2, <1>4 DEF Tables, Albums, AlbumCounts
<1>8. Genres(e, held)
  BY <1>2, <1>4 DEF Tables, Genres, GenreCounts
<1>9. Agree(e)
  <2>1. ASSUME NEW t \in Media, t # m PROVE Agrees(e, t)
    <3>1. Agrees(d, t) /\ e.media[t] = d.media[t] /\ (Exists(e, t) <=> Exists(d, t))
      BY <1>3, <2>1 DEF Tables, Agree, Exists
    <3>. QED  BY <1>2, <3>1 DEF Agrees
  <2>2. Agrees(e, m)
    <3>1. \A a \in Ids : <<m, a>> \notin e.relation
      BY <1>2 DEF Tables, Agree, Agrees
    <3>. QED  BY <1>3, <3>1 DEF Agrees
  <2>. QED  BY <2>1, <2>2 DEF Agree
<1>10. Known(e)
  <2>1. Known(d) /\ d.last \in Nat
    BY Bounds DEF Tables, Database
  <2>. QED  BY <1>2, <1>3, <2>1 DEF Known, Exists
<1>11. Fewer(d, e)
  BY <1>2 DEF Fewer
<1>. QED  BY <1>2, <1>3, <1>6, <1>7, <1>8, <1>9, <1>10, <1>11 DEF Keeps, Tables, Exists

\* What an operation on the tables that gains rows guarantees.
Grows(d, e, held) ==
    /\ e \in Database /\ Tables(e, held) /\ Fewer(d, e) /\ Later(d, e) /\ SamePlaces(d, e)

LEMMA Next1 ==
    ASSUME NEW d \in Database, NEW i, i = d.last + 1, Known(d)
    PROVE  /\ d.last < i /\ d.last <= i /\ 2 < i
           /\ i \notin Special /\ i # 0
           /\ \A x \in Refs : x <= d.last => x <= i /\ x # i
<1>1. d.last \in Nat /\ 2 <= d.last
  BY Bounds DEF Known, Database
<1>. QED  BY <1>1, Bounds DEF Special, UnknownArtistID, VariousArtistID

LEMMA NewGenre ==
    ASSUME NEW d \in Database, NEW held, Tables(d, held), NEW i \in Ids, i = d.last + 1,
           NEW row \in GenreRow, row.nb_tracks = 0, row.is_present = 0,
           NEW e, e = [d EXCEPT !.last = i, !.genres[i] = row],
           i \in held.genres
    PROVE  Grows(d, e, held)
<1>1. row # NoRow
  BY CollectionAssumption
<1>2. /\ e \in Database /\ e.albums = d.albums /\ e.media = d.media /\ e.artists = d.artists
      /\ e.relation = d.relation /\ e.last = i /\ e.genres = [d.genres EXCEPT ![i] = row]
  BY DEF Database
<1>3. e.genres[i] = row /\ \A j \in Ids \ {i} : e.genres[j] = d.genres[j]
  BY <1>2 DEF Database
<1>4. Known(d)
  BY DEF Tables
<1>5. /\ d.last < i /\ d.last <= i /\ 2 < i
      /\ \A x \in Refs : x <= d.last => x <= i /\ x # i
  BY <1>4, Next1
<1>6. InGenre(d, i) = {}
  <2>1. ASSUME NEW m \in Media, Exists(d, m) PROVE d.media[m].genre # i
    <3>1. d.media[m].genre \in Refs /\ d.media[m].genre <= d.last
      BY <1>4, <2>1, Rows, MediaTypes DEF Known
    <3>. QED  BY <1>5, <3>1
  <2>. QED  BY <2>1 DEF InGenre
<1>7. \A j : /\ Tracks(e, j) = Tracks(d, j) /\ Present(e, j) = Present(d, j)
             /\ InGenre(e, j) = InGenre(d, j) /\ PresentIn(e, j) = PresentIn(d, j)
  BY <1>2 DEF Tracks, Present, InGenre, PresentIn, Exists
<1>8. GenreCounts(e, i)
  <2>1. InGenre(e, i) = {} /\ PresentIn(e, i) = {}
    BY <1>6, <1>7 DEF PresentIn
  <2>. QED  BY <1>3, <2>1, FS_EmptySet DEF GenreCounts
<1>9. Genres(e, held)
  <2>. SUFFICES ASSUME NEW j \in Ids, In(e.genres, j)
                PROVE  GenreCounts(e, j) /\ (j \notin held.genres => InGenre(e, j) # {})
    BY DEF Genres
  <2>1. CASE j = i
    BY <1>8, <2>1
  <2>2. CASE j # i
    BY <1>3, <1>7, <2>2 DEF Tables, Genres, GenreCounts, In
  <2>. QED  BY <2>1, <2>2
<1>10. Albums(e, {})
  BY <1>2, <1>7 DEF Tables, Albums, AlbumCounts
<1>11. \A a : Listed(e, a) = Listed(d, a) /\ AlbumsOf(e, a) = AlbumsOf(d, a)
  BY <1>2 DEF Listed, AlbumsOf
<1>12. Artists(e, held) /\ SpecialArtists(e)
  BY <1>2, <1>11 DEF Tables, Artists, ArtistCounts, SpecialArtists
<1>13. Agree(e)
  BY <1>2 DEF Tables, Agree, Agrees, Exists
<1>14. Known(e)
  <2>1. \A x \in Refs : x <= d.last => x <= i
    BY <1>5
  <2>2. ASSUME NEW m \in Media, Exists(e, m)
        PROVE  /\ e.media[m].album <= e.last /\ e.media[m].artist <= e.last
               /\ e.media[m].genre <= e.last
    <3>1. e.media[m] = d.media[m] /\ d.media[m] \in MediaRow /\ Exists(d, m)
      BY <1>2, <2>2, Rows DEF Exists
    <3>. QED  BY <1>2, <1>4, <2>1, <3>1, MediaTypes DEF Known
  <2>3. ASSUME NEW j \in Ids, e.last < j
        PROVE  ~In(e.albums, j) /\ ~In(e.artists, j) /\ ~In(e.genres, j)
    <3>1. d.last < j /\ j # i
      BY <1>2, <1>5, <2>3, Bounds DEF Database
    <3>. QED  BY <1>2, <1>3, <1>4, <3>1 DEF Known, In
  <2>4. ASSUME NEW j \in Ids, In(e.albums, j) PROVE e.albums[j].artist <= e.last
    BY <1>2, <1>4, <2>1, <2>4, Rows DEF Known, AlbumRow, Refs
  <2>5. \A r \in e.relation : r[2] <= e.last
    <3>1. ASSUME NEW r \in d.relation PROVE r[2] \in Refs /\ r[2] <= d.last
      BY <1>4 DEF Known, Database, Refs
    <3>. QED  BY <1>2, <2>1, <3>1
  <2>6. 2 <= e.last
    BY <1>2, <1>5, Bounds
  <2>. QED  BY <2>2, <2>3, <2>4, <2>5, <2>6 DEF Known
<1>15. Fewer(d, e) /\ Later(d, e) /\ SamePlaces(d, e)
  BY <1>2, <1>5 DEF Fewer, Later, SamePlaces, Exists
<1>. QED  BY <1>2, <1>9, <1>10, <1>12, <1>13, <1>14, <1>15 DEF Grows, Tables

LEMMA NewArtistRow ==
    ASSUME NEW d \in Database, NEW held, Tables(d, held), NEW i \in Ids, i = d.last + 1,
           NEW row \in ArtistRow, row.nb_tracks = 0, row.nb_albums = 0,
           NEW e, e = [d EXCEPT !.last = i, !.artists[i] = row],
           i \in held.artists
    PROVE  Grows(d, e, held)
<1>1. row # NoRow
  BY CollectionAssumption
<1>2. /\ e \in Database /\ e.albums = d.albums /\ e.media = d.media /\ e.genres = d.genres
      /\ e.relation = d.relation /\ e.last = i /\ e.artists = [d.artists EXCEPT ![i] = row]
  BY DEF Database
<1>3. e.artists[i] = row /\ \A j \in Ids \ {i} : e.artists[j] = d.artists[j]
  BY <1>2 DEF Database
<1>4. Known(d)
  BY DEF Tables
<1>5. /\ d.last < i /\ d.last <= i /\ 2 < i /\ i # 0
      /\ \A x \in Refs : x <= d.last => x <= i /\ x # i
  BY <1>4, Next1
<1>6. Listed(d, i) = {} /\ AlbumsOf(d, i) = {}
  <2>1. ASSUME NEW r \in d.relation PROVE r[2] # i
    <3>1. r[2] \in Refs /\ r[2] <= d.last
      BY <1>4 DEF Known, Database, Refs
    <3>. QED  BY <1>5, <3>1
  <2>2. ASSUME NEW j \in Ids, In(d.albums, j) PROVE d.albums[j].artist # i
    <3>1. d.albums[j].artist \in Refs /\ d.albums[j].artist <= d.last
      BY <1>4, <2>2, Rows DEF Known, AlbumRow, Refs
    <3>. QED  BY <1>5, <3>1
  <2>. QED  BY <2>1, <2>2 DEF Listed, AlbumsOf
<1>7. \A j : /\ Tracks(e, j) = Tracks(d, j) /\ Present(e, j) = Present(d, j)
             /\ InGenre(e, j) = InGenre(d, j) /\ PresentIn(e, j) = PresentIn(d, j)
  BY <1>2 DEF Tracks, Present, InGenre, PresentIn, Exists
<1>8. \A a : Listed(e, a) = Listed(d, a) /\ AlbumsOf(e, a) = AlbumsOf(d, a)
  BY <1>2 DEF Listed, AlbumsOf
<1>9. ArtistCounts(e, i)
  BY <1>3, <1>6, <1>8, FS_EmptySet DEF ArtistCounts
<1>10. Artists(e, held)
  <2>. SUFFICES ASSUME NEW j \in Ids, In(e.artists, j)
                PROVE  /\ ArtistCounts(e, j)
                       /\ j \notin Special \cup held.artists
                             => Listed(e, j) # {} \/ AlbumsOf(e, j) # {}
    BY DEF Artists
  <2>1. CASE j = i
    BY <1>9, <2>1
  <2>2. CASE j # i
    BY <1>3, <1>8, <2>2 DEF Tables, Artists, ArtistCounts, In
  <2>. QED  BY <2>1, <2>2
<1>11. SpecialArtists(e)
  <2>. SUFFICES ASSUME NEW a \in Special PROVE In(e.artists, a)
    BY DEF SpecialArtists
  <2>1. In(d.artists, a) /\ a \in Ids
    BY Bounds DEF Tables, SpecialArtists
  <2>. QED  BY <1>1, <1>3, <2>1 DEF In
<1>12. Genres(e, held)
  BY <1>2, <1>7 DEF Tables, Genres, GenreCounts
<1>13. Albums(e, {})
  BY <1>2, <1>7 DEF Tables, Albums, AlbumCounts
<1>14. Agree(e)
  BY <1>2 DEF Tables, Agree, Agrees, Exists
<1>15. Known(e)
  <2>1. \A x \in Refs : x <= d.last => x <= i
    BY <1>5
  <2>2. ASSUME NEW m \in Media, Exists(e, m)
        PROVE  /\ e.media[m].album <= e.last /\ e.media[m].artist <= e.last
               /\ e.media[m].genre <= e.last
    <3>1. e.media[m] = d.media[m] /\ d.media[m] \in MediaRow /\ Exists(d, m)
      BY <1>2, <2>2, Rows DEF Exists
    <3>. QED  BY <1>2, <1>4, <2>1, <3>1, MediaTypes DEF Known
  <2>3. ASSUME NEW j \in Ids, e.last < j
        PROVE  ~In(e.albums, j) /\ ~In(e.artists, j) /\ ~In(e.genres, j)
    <3>1. d.last < j /\ j # i
      BY <1>2, <1>5, <2>3, Bounds DEF Database
    <3>. QED  BY <1>2, <1>3, <1>4, <3>1 DEF Known, In
  <2>4. ASSUME NEW j \in Ids, In(e.albums, j) PROVE e.albums[j].artist <= e.last
    BY <1>2, <1>4, <2>1, <2>4, Rows DEF Known, AlbumRow, Refs
  <2>5. \A r \in e.relation : r[2] <= e.last
    <3>1. ASSUME NEW r \in d.relation PROVE r[2] \in Refs /\ r[2] <= d.last
      BY <1>4 DEF Known, Database, Refs
    <3>. QED  BY <1>2, <2>1, <3>1
  <2>6. 2 <= e.last
    BY <1>2, <1>5, Bounds
  <2>. QED  BY <2>2, <2>3, <2>4, <2>5, <2>6 DEF Known
<1>16. Fewer(d, e) /\ Later(d, e) /\ SamePlaces(d, e)
  BY <1>2, <1>5 DEF Fewer, Later, SamePlaces, Exists
<1>. QED  BY <1>2, <1>10, <1>11, <1>12, <1>13, <1>14, <1>15, <1>16 DEF Grows, Tables

\* What forceRescan leaves of the tables.
Emptied(d) ==
    [d EXCEPT
        !.media = [m \in Media |->
                      IF @[m] = NoRow THEN NoRow
                      ELSE [@[m] EXCEPT !.track = FALSE, !.album = 0, !.artist = 0, !.genre = 0]],
        !.genres = NoRows, !.albums = NoRows, !.artists = DefaultArtists,
        !.relation = {}]

LEMMA Default ==
    /\ DefaultArtists \in [Ids -> ArtistRow \cup {NoRow}]
    /\ NoRows \in [Ids -> {NoRow}]
    /\ \A a \in Ids : In(DefaultArtists, a) <=> a \in Special
    /\ \A a \in Special : DefaultArtists[a].nb_tracks = 0 /\ DefaultArtists[a].nb_albums = 0
    /\ \A i \in Ids : ~In(NoRows, i)
<1>1. NewArtist(NoName) \in ArtistRow
  BY DEF NewArtist, ArtistRow, ArtistNames
<1>2. NewArtist(NoName) # NoRow
  BY <1>1, CollectionAssumption
<1>3. NewArtist(NoName).nb_tracks = 0 /\ NewArtist(NoName).nb_albums = 0
  BY DEF NewArtist
<1>. QED  BY <1>1, <1>2, <1>3, Bounds DEF DefaultArtists, NoRows, In

\* No row but those of the special artists, and no media filed.
LEMMA NothingFiled ==
    ASSUME NEW e \in Database, e.genres = NoRows, e.albums = NoRows,
           e.artists = DefaultArtists, e.relation = {}, 2 <= e.last,
           \A m \in Media : Exists(e, m) =>
               /\ ~e.media[m].track /\ e.media[m].album = 0
               /\ e.media[m].artist = 0 /\ e.media[m].genre = 0,
           NEW held
    PROVE  Tables(e, held)
<1>1. SpecialArtists(e)
  BY Default, Bounds DEF SpecialArtists
<1>2. Artists(e, held)
  <2>1. \A a : Listed(e, a) = {} /\ AlbumsOf(e, a) = {}
    BY Default DEF Listed, AlbumsOf
  <2>. QED  BY <2>1, Default, FS_EmptySet DEF Artists, ArtistCounts
<1>3. Albums(e, {}) /\ Genres(e, held)
  BY Default DEF Albums, Genres
<1>4. Agree(e)
  BY DEF Agree, Agrees
<1>5. Known(e)
  <2>1. e.last \in Nat /\ \A i \in Ids : i \in Nat
    BY Bounds DEF Database
  <2>2. \A i \in Special : i <= 2
    BY DEF Special, UnknownArtistID, VariousArtistID
  <2>3. ASSUME NEW i \in Ids, e.last < i PROVE i \notin Special
    <3>1. i \in Nat /\ 2 < i
      BY <2>1, <2>3
    <3>. QED  BY <2>2, <3>1
  <2>. QED  BY <2>1, <2>3, Default DEF Known
<1>. QED  BY <1>1, <1>2, <1>3, <1>4, <1>5 DEF Tables

LEMMA AllEmptied ==
    ASSUME NEW d \in Database, NEW held, Tables(d, held), NEW e, e = Emptied(d)
    PROVE  Keeps(d, e, held) /\ SamePlaces(d, e)
<1>. DEFINE Row(m) == [d.media[m] EXCEPT !.track = FALSE, !.album = 0, !.artist = 0,
                                         !.genre = 0]
<1>1. /\ e = [d EXCEPT !.media = e.media, !.genres = NoRows, !.albums = NoRows,
                       !.artists = DefaultArtists, !.relation = {}]
      /\ e.media = [m \in Media |-> IF d.media[m] = NoRow THEN NoRow ELSE Row(m)]
      /\ e.genres = NoRows /\ e.albums = NoRows /\ e.artists = DefaultArtists
      /\ e.relation = {} /\ e.last = d.last
  BY DEF Emptied, Database
<1>2. ASSUME NEW m \in Media, Exists(d, m)
      PROVE  /\ Row(m) \in MediaRow /\ Row(m) # NoRow
             /\ Row(m).track = FALSE /\ Row(m).album = 0 /\ Row(m).artist = 0 /\ Row(m).genre = 0
  <2>1. d.media[m] \in MediaRow
    BY <1>2, Rows
  <2>. QED  BY <2>1, CollectionAssumption DEF MediaRow, Refs
<1>. HIDE DEF Row
<1>3. e.media \in [Media -> MediaRow \cup {NoRow}]
  <2>1. ASSUME NEW m \in Media
        PROVE  (IF d.media[m] = NoRow THEN NoRow ELSE Row(m)) \in MediaRow \cup {NoRow}
    BY <1>2 DEF Exists
  <2>2. e.media = [m \in Media |-> IF d.media[m] = NoRow THEN NoRow ELSE Row(m)]
    BY <1>1
  <2>. QED  BY <2>1, <2>2
<1>4. e \in Database
  <2>1. NoRows \in [Ids -> AlbumRow \cup {NoRow}] /\ NoRows \in [Ids -> GenreRow \cup {NoRow}]
    BY DEF NoRows
  <2>. QED  BY <1>1, <1>3, <2>1, Default DEF Database
<1>5. SamePlaces(d, e)
  BY <1>1, <1>2 DEF SamePlaces, Exists
<1>6. \A m \in Media : Exists(e, m) =>
          /\ ~e.media[m].track /\ e.media[m].album = 0
          /\ e.media[m].artist = 0 /\ e.media[m].genre = 0
  BY <1>1, <1>2, ZenonT(30) DEF Exists
<1>7. 2 <= e.last
  BY <1>1 DEF Tables, Known
<1>8. Tables(e, held)
  BY <1>1, <1>4, <1>6, <1>7, NothingFiled
<1>9. Fewer(d, e)
  BY <1>1, Default, ZenonT(30) DEF Fewer
<1>. QED  BY <1>1, <1>4, <1>5, <1>8, <1>9 DEF Keeps

-----------------------------------------------------------------------------
(* The transaction of parseAudioFile.                                      *)

\* The tables once there is an album to file the media in, maybe without tracks yet.
Ready(d, held, i) ==
    /\ SpecialArtists(d) /\ Artists(d, held)
    /\ Albums(d, {i}) /\ Genres(d, held)
    /\ Agree(d) /\ Known(d) /\ In(d.albums, i)

\* No artist but a null one is needed by a media only.
AllSpare(d) == \A a \in Ids : Spare(d, a)

LEMMA SpareArtists ==
    ASSUME NEW d \in Database,
           \A t \in Media : Exists(d, t) =>
               d.media[t].artist = 0 \/ <<t, d.media[t].artist>> \in d.relation
    PROVE  AllSpare(d)
<1>. SUFFICES ASSUME NEW a \in Ids, NEW t \in Media, Exists(d, t), d.media[t].artist = a
              PROVE  Listed(d, a) # {}
  BY DEF AllSpare, Spare
<1>1. <<t, a>> \in d.relation
  BY Bounds
<1>2. <<t, a>> \in Listed(d, a)
  BY <1>1 DEF Listed
<1>. QED  BY <1>2

\* An album is inserted, and its artist counts it.
Opened(d, w, i, artist) ==
    /\ w \in Database
    /\ w.media = d.media /\ w.relation = d.relation /\ w.genres = d.genres /\ w.last = i
    /\ \A j \in Ids \ {i} : w.albums[j] = d.albums[j]
    /\ w.albums[i].artist = artist

LEMMA AlbumOpened ==
    ASSUME NEW d \in Database, NEW held, Tables(d, held), NEW i \in Ids, i = d.last + 1,
           NEW row \in AlbumRow, row.nb_tracks = 0, row.is_present = 0,
           row.artist = 0 \/ In(d.artists, row.artist),
           NEW w, w = UpdateArtist([d EXCEPT !.albums[i] = row, !.last = i], row.artist, 0, 0, 1)
    PROVE  Opened(d, w, i, row.artist) /\ Ready(w, held, i)
<1>. DEFINE a == row.artist
            f == [d EXCEPT !.albums[i] = row, !.last = i]
            none == 0
            one == 1
<1>1. row # NoRow /\ a \in Refs
  BY CollectionAssumption DEF AlbumRow
<1>2. /\ f \in Database /\ f.media = d.media /\ f.genres = d.genres /\ f.artists = d.artists
      /\ f.relation = d.relation /\ f.last = i /\ f.albums = [d.albums EXCEPT ![i] = row]
  BY DEF Database
<1>3. f.albums[i] = row /\ \A j \in Ids \ {i} : f.albums[j] = d.albums[j]
  BY <1>2 DEF Database
<1>4. w = UpdateArtist(f, a, none, none, one)
  OBVIOUS
<1>5. Known(d) /\ Agree(d) /\ Artists(d, held) /\ Albums(d, {}) /\ Genres(d, held)
      /\ SpecialArtists(d)
  BY DEF Tables
<1>6. /\ d.last < i /\ d.last <= i /\ 2 < i /\ i # 0
      /\ \A x \in Refs : x <= d.last => x <= i /\ x # i
  BY <1>5, Next1
<1>7. ~In(d.albums, i) /\ In(f.albums, i)
  BY <1>1, <1>3, <1>5, <1>6 DEF Known, In
<1>. HIDE DEF f
<1>8. \A b : Listed(f, b) = Listed(d, b)
  BY <1>2 DEF Listed
<1>9. \A b \in Ids \ {a} : AlbumsOf(f, b) = AlbumsOf(d, b)
  BY <1>3, <1>7 DEF AlbumsOf, In
<1>10. AlbumsOf(f, a) = AlbumsOf(d, a) \cup {i} /\ i \notin AlbumsOf(d, a)
  BY <1>3, <1>7 DEF AlbumsOf, In
<1>11. /\ OnlyArtists(f, w)
       /\ \A b \in Ids \ {a} : w.artists[b] = f.artists[b]
       /\ In(w.artists, a) => In(d.artists, a) /\ ArtistCounts(w, a)
       /\ In(d.artists, a) => In(w.artists, a)
  <2>1. CASE a = 0
    <3>1. w = f
      BY <1>4, <2>1 DEF UpdateArtist, In
    <3>. QED  BY <1>2, <2>1, <3>1 DEF OnlyArtists, In
  <2>2. CASE a # 0
    <3>1. a \in Ids /\ In(d.artists, a)
      BY <1>1, <2>2 DEF Refs
    <3>2. AllSpare(f)
      <4>1. \A t \in Media : Exists(d, t) =>
                d.media[t].artist = 0 \/ <<t, d.media[t].artist>> \in d.relation
        BY <1>5, RowsAgree
      <4>2. \A t \in Media : Exists(f, t) =>
                f.media[t].artist = 0 \/ <<t, f.media[t].artist>> \in f.relation
        BY <1>2, <4>1 DEF Exists
      <4>. QED  BY <1>2, <4>2, SpareArtists
    <3>3. In(f.artists, a) =>
              /\ f.artists[a].nb_tracks + none = Cardinality(Listed(f, a))
              /\ f.artists[a].nb_albums + one = Cardinality(AlbumsOf(f, a))
      <4>1. ArtistCounts(d, a)
        BY <1>5, <3>1 DEF Artists
      <4>2. Cardinality(AlbumsOf(f, a)) = Cardinality(AlbumsOf(d, a)) + 1
        BY <1>10, Countable, CountPlus
      <4>3. Cardinality(AlbumsOf(d, a)) \in Nat /\ Cardinality(Listed(d, a)) \in Nat
        BY Countable, Count
      <4>. HIDE DEF a
      <4>. QED  BY <1>2, <1>8, <4>1, <4>2, <4>3 DEF ArtistCounts
    <3>4. none \in Int /\ one \in Int /\ Spare(f, a)
      BY <3>1, <3>2 DEF AllSpare
    <3>5. Needed(f, a)
      BY <1>10 DEF Needed
    <3>6. /\ OnlyArtists(f, w)
          /\ \A b \in Ids \ {a} : w.artists[b] = f.artists[b]
          /\ In(w.artists, a) <=> In(f.artists, a) /\ Needed(f, a)
          /\ In(w.artists, a) => ArtistCounts(w, a)
      <4>1. a \in Refs /\ f \in Database
        BY <1>1, <1>2
      <4>. HIDE DEF a, none, one
      <4>. QED  BY <1>4, <3>3, <3>4, <4>1, ArtistUpdated
    <3>. QED  BY <1>2, <3>5, <3>6
  <2>. QED  BY <2>1, <2>2
<1>12. \A b : Listed(w, b) = Listed(f, b) /\ AlbumsOf(w, b) = AlbumsOf(f, b)
  BY <1>11 DEF OnlyArtists, Listed, AlbumsOf
<1>13. Opened(d, w, i, a)
  BY <1>2, <1>3, <1>11 DEF Opened, OnlyArtists
<1>14. In(w.albums, i) /\ w.albums[i] = row
  BY <1>3, <1>7, <1>11 DEF OnlyArtists, In
<1>15. Artists(w, held)
  <2>1. \A b \in Ids \ {a} : /\ Listed(w, b) = Listed(d, b) /\ AlbumsOf(w, b) = AlbumsOf(d, b)
                            /\ w.artists[b] = d.artists[b]
    BY <1>2, <1>8, <1>9, <1>11, <1>12
  <2>2. In(w.artists, a) => ArtistCounts(w, a) /\ Needed(w, a)
    BY <1>10, <1>11, <1>12 DEF Needed
  <2>3. w \in Database
    BY <1>13 DEF Opened
  <2>. HIDE DEF a
  <2>. QED  BY <1>1, <1>5, <2>1, <2>2, <2>3, ArtistsStep
<1>16. SpecialArtists(w)
  BY <1>2, <1>5, <1>11, Bounds DEF SpecialArtists, In
<1>17. \A j : /\ Tracks(w, j) = Tracks(d, j) /\ Present(w, j) = Present(d, j)
              /\ InGenre(w, j) = InGenre(d, j) /\ PresentIn(w, j) = PresentIn(d, j)
  BY <1>13, SMTT(20) DEF Opened, Tracks, Present, InGenre, PresentIn, Exists
<1>18. Tracks(d, i) = {}
  <2>1. ASSUME NEW m \in Media, Exists(d, m) PROVE d.media[m].album # i
    <3>1. d.media[m].album \in Refs /\ d.media[m].album <= d.last
      BY <1>5, <2>1, Rows, MediaTypes DEF Known
    <3>. QED  BY <1>6, <3>1
  <2>. QED  BY <2>1 DEF Tracks
<1>19. Albums(w, {i})
  <2>. SUFFICES ASSUME NEW j \in Ids, In(w.albums, j)
                PROVE  AlbumCounts(w, j) /\ (j \notin {i} => Tracks(w, j) # {})
    BY DEF Albums
  <2>1. CASE j = i
    <3>1. Tracks(w, i) = {} /\ Present(w, i) = {}
      BY <1>17, <1>18 DEF Present
    <3>. QED  BY <1>14, <2>1, <3>1, FS_EmptySet DEF AlbumCounts
  <2>2. CASE j # i
    <3>1. w.albums[j] = d.albums[j]
      BY <1>13, <2>2 DEF Opened
    <3>. QED  BY <1>5, <1>17, <2>2, <3>1 DEF Albums, AlbumCounts, In
  <2>. QED  BY <2>1, <2>2
<1>20. Genres(w, held)
  BY <1>5, <1>13, <1>17 DEF Opened, Genres, GenreCounts
<1>21. Agree(w)
  <2>. SUFFICES ASSUME NEW t \in Media PROVE Agrees(w, t)
    BY DEF Agree
  <2>1. Agrees(d, t) /\ w.media = d.media /\ w.relation = d.relation
    BY <1>5, <1>13 DEF Agree, Opened
  <2>2. CASE Exists(d, t) /\ d.media[t].track
    <3>1. In(d.albums, d.media[t].album) /\ d.media[t].album \in Ids
      BY <1>5, <2>2, RowsAgree
    <3>2. w.albums[d.media[t].album] = d.albums[d.media[t].album]
      BY <1>7, <1>13, <3>1 DEF Opened
    <3>. QED  BY <2>1, <2>2, <3>1, <3>2, SMTT(20) DEF Agrees, Exists, In
  <2>3. CASE ~(Exists(d, t) /\ d.media[t].track)
    BY <2>1, <2>3 DEF Agrees, Exists
  <2>. QED  BY <2>2, <2>3
<1>22. Known(w)
  <2>1. \A x \in Refs : x <= d.last => x <= i
    BY <1>6
  <2>2. w.last = i
    BY <1>13 DEF Opened
  <2>3. ASSUME NEW m \in Media, Exists(w, m)
        PROVE  /\ w.media[m].album <= w.last /\ w.media[m].artist <= w.last
               /\ w.media[m].genre <= w.last
    <3>1. w.media[m] = d.media[m] /\ d.media[m] \in MediaRow /\ Exists(d, m)
      BY <1>13, <2>3, Rows DEF Opened, Exists
    <3>. QED  BY <1>5, <2>1, <2>2, <3>1, MediaTypes DEF Known
  <2>4. \A j \in Ids : d.last < j => ~In(w.artists, j)
    BY <1>2, <1>5, <1>11 DEF Known, In
  <2>5. ASSUME NEW j \in Ids, w.last < j
        PROVE  ~In(w.albums, j) /\ ~In(w.artists, j) /\ ~In(w.genres, j)
    <3>1. d.last < j /\ j # i
      BY <1>6, <2>2, <2>5, Bounds DEF Database
    <3>2. w.albums[j] = d.albums[j] /\ w.genres = d.genres
      BY <1>13, <3>1 DEF Opened
    <3>. QED  BY <1>5, <2>4, <3>1, <3>2 DEF Known, In
  <2>6. ASSUME NEW j \in Ids, In(w.albums, j) PROVE w.albums[j].artist <= w.last
    <3>1. CASE j = i
      <4>1. a = 0 \/ (a \in Ids /\ In(d.artists, a))
        BY <1>1 DEF Refs
      <4>2. a <= d.last
        <5>1. d.last \in Nat /\ 0 <= d.last
          BY Bounds DEF Database
        <5>2. a \in Ids => a \in Nat
          BY Bounds
        <5>. QED  BY <1>5, <4>1, <5>1, <5>2 DEF Known
      <4>. QED  BY <1>1, <1>14, <2>1, <2>2, <3>1, <4>2
    <3>2. CASE j # i
      <4>1. w.albums[j] = d.albums[j] /\ In(d.albums, j)
        BY <1>13, <2>6, <3>2 DEF Opened, In
      <4>. QED  BY <1>5, <2>1, <2>2, <4>1, Rows DEF Known, AlbumRow, Refs
    <3>. QED  BY <3>1, <3>2
  <2>7. \A r \in w.relation : r[2] <= w.last
    <3>1. ASSUME NEW r \in d.relation PROVE r[2] \in Refs /\ r[2] <= d.last
      BY <1>5 DEF Known, Database, Refs
    <3>. QED  BY <1>13, <2>1, <2>2, <3>1 DEF Opened
  <2>8. 2 <= w.last
    BY <1>6, <2>2, Bounds
  <2>. QED  BY <2>3, <2>5, <2>6, <2>7, <2>8 DEF Known
<1>. QED  BY <1>13, <1>14, <1>15, <1>16, <1>19, <1>20, <1>21, <1>22 DEF Ready

\* An album is given to another artist.
Given(g, e, i, a) ==
    /\ OnlyAlbums(g, e)
    /\ \A j \in Ids \ {i} : e.albums[j] = g.albums[j]
    /\ In(e.albums, i) /\ e.albums[i].artist = a
    /\ e.albums[i].nb_tracks = g.albums[i].nb_tracks
    /\ e.albums[i].is_present = g.albums[i].is_present
    /\ \A b \in Ids : In(e.artists, b) => In(g.artists, b)

LEMMA AlbumGiven ==
    ASSUME NEW g \in Database, NEW held, Artists(g, held), SpecialArtists(g), AllSpare(g),
           NEW i \in Ids, In(g.albums, i), NEW a \in Ids, a # g.albums[i].artist,
           NEW e, e = setAlbumArtist(g, i, a)
    PROVE  Given(g, e, i, a) /\ Artists(e, held) /\ SpecialArtists(e)
<1>. DEFINE old == g.albums[i].artist
            row == [g.albums[i] EXCEPT !.artist = a]
            h == [g EXCEPT !.albums[i].artist = a]
            none == 0
            one == 1
            less == -1
            u == UpdateArtist(h, a, none, none, one)
<1>1. g.albums[i] \in AlbumRow /\ old \in Refs
  BY Rows DEF AlbumRow, Refs
<1>2. /\ row \in AlbumRow /\ row.artist = a /\ row.nb_tracks = g.albums[i].nb_tracks
      /\ row.is_present = g.albums[i].is_present /\ row # NoRow
  BY <1>1, CollectionAssumption DEF AlbumRow, Refs
<1>3. /\ h \in Database /\ h.media = g.media /\ h.genres = g.genres /\ h.artists = g.artists
      /\ h.relation = g.relation /\ h.last = g.last /\ h.albums = [g.albums EXCEPT ![i] = row]
  BY <1>2 DEF Database
<1>4. e = UpdateArtist(u, old, none, none, less)
  BY DEF setAlbumArtist
<1>5. h.albums[i] = row /\ \A j \in Ids \ {i} : h.albums[j] = g.albums[j]
  BY <1>3 DEF Database
<1>6. u = UpdateArtist(h, a, none, none, one)
  OBVIOUS
<1>. HIDE DEF h, u, row
<1>7. none \in Int /\ one \in Int /\ less \in Int /\ a # old /\ a \in Refs
  BY DEF Refs
<1>8. \A b : Listed(h, b) = Listed(g, b)
  BY <1>3 DEF Listed
<1>9. /\ \A b \in Ids \ {a, old} : AlbumsOf(h, b) = AlbumsOf(g, b)
      /\ AlbumsOf(h, a) = AlbumsOf(g, a) \cup {i} /\ i \notin AlbumsOf(g, a)
      /\ AlbumsOf(h, old) = AlbumsOf(g, old) \ {i} /\ i \in AlbumsOf(g, old)
  BY <1>2, <1>5, <1>7 DEF AlbumsOf, In
<1>10. \A b \in Ids : Spare(h, b)
  BY <1>3, <1>8 DEF AllSpare, Spare, Exists
<1>11. In(h.artists, a) =>
           /\ h.artists[a].nb_tracks + none = Cardinality(Listed(h, a))
           /\ h.artists[a].nb_albums + one = Cardinality(AlbumsOf(h, a))
  <2>. SUFFICES ASSUME In(h.artists, a)
                PROVE  /\ h.artists[a].nb_tracks + none = Cardinality(Listed(h, a))
                       /\ h.artists[a].nb_albums + one = Cardinality(AlbumsOf(h, a))
    OBVIOUS
  <2>1. ArtistCounts(g, a)
    BY <1>3 DEF Artists
  <2>2. Cardinality(AlbumsOf(h, a)) = Cardinality(AlbumsOf(g, a)) + 1
    BY <1>9, Countable, CountPlus
  <2>3. Cardinality(AlbumsOf(g, a)) \in Nat /\ Cardinality(Listed(g, a)) \in Nat
    BY Countable, Count
  <2>. QED  BY <1>3, <1>8, <2>1, <2>2, <2>3 DEF ArtistCounts
<1>12. In(h.artists, old) =>
           /\ h.artists[old].nb_tracks + none = Cardinality(Listed(h, old))
           /\ h.artists[old].nb_albums + less = Cardinality(AlbumsOf(h, old))
  <2>. SUFFICES ASSUME In(h.artists, old)
                PROVE  /\ h.artists[old].nb_tracks + none = Cardinality(Listed(h, old))
                       /\ h.artists[old].nb_albums + less = Cardinality(AlbumsOf(h, old))
    OBVIOUS
  <2>1. ArtistCounts(g, old)
    BY <1>1, <1>3 DEF Artists, In, Refs
  <2>2. Cardinality(AlbumsOf(h, old)) = Cardinality(AlbumsOf(g, old)) - 1
    BY <1>9, Countable, CountMinus
  <2>3. Cardinality(AlbumsOf(g, old)) \in Nat /\ Cardinality(Listed(g, old)) \in Nat
    BY Countable, Count
  <2>. HIDE DEF old
  <2>. QED  BY <1>3, <1>8, <2>1, <2>2, <2>3 DEF ArtistCounts
<1>. HIDE DEF none, one, less, old
<1>13. /\ OnlyArtists(h, u)
       /\ \A b \in Ids \ {a} : u.artists[b] = h.artists[b]
       /\ In(u.artists, a) <=> In(h.artists, a) /\ Needed(h, a)
       /\ In(u.artists, a) => ArtistCounts(u, a)
  BY <1>3, <1>6, <1>7, <1>10, <1>11, ArtistUpdated
<1>14. \A b : Listed(u, b) = Listed(h, b) /\ AlbumsOf(u, b) = AlbumsOf(h, b)
  BY <1>13 DEF OnlyArtists, Listed, AlbumsOf
<1>15. u \in Database /\ u.media = h.media /\ u.albums = h.albums
  BY <1>13 DEF OnlyArtists
<1>16. /\ OnlyArtists(u, e)
       /\ \A b \in Ids \ {old} : e.artists[b] = u.artists[b]
       /\ In(e.artists, old) => In(u.artists, old) /\ Needed(u, old) /\ ArtistCounts(e, old)
       /\ In(u.artists, old) /\ Needed(u, old) => In(e.artists, old)
  <2>1. CASE old = 0
    <3>1. e = u
      BY <1>4, <2>1 DEF UpdateArtist, In
    <3>. QED  BY <1>15, <2>1, <3>1 DEF OnlyArtists, In
  <2>2. CASE old # 0
    <3>1. old \in Ids
      BY <1>1, <2>2 DEF Refs
    <3>2. Spare(u, old)
      BY <1>10, <1>14, <1>15, <3>1 DEF Spare, Exists
    <3>3. In(u.artists, old) =>
              /\ u.artists[old].nb_tracks + none = Cardinality(Listed(u, old))
              /\ u.artists[old].nb_albums + less = Cardinality(AlbumsOf(u, old))
      BY <1>7, <1>12, <1>13, <1>14, <3>1 DEF In
    <3>. QED  BY <1>1, <1>4, <1>7, <1>15, <3>2, <3>3, ArtistUpdated
  <2>. QED  BY <2>1, <2>2
<1>17. \A b : Listed(e, b) = Listed(h, b) /\ AlbumsOf(e, b) = AlbumsOf(h, b)
  BY <1>14, <1>16 DEF OnlyArtists, Listed, AlbumsOf
<1>18. OnlyAlbums(g, e) /\ e.albums = h.albums
  BY <1>3, <1>13, <1>16 DEF OnlyAlbums, OnlyArtists
<1>19. \A b \in Ids \ {a, old} : e.artists[b] = g.artists[b]
  BY <1>3, <1>13, <1>16
<1>20. In(e.artists, a) => In(g.artists, a) /\ ArtistCounts(e, a) /\ AlbumsOf(e, a) # {}
  <2>1. e.artists[a] = u.artists[a]
    BY <1>7, <1>16
  <2>. QED  BY <1>3, <1>9, <1>13, <1>14, <1>17, <2>1 DEF In, ArtistCounts
<1>21. old \in Ids /\ In(e.artists, old) =>
           In(g.artists, old) /\ ArtistCounts(e, old) /\ Needed(e, old)
  <2>1. Needed(e, old) <=> Needed(u, old)
    BY <1>14, <1>17 DEF Needed
  <2>2. old \in Ids => u.artists[old] = g.artists[old]
    BY <1>3, <1>7, <1>13
  <2>. QED  BY <1>16, <2>1, <2>2 DEF In
<1>22. Artists(e, held)
  <2>. SUFFICES ASSUME NEW b \in Ids, In(e.artists, b)
                PROVE  /\ ArtistCounts(e, b)
                       /\ b \notin Special \cup held.artists
                             => Listed(e, b) # {} \/ AlbumsOf(e, b) # {}
    BY DEF Artists
  <2>1. CASE b = a
    BY <1>20, <2>1
  <2>2. CASE b = old
    BY <1>21, <2>2 DEF Needed
  <2>3. CASE b \notin {a, old}
    <3>1. /\ e.artists[b] = g.artists[b] /\ Listed(e, b) = Listed(g, b)
          /\ AlbumsOf(e, b) = AlbumsOf(g, b)
      BY <1>8, <1>9, <1>17, <1>19, <2>3
    <3>. QED  BY <3>1 DEF Artists, ArtistCounts, In
  <2>. QED  BY <2>1, <2>2, <2>3
<1>23. ASSUME NEW b \in Ids, In(e.artists, b) PROVE In(g.artists, b)
  <2>1. CASE b \in {a, old}
    BY <1>20, <1>21, <1>23, <2>1
  <2>2. CASE b \notin {a, old}
    BY <1>19, <1>23, <2>2 DEF In
  <2>. QED  BY <2>1, <2>2
<1>24. SpecialArtists(e)
  <2>. SUFFICES ASSUME NEW b \in Special PROVE In(e.artists, b)
    BY DEF SpecialArtists
  <2>1. b \in Ids /\ In(h.artists, b) /\ Needed(h, b)
    BY <1>3, Bounds DEF SpecialArtists, Needed
  <2>2. In(u.artists, b) /\ Needed(u, b)
    BY <1>13, <1>14, <2>1 DEF In, Needed
  <2>. QED  BY <1>16, <2>1, <2>2 DEF In
<1>25. In(e.albums, i) /\ e.albums[i] = row /\ \A j \in Ids \ {i} : e.albums[j] = g.albums[j]
  BY <1>2, <1>5, <1>18, Bounds DEF In
<1>. QED  BY <1>2, <1>18, <1>22, <1>23, <1>24, <1>25 DEF Given

\* An id that was given.
Old(d, x) == x <= d.last

\* What the tables are when the media is filed and listed.
Analyzed(w, e, m, i) ==
    /\ e \in Database /\ e.last = w.last /\ SamePlaces(w, e)
    /\ Agree(e) /\ Known(e)
    /\ In(e.albums, i) /\ m \in InGenre(e, job.genre)
    /\ <<m, AlbumArtist>> \in e.relation /\ <<m, TrackArtist>> \in e.relation
    /\ \A j \in Ids \ {i} : In(e.albums, j) =>
          In(w.albums, j) /\ e.albums[j].artist = w.albums[j].artist

\* The artist the album has once the media is listed.
FinalArtist(current) ==
    IF current = 0 THEN AlbumArtist
    ELSE IF HasTurnedVarious(current) THEN VariousArtistID ELSE current

FiledTrack(w, m, i) == File(w, m, TRUE, i, TrackArtist, job.genre)

LEMMA FiledAndListed ==
    ASSUME NEW w \in Database, NEW held, NEW i \in Ids, Ready(w, held, i), NEW m \in Media,
           Exists(w, m), job.genre \in Refs, job.genre # 0 => In(w.genres, job.genre),
           AlbumArtist \in Ids, TrackArtist \in Ids, Old(w, AlbumArtist), Old(w, TrackArtist),
           NEW current, current = w.albums[i].artist,
           NEW f, f = FiledTrack(w, m, i),
           Listings(f, i, m, current) \cap w.relation = {},
           NEW e, e = link(f, i, m, current)
    PROVE  /\ Analyzed(w, e, m, i)
           /\ SpecialArtists(e) /\ Artists(e, held) /\ Albums(e, {}) /\ Genres(e, held)
<1>. DEFINE true == TRUE
            aa == AlbumArtist
            ta == TrackArtist
            genre == job.genre
            S == Listings(f, i, m, current)
            g == Listing(f, S)
            final == FinalArtist(current)
<1>1. /\ true \in BOOLEAN /\ i \in Refs /\ ta \in Refs /\ genre \in Refs
      /\ f = File(w, m, true, i, ta, genre)
  BY DEF Refs, FiledTrack
<1>2. /\ Agree(w) /\ Artists(w, held) /\ Albums(w, {i}) /\ Genres(w, held)
      /\ SpecialArtists(w) /\ Known(w) /\ In(w.albums, i)
  BY DEF Ready
<1>3. VariousArtistID \in Ids /\ VariousArtistID # 0
  BY Bounds DEF Special, VariousArtistID
<1>. HIDE DEF true, ta, genre
<1>4. /\ Filed(w, f, m, true, i, ta, genre)
      /\ Artists(f, held) /\ StillThere(w, f) /\ Fewer(w, f) /\ FewerGenres(w, f)
      /\ \A j \in Ids : In(f.albums, j) <=> In(w.albums, j) /\ Tracks(f, j) # {}
      /\ Albums(f, {}) /\ Genres(f, held)
  BY <1>1, <1>2, AlbumIsSafe, FileDone
<1>5. /\ f \in Database /\ f.relation = w.relation /\ f.last = w.last /\ OnlyMedia(w, f, m)
      /\ f.media[m].track = true /\ f.media[m].album = i
      /\ f.media[m].artist = ta /\ f.media[m].genre = genre
  BY <1>4 DEF Filed
<1>6. /\ Exists(f, m) /\ m \in Tracks(f, i) /\ m \in InGenre(f, genre)
      /\ In(f.albums, i) /\ f.albums[i].artist = current
  <2>1. Exists(f, m) /\ m \in Tracks(f, i) /\ m \in InGenre(f, genre)
    BY <1>5 DEF OnlyMedia, Tracks, InGenre
  <2>. QED  BY <1>2, <1>4, <2>1 DEF Fewer
<1>7. /\ S \in SUBSET (Media \X Ids)
      /\ <<m, aa>> \in S /\ <<m, ta>> \in S
      /\ \A t \in Media \ {m} : \A a : <<t, a>> \in S =>
            t \in Present(f, i) /\ a = VariousArtistID
      /\ \A r \in S : r[2] \in {aa, ta, VariousArtistID}
      /\ current = VariousArtistID => <<m, VariousArtistID>> \in S
  <2>1. Present(f, i) \subseteq Media
    BY DEF Present, Tracks
  <2>2. {m} \X {aa, ta} \subseteq Media \X Ids
    BY DEF ta
  <2>3. ~HasTurnedVarious(VariousArtistID)
    BY DEF HasTurnedVarious
  <2>4. S = ({m} \X {aa, ta})
                \cup (IF HasTurnedVarious(current) THEN Present(f, i) \X {VariousArtistID}
                      ELSE IF current = VariousArtistID THEN {<<m, VariousArtistID>>} ELSE {})
    BY DEF Listings, ta
  <2>. HIDE DEF S, aa
  <2>5. CASE HasTurnedVarious(current)
    BY <1>3, <2>1, <2>2, <2>3, <2>4, <2>5
  <2>6. CASE ~HasTurnedVarious(current) /\ current = VariousArtistID
    <3>1. S = ({m} \X {aa, ta}) \cup {<<m, VariousArtistID>>}
      BY <2>4, <2>6
    <3>2. S \in SUBSET (Media \X Ids) /\ <<m, aa>> \in S /\ <<m, ta>> \in S
      BY <1>3, <2>2, <3>1
    <3>3. \A r \in S : r[1] = m /\ r[2] \in {aa, ta, VariousArtistID}
      BY <3>1
    <3>4. <<m, VariousArtistID>> \in S
      BY <3>1
    <3>. QED  BY <3>2, <3>3, <3>4
  <2>7. CASE ~HasTurnedVarious(current) /\ current # VariousArtistID
    BY <2>2, <2>4, <2>7
  <2>. QED  BY <2>5, <2>6, <2>7
<1>8. S \cap f.relation = {} /\ g = Listing(f, S)
  BY <1>5
<1>9. e = IF current = 0 THEN setAlbumArtist(g, i, aa)
          ELSE IF HasTurnedVarious(current) THEN setAlbumArtist(g, i, VariousArtistID) ELSE g
  BY LinkFold
<1>. HIDE DEF S, aa, g, final
<1>10. /\ OnlyRelations(f, g) /\ g.relation = w.relation \cup S
       /\ Artists(g, held) /\ \A b \in Ids : In(g.artists, b) <=> In(f.artists, b)
  BY <1>4, <1>5, <1>7, <1>8, ListingDone
<1>11. /\ g \in Database /\ g.media = f.media /\ g.albums = f.albums /\ g.genres = f.genres
       /\ g.last = w.last
  BY <1>5, <1>10 DEF OnlyRelations
<1>12. SpecialArtists(g)
  <2>1. SpecialArtists(f)
    BY <1>2, <1>4, SpecialStay
  <2>. QED  BY <1>10, <2>1, Bounds DEF SpecialArtists
<1>13. \A t \in Media \ {m} : f.media[t] = w.media[t] /\ (Exists(f, t) <=> Exists(w, t))
  BY <1>5 DEF OnlyMedia, Exists
<1>14. AllSpare(g)
  <2>. SUFFICES ASSUME NEW t \in Media, Exists(g, t)
                PROVE  g.media[t].artist = 0 \/ <<t, g.media[t].artist>> \in g.relation
    BY <1>11, SpareArtists
  <2>1. CASE t = m
    BY <1>5, <1>7, <1>10, <1>11, <2>1
  <2>2. CASE t # m
    <3>1. Exists(w, t) /\ g.media[t] = w.media[t]
      BY <1>11, <1>13, <2>2 DEF Exists
    <3>2. w.media[t].artist = 0 \/ <<t, w.media[t].artist>> \in w.relation
      BY <1>2, <3>1, RowsAgree
    <3>. QED  BY <1>10, <3>1, <3>2
  <2>. QED  BY <2>1, <2>2
<1>15. Given(g, e, i, final) /\ Artists(e, held) /\ SpecialArtists(e)
  <2>1. aa \in Ids /\ In(g.albums, i) /\ g.albums[i].artist = current
    BY <1>6, <1>11 DEF aa
  <2>2. CASE current = 0
    <3>1. e = setAlbumArtist(g, i, aa) /\ final = aa /\ aa # current
      BY <1>9, <2>1, <2>2, Bounds DEF final, FinalArtist, aa
    <3>. QED  BY <1>10, <1>11, <1>12, <1>14, <2>1, <3>1, AlbumGiven
  <2>3. CASE current # 0 /\ HasTurnedVarious(current)
    <3>1. e = setAlbumArtist(g, i, VariousArtistID) /\ final = VariousArtistID
          /\ VariousArtistID # current
      BY <1>9, <2>3 DEF final, FinalArtist, HasTurnedVarious
    <3>. QED  BY <1>3, <1>10, <1>11, <1>12, <1>14, <2>1, <3>1, AlbumGiven
  <2>4. CASE current # 0 /\ ~HasTurnedVarious(current)
    <3>1. e = g /\ final = current
      BY <1>9, <2>4 DEF final, FinalArtist
    <3>2. Given(g, e, i, final)
      BY <1>11, <2>1, <3>1 DEF Given, OnlyAlbums
    <3>. QED  BY <1>10, <1>12, <3>1, <3>2
  <2>. QED  BY <2>2, <2>3, <2>4
<1>16. /\ e \in Database /\ e.media = f.media /\ e.genres = f.genres
       /\ e.relation = w.relation \cup S /\ e.last = w.last
       /\ \A j \in Ids \ {i} : e.albums[j] = f.albums[j]
       /\ In(e.albums, i) /\ e.albums[i].artist = final
       /\ e.albums[i].nb_tracks = f.albums[i].nb_tracks
       /\ e.albums[i].is_present = f.albums[i].is_present
       /\ \A b \in Ids : In(e.artists, b) => In(w.artists, b)
  BY <1>4, <1>10, <1>11, <1>15 DEF Given, OnlyAlbums, StillThere
<1>17. \A j : /\ Tracks(e, j) = Tracks(f, j) /\ Present(e, j) = Present(f, j)
              /\ InGenre(e, j) = InGenre(f, j) /\ PresentIn(e, j) = PresentIn(f, j)
  BY <1>16, SameMedia, SMTT(20)
<1>18. Genres(e, held)
  BY <1>4, <1>16, <1>17, SMTT(20) DEF Genres, GenreCounts
<1>19. Albums(e, {})
  <2>. SUFFICES ASSUME NEW j \in Ids, In(e.albums, j)
                PROVE  AlbumCounts(e, j) /\ Tracks(e, j) # {}
    BY DEF Albums
  <2>1. CASE j = i
    BY <1>4, <1>6, <1>16, <1>17, <2>1, SMTT(20) DEF Albums, AlbumCounts
  <2>2. CASE j # i
    BY <1>4, <1>16, <1>17, <2>2, SMTT(20) DEF Albums, AlbumCounts, In
  <2>. QED  BY <2>1, <2>2
<1>20. ASSUME NEW j \in Ids \ {i}, In(e.albums, j)
       PROVE  In(w.albums, j) /\ e.albums[j].artist = w.albums[j].artist
  BY <1>4, <1>16, <1>20, SMTT(20) DEF Fewer, In
<1>21. SamePlaces(w, e)
  BY <1>5, <1>13, <1>16, SMTT(20) DEF SamePlaces, Exists, OnlyMedia
<1>22. Agrees(e, m)
  <2>1. Exists(e, m) /\ e.media[m].track /\ e.media[m].album = i /\ e.media[m].artist = ta
    BY <1>5, <1>6, <1>16 DEF Exists, true
  <2>2. <<m, ta>> \in e.relation /\ <<m, aa>> \in e.relation
    BY <1>7, <1>16
  <2>3. final = VariousArtistID \/ <<m, final>> \in e.relation
    <3>1. CASE current = 0
      BY <2>2, <3>1 DEF final, FinalArtist, aa
    <3>2. CASE current # 0 /\ HasTurnedVarious(current)
      BY <3>2 DEF final, FinalArtist
    <3>3. CASE current # 0 /\ ~HasTurnedVarious(current)
      BY <2>2, <3>3 DEF final, FinalArtist, HasTurnedVarious, aa
    <3>. QED  BY <3>1, <3>2, <3>3
  <2>. QED  BY <1>16, <2>1, <2>2, <2>3, SMTT(20) DEF Agrees
<1>23. ASSUME NEW t \in Media, t # m PROVE Agrees(e, t)
  <2>1. e.media[t] = w.media[t] /\ (Exists(e, t) <=> Exists(w, t)) /\ Agrees(w, t)
    BY <1>2, <1>13, <1>16, <1>23, SMTT(20) DEF Exists, Agree
  <2>2. CASE Exists(w, t) /\ w.media[t].track
    <3>. DEFINE j == w.media[t].album
    <3>1. /\ In(w.albums, j) /\ j \in Ids
          /\ <<t, w.media[t].artist>> \in w.relation
          /\ w.albums[j].artist = VariousArtistID \/ <<t, w.albums[j].artist>> \in w.relation
          /\ w.albums[j].artist \in Ids
      BY <1>2, <2>2, RowsAgree
    <3>2. t \in Tracks(f, j)
      BY <1>13, <1>23, <2>2 DEF Tracks
    <3>3. In(f.albums, j) /\ f.albums[j].artist = w.albums[j].artist
      BY <1>4, <3>1, <3>2 DEF Fewer
    <3>4. In(e.albums, j)
      BY <1>16, <3>1, <3>3 DEF In
    <3>5. e.albums[j].artist = VariousArtistID \/ <<t, e.albums[j].artist>> \in e.relation
      <4>1. CASE j = i
        <5>1. current # 0
          BY <3>1, <4>1, Bounds
        <5>2. final \in {VariousArtistID, current}
          BY <5>1 DEF final, FinalArtist
        <5>. QED  BY <1>16, <3>1, <4>1, <5>2
      <4>2. CASE j # i
        BY <1>16, <3>1, <3>3, <4>2
      <4>. QED  BY <4>1, <4>2
    <3>. HIDE DEF j
    <3>. QED  BY <1>16, <2>1, <2>2, <3>1, <3>4, <3>5 DEF Agrees, j
  <2>3. CASE ~(Exists(w, t) /\ w.media[t].track)
    <3>1. \A a \in Ids : <<t, a>> \notin w.relation
      BY <2>1, <2>3 DEF Agrees
    <3>2. t \notin Tracks(f, i)
      <4>1. Exists(w, t) => w.media[t].album = 0
        BY <2>1, <2>3 DEF Agrees
      <4>. QED  BY <1>13, <1>23, <4>1, Bounds DEF Tracks
    <3>3. \A a \in Ids : <<t, a>> \notin S
      BY <1>7, <1>23, <3>2 DEF Present
    <3>. QED  BY <1>16, <2>1, <2>3, <3>1, <3>3 DEF Agrees
  <2>. QED  BY <2>2, <2>3
<1>24. Agree(e)
  BY <1>22, <1>23 DEF Agree
<1>25. Known(e)
  <2>1. Old(w, i) /\ Old(w, aa) /\ Old(w, ta) /\ Old(w, VariousArtistID) /\ Old(w, genre)
    <3>1. w.last \in Nat /\ i \in Nat
      BY Bounds DEF Database
    <3>2. Old(w, i)
      <4>1. ~(w.last < i)
        BY <1>2 DEF Known
      <4>. QED  BY <3>1, <4>1 DEF Old
    <3>3. Old(w, VariousArtistID)
      BY <1>2 DEF Known, Old, VariousArtistID
    <3>4. Old(w, genre)
      <4>1. CASE genre = 0
        BY <3>1, <4>1 DEF Old
      <4>2. CASE genre # 0
        <5>1. genre \in Ids /\ genre \in Nat /\ In(w.genres, genre)
          BY <1>1, <4>2, Bounds DEF Refs, genre
        <5>2. ~(w.last < genre)
          BY <1>2, <5>1 DEF Known
        <5>. QED  BY <3>1, <5>1, <5>2 DEF Old
      <4>. QED  BY <4>1, <4>2
    <3>. QED  BY <3>2, <3>3, <3>4 DEF aa, ta
  <2>2. \A j \in Ids : e.last < j => ~In(e.albums, j) /\ ~In(e.artists, j) /\ ~In(e.genres, j)
    <3>. SUFFICES ASSUME NEW j \in Ids, w.last < j
                  PROVE  ~In(e.albums, j) /\ ~In(e.artists, j) /\ ~In(e.genres, j)
      BY <1>16
    <3>1. ~In(w.albums, j) /\ ~In(w.artists, j) /\ ~In(w.genres, j) /\ j # i
      BY <1>2 DEF Known
    <3>. QED  BY <1>4, <1>16, <1>20, <3>1 DEF FewerGenres
  <2>3. \A r \in e.relation : r[2] <= e.last
    <3>1. \A r \in S : Old(w, r[2])
      BY <1>7, <2>1
    <3>. QED  BY <1>2, <1>16, <3>1 DEF Known, Old
  <2>4. ASSUME NEW t \in Media, Exists(e, t)
        PROVE  e.media[t].album <= e.last /\ e.media[t].artist <= e.last
               /\ e.media[t].genre <= e.last
    <3>1. CASE t = m
      BY <1>5, <1>16, <2>1, <3>1 DEF Old
    <3>2. CASE t # m
      <4>1. Exists(w, t) /\ e.media[t] = w.media[t]
        BY <1>13, <1>16, <2>4, <3>2 DEF Exists
      <4>. QED  BY <1>2, <1>16, <4>1 DEF Known
    <3>. QED  BY <3>1, <3>2
  <2>5. ASSUME NEW j \in Ids, In(e.albums, j) PROVE e.albums[j].artist <= e.last
    <3>1. CASE j = i
      <4>1. Old(w, current)
        BY <1>2 DEF Known, Old
      <4>2. Old(w, final)
        BY <2>1, <4>1 DEF final, FinalArtist, aa
      <4>. QED  BY <1>16, <3>1, <4>2 DEF Old
    <3>2. CASE j # i
      BY <1>2, <1>16, <1>20, <2>5, <3>2 DEF Known
    <3>. QED  BY <3>1, <3>2
  <2>6. 2 <= e.last
    BY <1>2, <1>16 DEF Known
  <2>. QED  BY <2>2, <2>3, <2>4, <2>5, <2>6 DEF Known
<1>26. m \in InGenre(e, job.genre) /\ <<m, AlbumArtist>> \in e.relation
       /\ <<m, TrackArtist>> \in e.relation
  BY <1>6, <1>7, <1>16, <1>17 DEF aa, ta, genre
<1>. QED  BY <1>15, <1>16, <1>18, <1>19, <1>20, <1>21, <1>24, <1>25, <1>26 DEF Analyzed

-----------------------------------------------------------------------------
(* The steps outside the analyzer.                                         *)

LEMMA JobTypes ==
    ASSUME Types, pc # "idle"
    PROVE  /\ job \in Job /\ job.media \in Media /\ job.kind \in Kinds /\ job.tag \in Tags
           /\ job.track \in BOOLEAN /\ job.of \in Refs /\ job.duration \in Durations
           /\ job.cache \in Object \cup {NoAlbum} /\ job.album \in Object \cup {NoAlbum}
           /\ job.genre \in Refs /\ job.first \in Refs /\ job.second \in Refs
BY DEF Types, Job

LEMMA SameLast ==
    ASSUME NEW d \in Database, NEW e \in Database, e.last = d.last
    PROVE  Later(d, e)
<1>1. d.last \in Nat
  BY Bounds DEF Database
<1>. QED  BY <1>1 DEF Later

\* The tables have lost what they do not need, and the analyzer has not moved.
LEMMA TablesStep ==
    ASSUME IInv, Keeps(db, db', Held), \A t \in Media : Exists(db', t) => Exists(db, t),
           UNCHANGED <<files, pc, job, previous, abandoned>>,
           mounted' \in BOOLEAN, tasks' \subseteq Media \X Kinds, queued' \subseteq Media \X Kinds
    PROVE  IInv'
<1>1. Types /\ Tables(db, Held) /\ Analysis /\ Faithful(db, previous)
      /\ \A m \in Media : files[m] = NoRow => ~Exists(db, m)
  BY DEF IInv
<1>2. db \in Database /\ db' \in Database /\ Tables(db', Held) /\ Fewer(db, db')
      /\ Later(db, db')
  BY <1>1, SameLast DEF Types, Keeps
<1>3. Types'
  BY <1>1, <1>2 DEF Types
<1>4. Tables(db, Held)'
  BY <1>2 DEF Held
<1>5. (\A m \in Media : files[m] = NoRow => ~Exists(db, m))'
  BY <1>1
<1>6. pc # "idle" => Faithful(db', job.cache)
  <2>. SUFFICES ASSUME pc # "idle" PROVE Faithful(db', job.cache)
    OBVIOUS
  <2>1. job.cache \in Object \cup {NoAlbum} /\ Faithful(db, job.cache)
    BY <1>1, JobTypes DEF Analysis
  <2>. QED  BY <1>2, <2>1, FaithfulKept
<1>7. pc = "commit" => Faithful(db', job.album)
  <2>. SUFFICES ASSUME pc = "commit" PROVE Faithful(db', job.album)
    OBVIOUS
  <2>1. job.album \in Object \cup {NoAlbum} /\ Faithful(db, job.album)
    BY <1>1, JobTypes DEF Analysis
  <2>. QED  BY <1>2, <2>1, FaithfulKept
<1>8. Analysis'
  BY <1>1, <1>6, <1>7 DEF Analysis
<1>9. Faithful(db', previous)
  <2>1. previous \in Object \cup {NoAlbum}
    BY <1>1 DEF Types
  <2>. QED  BY <1>1, <1>2, <2>1, FaithfulKept
<1>. QED  BY <1>3, <1>4, <1>5, <1>8, <1>9 DEF IInv

LEMMA DestroyMediaStep ==
    ASSUME IInv, NEW m \in Media, DestroyMedia(m)
    PROVE  IInv'
<1>1. Types /\ Tables(db, Held) /\ db \in Database
  BY DEF IInv, Types
<1>2. /\ Exists(db, m) /\ db' = destroy(db, m) /\ tasks' \subseteq tasks
      /\ UNCHANGED <<mounted, files, queued, pc, job, previous, abandoned>>
  BY DEF DestroyMedia
<1>3. Keeps(db, db', Held) /\ db'.media = [db.media EXCEPT ![m] = NoRow]
  BY <1>1, <1>2, Destroyed
<1>4. \A t \in Media : Exists(db', t) => Exists(db, t)
  BY <1>1, <1>3 DEF Exists, Database
<1>. QED  BY <1>1, <1>2, <1>3, <1>4, TablesStep DEF Types

LEMMA convertToExternalStep ==
    ASSUME IInv, NEW m \in Media, convertToExternal(m)
    PROVE  IInv'
<1>. DEFINE f == setSubTypeUnknown(db, m)
            e == IF db.media[m].track THEN dropMediaArtistRelation(f, m) ELSE db
            row == [e.media[m] EXCEPT !.internal = FALSE]
<1>1. Types /\ Tables(db, Held) /\ db \in Database
  BY DEF IInv, Types
<1>2. /\ Exists(db, m) /\ db' = [e EXCEPT !.media[m].internal = FALSE] /\ tasks' \subseteq tasks
      /\ UNCHANGED <<mounted, files, queued, pc, job, previous, abandoned>>
  BY DEF convertToExternal
<1>3. Keeps(db, e, Held) /\ SamePlaces(db, e) /\ e.media[m] \in MediaRow
  <2>1. CASE db.media[m].track
    <3>1. f = setSubTypeUnknown(db, m) /\ e = dropMediaArtistRelation(f, m)
      BY <2>1
    <3>. HIDE DEF f, e
    <3>2. f \in Database => OnlyDurations(f, f)
      BY DEF OnlyDurations, Alike
    <3>. QED  BY <1>1, <1>2, <3>1, <3>2, Unfiled
  <2>2. CASE ~db.media[m].track
    BY <1>1, <1>2, <2>2, Rows DEF Keeps, SamePlaces, Fewer
  <2>. QED  BY <2>1, <2>2
<1>. HIDE DEF e
<1>4. /\ e \in Database /\ Tables(e, Held) /\ Exists(e, m)
      /\ db' = [e EXCEPT !.media[m] = row]
  BY <1>2, <1>3 DEF Keeps, SamePlaces
<1>5. /\ row \in MediaRow /\ row.present = e.media[m].present /\ row.track = e.media[m].track
      /\ row.album = e.media[m].album /\ row.artist = e.media[m].artist
      /\ row.genre = e.media[m].genre
  BY <1>3 DEF MediaRow
<1>. HIDE DEF row
<1>6. Keeps(e, db', Held) /\ SamePlaces(e, db')
  BY <1>4, <1>5, RowTouched
<1>7. Keeps(db, db', Held)
  BY <1>3, <1>6, KeepsAgain
<1>8. \A t \in Media : Exists(db', t) => Exists(db, t)
  BY <1>3, <1>6 DEF SamePlaces
<1>. QED  BY <1>1, <1>2, <1>7, <1>8, TablesStep DEF Types

LEMMA setDevicePresentStep ==
    ASSUME IInv, setDevicePresent
    PROVE  IInv'
<1>. DEFINE b == ~mounted
<1>1. Types /\ Tables(db, Held) /\ db \in Database /\ b \in BOOLEAN
  BY DEF IInv, Types
<1>2. /\ db' = setPresent(db, b) /\ mounted' = b
      /\ UNCHANGED <<files, tasks, queued, pc, job, previous, abandoned>>
  BY DEF setDevicePresent, analyzer
<1>. HIDE DEF b
<1>3. Keeps(db, db', Held) /\ SamePlaces(db, db')
  BY <1>1, <1>2, Presented
<1>. QED  BY <1>1, <1>2, <1>3, TablesStep DEF Types, SamePlaces

LEMMA forceRescanStep ==
    ASSUME IInv, forceRescan
    PROVE  IInv'
<1>1. Types /\ Tables(db, Held) /\ db \in Database
  BY DEF IInv, Types
<1>2. /\ db' = Emptied(db)
      /\ tasks' = {m \in Media : Exists(db, m) /\ db.media[m].internal} \X {"Creation"}
      /\ queued' = queued \cup tasks'
      /\ UNCHANGED <<mounted, files, pc, job, previous, abandoned>>
  BY DEF forceRescan, Emptied
<1>3. Keeps(db, db', Held) /\ SamePlaces(db, db')
  BY <1>1, <1>2, AllEmptied
<1>4. tasks' \subseteq Media \X Kinds /\ queued' \subseteq Media \X Kinds
  BY <1>1, <1>2 DEF Types, Kinds
<1>. QED  BY <1>1, <1>2, <1>3, <1>4, TablesStep DEF Types, SamePlaces

LEMMA Parser_flushStep ==
    ASSUME IInv, Parser_flush
    PROVE  IInv'
<1>1. /\ queued' = {} /\ previous' = NoAlbum
      /\ UNCHANGED <<db, mounted, files, tasks, pc, job, abandoned>>
  BY DEF Parser_flush
<1>2. Types'
  BY <1>1 DEF IInv, Types
<1>3. Tables(db, Held)'
  BY <1>1 DEF IInv, Held
<1>4. (\A m \in Media : files[m] = NoRow => ~Exists(db, m))'
  BY <1>1 DEF IInv, Exists
<1>5. Analysis'
  BY <1>1 DEF IInv, Analysis, Faithful
<1>6. Faithful(db, previous)'
  BY <1>1 DEF Faithful
<1>. QED  BY <1>2, <1>3, <1>4, <1>5, <1>6 DEF IInv

LEMMA createRefreshTaskStep ==
    ASSUME IInv, NEW m \in Media, createRefreshTask(m)
    PROVE  IInv'
<1>1. PICK content \in Content : files' = [files EXCEPT ![m] = content]
  BY DEF createRefreshTask
<1>2. /\ tasks' = tasks \cup {<<m, "Refresh">>} /\ queued' = queued \cup {<<m, "Refresh">>}
      /\ UNCHANGED <<db, mounted, pc, job, previous, abandoned>> /\ Exists(db, m)
  BY DEF createRefreshTask
<1>3. content # NoRow
  BY CollectionAssumption
<1>4. Types'
  <2>1. Types /\ <<m, "Refresh">> \in Media \X Kinds
    BY DEF IInv, Kinds
  <2>2. files' \in [Media -> Content \cup {NoRow}]
    BY <1>1, <2>1 DEF Types
  <2>3. tasks' \subseteq Media \X Kinds /\ queued' \subseteq Media \X Kinds
    BY <1>2, <2>1 DEF Types
  <2>. QED  BY <1>2, <2>1, <2>2, <2>3 DEF Types
<1>5. Tables(db, Held)'
  BY <1>2 DEF IInv, Held
<1>6. (\A t \in Media : files[t] = NoRow => ~Exists(db, t))'
  BY <1>1, <1>2, <1>3 DEF IInv, Types, Exists
<1>7. Analysis'
  BY <1>2 DEF IInv, Analysis, Faithful
<1>8. Faithful(db, previous)'
  BY <1>2 DEF IInv, Faithful
<1>. QED  BY <1>4, <1>5, <1>6, <1>7, <1>8 DEF IInv

LEMMA JobIsNotIdle ==
    ASSUME NEW j \in Job
    PROVE  j # Idle
<1>1. DOMAIN Idle = {"media"}
  BY DEF Idle
<1>2. "kind" \in DOMAIN j
  BY DEF Job
<1>. QED  BY <1>1, <1>2

LEMMA RestartStep ==
    ASSUME IInv, Restart
    PROVE  IInv'
<1>1. /\ pc' = "idle" /\ job' = Idle /\ queued' = tasks /\ previous' = NoAlbum
      /\ abandoned' = IF job = Idle THEN abandoned
                      ELSE abandoned \cup {job.genre, job.first, job.second}
      /\ UNCHANGED <<db, mounted, files, tasks>>
  BY DEF Restart
<1>2. Types'
  BY <1>1 DEF IInv, Types
<1>3. Tables(db', Held')
  <2>1. Held' = [artists |-> abandoned' \cup {}, genres |-> abandoned' \cup {}]
    BY <1>1 DEF Held
  <2>2. Held = IF pc \in {"idle", "keep", "save"}
               THEN [artists |-> abandoned \cup {}, genres |-> abandoned \cup {}]
               ELSE [artists |-> abandoned \cup {job.first, job.second},
                     genres |-> abandoned \cup {job.genre}]
    BY DEF Held
  <2>3. pc # "idle" => abandoned' = abandoned \cup {job.genre, job.first, job.second}
    BY <1>1, JobTypes, JobIsNotIdle DEF IInv
  <2>4. abandoned \subseteq abandoned'
    BY <1>1
  <2>5. Held.artists \subseteq Held'.artists /\ Held.genres \subseteq Held'.genres
    BY <2>1, <2>2, <2>3, <2>4
  <2>6. Tables(db, Held')
    BY <2>5, HeldMore DEF IInv
  <2>. QED  BY <1>1, <2>6
<1>4. (\A m \in Media : files[m] = NoRow => ~Exists(db, m))'
  BY <1>1 DEF IInv, Exists
<1>5. Analysis'
  BY <1>1 DEF Analysis
<1>6. Faithful(db, previous)'
  BY <1>1 DEF Faithful
<1>. QED  BY <1>2, <1>3, <1>4, <1>5, <1>6 DEF IInv

-----------------------------------------------------------------------------
(* The analyzer looks the genre and the artists up.                        *)

\* A lookup has given the analysis a row to hold, and maybe inserted it.
LEMMA LookupStep ==
    ASSUME IInv, db' \in Database, Tables(db', Held'), Fewer(db, db'), Later(db, db'),
           SamePlaces(db, db'), UNCHANGED <<mounted, files, tasks, queued, previous>>,
           pc \in {"genre", "albumArtist", "artist"},
           pc' \in {"albumArtist", "artist", "album"},
           job' \in Job, job'.cache = job.cache,
           pc' = "albumArtist" => job'.first = 0,
           pc' \in {"albumArtist", "artist"} => job'.second = 0
    PROVE  IInv'
<1>1. Types /\ Analysis /\ Faithful(db, previous) /\ db \in Database /\ previous = NoAlbum
      /\ \A m \in Media : files[m] = NoRow => ~Exists(db, m)
  BY DEF IInv, Types, Analysis
<1>2. Types'
  BY <1>1 DEF Types
<1>3. (\A m \in Media : files[m] = NoRow => ~Exists(db, m))'
  BY <1>1 DEF SamePlaces
<1>4. Faithful(db', job'.cache)
  <2>1. job.cache \in Object \cup {NoAlbum} /\ Faithful(db, job.cache)
    BY <1>1, JobTypes DEF Analysis
  <2>. QED  BY <1>1, <2>1, FaithfulKept
<1>5. Analysis'
  BY <1>1, <1>4 DEF Analysis
<1>6. Faithful(db, previous)'
  BY <1>1 DEF Faithful
<1>. QED  BY <1>2, <1>3, <1>5, <1>6 DEF IInv

LEMMA JobFields ==
    ASSUME NEW j \in Job, NEW x \in Refs
    PROVE  /\ LET k == [j EXCEPT !.genre = x]
              IN  /\ k \in Job /\ k.cache = j.cache /\ k.genre = x
                  /\ k.first = j.first /\ k.second = j.second
           /\ LET k == [j EXCEPT !.first = x]
              IN  /\ k \in Job /\ k.cache = j.cache /\ k.genre = j.genre
                  /\ k.first = x /\ k.second = j.second
           /\ LET k == [j EXCEPT !.second = x]
              IN  /\ k \in Job /\ k.cache = j.cache /\ k.genre = j.genre
                  /\ k.first = j.first /\ k.second = x
BY DEF Job

LEMMA NothingMoves ==
    ASSUME NEW d \in Database
    PROVE  Fewer(d, d) /\ Later(d, d) /\ SamePlaces(d, d)
<1>1. Later(d, d)
  BY SameLast
<1>2. Fewer(d, d)
  BY DEF Fewer
<1>3. SamePlaces(d, d)
  BY DEF SamePlaces
<1>. QED  BY <1>1, <1>2, <1>3

LEMMA handleGenreStep ==
    ASSUME IInv, handleGenre
    PROVE  IInv'
<1>. DEFINE name == job.tag.genre
            found == Named(db.genres, name)
            fresh == Fresh
<1>1. /\ pc = "genre" /\ pc' = "albumArtist"
      /\ UNCHANGED <<mounted, files, tasks, queued, previous, abandoned>>
  BY DEF handleGenre
<1>2. Types /\ Tables(db, Held) /\ Analysis /\ db \in Database
  BY DEF IInv, Types
<1>3. /\ job \in Job /\ job.genre = 0 /\ job.first = 0 /\ job.second = 0 /\ job.tag \in Tags
  BY <1>1, <1>2, JobTypes DEF Analysis
<1>4. /\ Held.artists = abandoned \cup {job.first, job.second}
      /\ Held.genres = abandoned \cup {job.genre}
      /\ Held'.artists = abandoned \cup {job'.first, job'.second}
      /\ Held'.genres = abandoned \cup {job'.genre}
  BY <1>1 DEF Held
<1>5. CASE db' = db /\ \E g \in Refs : job' = [job EXCEPT !.genre = g]
  <2>1. PICK g \in Refs : job' = [job EXCEPT !.genre = g]
    BY <1>5
  <2>2. /\ job' \in Job /\ job'.cache = job.cache /\ job'.first = 0 /\ job'.second = 0
    BY <1>3, <2>1, JobFields
  <2>3. Tables(db, Held')
    BY <1>2, <1>3, <1>4, <2>2, HeldMore, Bounds
  <2>. QED  BY <1>1, <1>2, <1>5, <2>2, <2>3, NothingMoves, LookupStep
<1>6. CASE /\ name # NoName /\ fresh \in Ids /\ job' = [job EXCEPT !.genre = fresh]
           /\ db' = [db EXCEPT !.last = fresh,
                         !.genres[fresh] = [name |-> name, nb_tracks |-> 0, is_present |-> 0]]
  <2>. DEFINE row == [name |-> name, nb_tracks |-> 0, is_present |-> 0]
  <2>1. row \in GenreRow /\ row.nb_tracks = 0 /\ row.is_present = 0
    BY <1>3, <1>6 DEF GenreRow, GenreNames, NamesOf
  <2>2. fresh = db.last + 1 /\ fresh \in Refs
    BY <1>6 DEF Fresh, Refs
  <2>3. db' = [db EXCEPT !.last = fresh, !.genres[fresh] = row]
    BY <1>6
  <2>. HIDE DEF row, fresh
  <2>4. /\ job' \in Job /\ job'.cache = job.cache /\ job'.first = 0 /\ job'.second = 0
        /\ job'.genre = fresh
    BY <1>3, <1>6, <2>2, JobFields
  <2>5. Tables(db, Held') /\ fresh \in Held'.genres
    BY <1>2, <1>3, <1>4, <2>4, HeldMore, Bounds
  <2>6. Grows(db, db', Held')
    BY <1>2, <1>6, <2>1, <2>2, <2>3, <2>5, NewGenre
  <2>. QED  BY <1>1, <2>4, <2>6, LookupStep DEF Grows
<1>7. found # {} => (CHOOSE g \in found : TRUE) \in Refs
  <2>1. found \subseteq Refs
    BY DEF Named, Refs
  <2>. QED  BY <2>1
<1>8. \/ db' = db /\ job' = job
      \/ found # {} /\ db' = db /\ job' = [job EXCEPT !.genre = CHOOSE g \in found : TRUE]
      \/ /\ name # NoName /\ fresh \in Ids /\ job' = [job EXCEPT !.genre = fresh]
         /\ db' = [db EXCEPT !.last = fresh,
                       !.genres[fresh] = [name |-> name, nb_tracks |-> 0, is_present |-> 0]]
  BY DEF handleGenre
<1>9. job = [job EXCEPT !.genre = 0] /\ 0 \in Refs
  BY <1>3 DEF Job, Refs
<1>. HIDE DEF found, fresh
<1>. QED  BY <1>5, <1>6, <1>7, <1>8, <1>9

\* What FindOrCreate does, told without the name of the field.
Looked(name) ==
    \/ db' = db
    \/ /\ Fresh \in Ids
       /\ db' = [db EXCEPT !.last = Fresh, !.artists[Fresh] = NewArtist(name)]

LEMMA ArtistLooked ==
    ASSUME IInv, pc # "idle", NEW name \in ArtistNames, Looked(name),
           \A i \in Ids : i \in Held.artists => i \in Held'.artists,
           \A i \in Ids : i \in Held.genres => i \in Held'.genres,
           db' # db => Fresh \in Held'.artists
    PROVE  /\ db' \in Database /\ Tables(db', Held') /\ Fewer(db, db') /\ Later(db, db')
           /\ SamePlaces(db, db')
<1>. DEFINE fresh == Fresh
            row == NewArtist(name)
<1>1. Tables(db, Held') /\ db \in Database
  BY HeldMore DEF IInv, Types
<1>2. CASE db' = db
  BY <1>1, <1>2, NothingMoves
<1>3. CASE db' # db
  <2>1. fresh \in Ids /\ fresh = db.last + 1 /\ fresh \in Held'.artists
        /\ db' = [db EXCEPT !.last = fresh, !.artists[fresh] = row]
    BY <1>3 DEF Looked, Fresh
  <2>2. row \in ArtistRow /\ row.nb_tracks = 0 /\ row.nb_albums = 0
    BY DEF ArtistRow, NewArtist
  <2>. HIDE DEF fresh, row
  <2>3. Grows(db, db', Held')
    BY <1>1, <2>1, <2>2, NewArtistRow
  <2>. QED  BY <2>3 DEF Grows
<1>. QED  BY <1>2, <1>3

LEMMA findOrCreateAlbumArtistStep ==
    ASSUME IInv, findOrCreateAlbumArtist
    PROVE  IInv'
<1>. DEFINE name == job.tag.albumArtist
            found == Named(db.artists, name)
            fresh == Fresh
<1>1. /\ pc = "albumArtist" /\ pc' = "artist"
      /\ UNCHANGED <<mounted, files, tasks, queued, previous, abandoned>>
  BY DEF findOrCreateAlbumArtist
<1>2. Types /\ Tables(db, Held) /\ Analysis /\ db \in Database
  BY DEF IInv, Types
<1>3. /\ job \in Job /\ job.first = 0 /\ job.second = 0 /\ job.tag \in Tags
  BY <1>1, <1>2, JobTypes DEF Analysis
<1>4. /\ Held.artists = abandoned \cup {job.first, job.second}
      /\ Held.genres = abandoned \cup {job.genre}
      /\ Held'.artists = abandoned \cup {job'.first, job'.second}
      /\ Held'.genres = abandoned \cup {job'.genre}
  BY <1>1 DEF Held
<1>5. /\ \E x \in Refs : job' = [job EXCEPT !.first = x] /\ (db' # db => x = fresh)
      /\ Looked(name)
  <2>1. found \subseteq Refs
    BY DEF Named, Refs
  <2>2. UnknownArtistID \in Refs /\ 0 \in Refs /\ (fresh \in Ids => fresh \in Refs)
    BY Bounds DEF Special, Refs
  <2>3. CASE name # NoName
    <3>1. FindOrCreate("first", name)
      BY <2>3 DEF findOrCreateAlbumArtist
    <3>2. CASE found # {}
      <4>1. job' = [job EXCEPT !.first = CHOOSE a \in found : TRUE] /\ db' = db
        BY <3>1, <3>2 DEF FindOrCreate
      <4>2. (CHOOSE a \in found : TRUE) \in Refs
        BY <2>1, <3>2
      <4>. HIDE DEF found
      <4>. QED  BY <4>1, <4>2 DEF Looked
    <3>3. CASE found = {}
      <4>1. /\ Fresh \in Ids /\ job' = [job EXCEPT !.first = Fresh]
            /\ db' = [db EXCEPT !.last = Fresh, !.artists[Fresh] = NewArtist(name)]
        BY <3>1, <3>3 DEF FindOrCreate
      <4>. QED  BY <2>2, <4>1 DEF Looked
    <3>. QED  BY <3>2, <3>3
  <2>4. CASE name = NoName
    <3>1. db' = db /\ job' = [job EXCEPT !.first = IF job.tag.artist = NoName
                                                   THEN UnknownArtistID ELSE 0]
      BY <2>4 DEF findOrCreateAlbumArtist
    <3>. QED  BY <2>2, <3>1 DEF Looked
  <2>. QED  BY <2>3, <2>4
<1>6. PICK x \in Refs : job' = [job EXCEPT !.first = x] /\ (db' # db => x = fresh)
  BY <1>5
<1>. HIDE DEF fresh
<1>7. /\ job' \in Job /\ job'.cache = job.cache /\ job'.first = x /\ job'.second = 0
      /\ job'.genre = job.genre
  BY <1>3, <1>6, JobFields
<1>8. /\ \A i \in Ids : i \in Held.artists => i \in Held'.artists
      /\ \A i \in Ids : i \in Held.genres => i \in Held'.genres
      /\ db' # db => Fresh \in Held'.artists
  BY <1>3, <1>4, <1>6, <1>7, Bounds DEF fresh
<1>9. name \in ArtistNames
  BY <1>3 DEF ArtistNames, NamesOf
<1>. HIDE DEF name
<1>10. /\ db' \in Database /\ Tables(db', Held') /\ Fewer(db, db') /\ Later(db, db')
       /\ SamePlaces(db, db')
  BY <1>1, <1>5, <1>8, <1>9, ArtistLooked
<1>. QED  BY <1>1, <1>7, <1>10, LookupStep

LEMMA findOrCreateTrackArtistStep ==
    ASSUME IInv, findOrCreateTrackArtist
    PROVE  IInv'
<1>. DEFINE name == job.tag.artist
            found == Named(db.artists, name)
            fresh == Fresh
<1>1. /\ pc = "artist" /\ pc' = "album"
      /\ UNCHANGED <<mounted, files, tasks, queued, previous, abandoned>>
  BY DEF findOrCreateTrackArtist
<1>2. Types /\ Tables(db, Held) /\ Analysis /\ db \in Database
  BY DEF IInv, Types
<1>3. /\ job \in Job /\ job.second = 0 /\ job.tag \in Tags
  BY <1>1, <1>2, JobTypes DEF Analysis
<1>4. /\ Held.artists = abandoned \cup {job.first, job.second}
      /\ Held.genres = abandoned \cup {job.genre}
      /\ Held'.artists = abandoned \cup {job'.first, job'.second}
      /\ Held'.genres = abandoned \cup {job'.genre}
  BY <1>1 DEF Held
<1>5. /\ \E x \in Refs : job' = [job EXCEPT !.second = x] /\ (db' # db => x = fresh)
      /\ Looked(name)
  <2>1. found \subseteq Refs
    BY DEF Named, Refs
  <2>2. UnknownArtistID \in Refs /\ 0 \in Refs /\ (fresh \in Ids => fresh \in Refs)
    BY Bounds DEF Special, Refs
  <2>3. CASE name \notin {NoName, job.tag.albumArtist}
    <3>1. FindOrCreate("second", name)
      BY <2>3 DEF findOrCreateTrackArtist
    <3>2. CASE found # {}
      <4>1. job' = [job EXCEPT !.second = CHOOSE a \in found : TRUE] /\ db' = db
        BY <3>1, <3>2 DEF FindOrCreate
      <4>2. (CHOOSE a \in found : TRUE) \in Refs
        BY <2>1, <3>2
      <4>. HIDE DEF found
      <4>. QED  BY <4>1, <4>2 DEF Looked
    <3>3. CASE found = {}
      <4>1. /\ Fresh \in Ids /\ job' = [job EXCEPT !.second = Fresh]
            /\ db' = [db EXCEPT !.last = Fresh, !.artists[Fresh] = NewArtist(name)]
        BY <3>1, <3>3 DEF FindOrCreate
      <4>. QED  BY <2>2, <4>1 DEF Looked
    <3>. QED  BY <3>2, <3>3
  <2>4. CASE name \in {NoName, job.tag.albumArtist}
    <3>1. db' = db /\ job' = [job EXCEPT !.second = IF job.tag.albumArtist = NoName
                                                    THEN UnknownArtistID ELSE 0]
      BY <2>4 DEF findOrCreateTrackArtist
    <3>. QED  BY <2>2, <3>1 DEF Looked
  <2>. QED  BY <2>3, <2>4
<1>6. PICK x \in Refs : job' = [job EXCEPT !.second = x] /\ (db' # db => x = fresh)
  BY <1>5
<1>. HIDE DEF fresh
<1>7. /\ job' \in Job /\ job'.cache = job.cache /\ job'.second = x
      /\ job'.first = job.first /\ job'.genre = job.genre
  BY <1>3, <1>6, JobFields
<1>8. /\ \A i \in Ids : i \in Held.artists => i \in Held'.artists
      /\ \A i \in Ids : i \in Held.genres => i \in Held'.genres
      /\ db' # db => Fresh \in Held'.artists
  BY <1>3, <1>4, <1>6, <1>7, Bounds DEF fresh
<1>9. name \in ArtistNames
  BY <1>3 DEF ArtistNames, NamesOf
<1>. HIDE DEF name
<1>10. /\ db' \in Database /\ Tables(db', Held') /\ Fewer(db, db') /\ Later(db, db')
       /\ SamePlaces(db, db')
  BY <1>1, <1>5, <1>8, <1>9, ArtistLooked
<1>. QED  BY <1>1, <1>7, <1>10, LookupStep

-----------------------------------------------------------------------------
(* The analyzer takes a task, and clears a media that is analysed again.   *)

\* The analysis holds nothing before it has looked anything up.
Early == {"idle", "setDuration", "refreshMedia", "load", "keep", "save"}

LEMMA EarlyHeld ==
    ASSUME IInv, pc \in Early, abandoned \subseteq abandoned'
    PROVE  /\ \A i \in Ids : i \in Held.artists => i \in Held'.artists
           /\ \A i \in Ids : i \in Held.genres => i \in Held'.genres
<1>1. Held = IF pc \in {"idle", "keep", "save"}
             THEN [artists |-> abandoned \cup {}, genres |-> abandoned \cup {}]
             ELSE [artists |-> abandoned \cup {job.first, job.second},
                   genres |-> abandoned \cup {job.genre}]
  BY DEF Held
<1>2. pc \notin {"idle", "keep", "save"} => job.genre = 0 /\ job.first = 0 /\ job.second = 0
  BY DEF IInv, Analysis, Early
<1>3. \A i \in Ids : /\ i \in Held.artists => i \in abandoned
                     /\ i \in Held.genres => i \in abandoned
  BY <1>1, <1>2, Bounds
<1>4. abandoned' \subseteq Held'.artists /\ abandoned' \subseteq Held'.genres
  BY DEF Held
<1>. QED  BY <1>3, <1>4

LEMMA EarlyStep ==
    ASSUME IInv, pc \in Early, abandoned \subseteq abandoned', Types', Tables(db', Held),
           pc' \in {"idle", "setDuration", "refreshMedia", "load", "genre", "save"},
           pc' \notin {"idle", "save"} => job'.genre = 0 /\ job'.first = 0 /\ job'.second = 0,
           pc' = "genre" => previous' = NoAlbum,
           pc' # "idle" => Faithful(db', job'.cache),
           Faithful(db', previous'),
           \A m \in Media : files'[m] = NoRow => ~Exists(db', m)
    PROVE  IInv'
<1>1. Tables(db', Held')
  BY EarlyHeld, HeldMore
<1>2. Analysis'
  BY DEF Analysis
<1>. QED  BY <1>1, <1>2 DEF IInv

LEMMA StillFaithful ==
    ASSUME IInv, Keeps(db, db', Held), NEW o \in Object \cup {NoAlbum}, Faithful(db, o)
    PROVE  Faithful(db', o)
<1>1. db \in Database /\ db' \in Database /\ Fewer(db, db') /\ Later(db, db')
  BY SameLast DEF IInv, Types, Keeps
<1>. QED  BY <1>1, FaithfulKept

LEMMA HoldingIsAJob ==
    ASSUME NEW m \in Media, NEW kind \in Kinds, NEW row \in MediaRow, NEW content \in Content,
           NEW j, j = Holding(m, kind, row, content)
    PROVE  /\ j \in Job /\ j.genre = 0 /\ j.first = 0 /\ j.second = 0 /\ j.cache = NoAlbum
BY DEF Holding, Job, MediaRow, Content, Refs

LEMMA CacheFields ==
    ASSUME NEW j \in Job, NEW o \in Object \cup {NoAlbum}, NEW k, k = [j EXCEPT !.cache = o]
    PROVE  /\ k \in Job /\ k.cache = o /\ k.genre = j.genre
           /\ k.first = j.first /\ k.second = j.second
BY DEF Job

LEMMA createFileAndMediaStep ==
    ASSUME IInv, NEW m \in Media, createFileAndMedia(m)
    PROVE  IInv'
<1>1. /\ pc = "idle" /\ files[m] = NoRow /\ pc' = "genre" /\ previous' = NoAlbum
      /\ tasks' = tasks \cup {<<m, "Creation">>} /\ UNCHANGED <<mounted, queued, abandoned>>
  BY DEF createFileAndMedia
<1>2. PICK content \in Content :
          LET row == [present |-> TRUE, internal |-> TRUE, track |-> FALSE,
                      duration |-> content.duration, album |-> 0, artist |-> 0, genre |-> 0]
          IN  /\ db' = [db EXCEPT !.media[m] = row]
              /\ files' = [files EXCEPT ![m] = content]
              /\ job' = [Holding(m, "Creation", row, content) EXCEPT !.cache = previous]
  BY DEF createFileAndMedia
<1>. DEFINE row == [present |-> TRUE, internal |-> TRUE, track |-> FALSE,
                    duration |-> content.duration, album |-> 0, artist |-> 0, genre |-> 0]
            j == Holding(m, "Creation", row, content)
<1>3. /\ db' = [db EXCEPT !.media[m] = row] /\ files' = [files EXCEPT ![m] = content]
      /\ job' = [j EXCEPT !.cache = previous]
  BY <1>2
<1>4. /\ Types /\ Tables(db, Held) /\ db \in Database /\ Faithful(db, previous)
      /\ previous \in Object \cup {NoAlbum} /\ \A t \in Media : files[t] = NoRow => ~Exists(db, t)
  BY DEF IInv, Types
<1>5. /\ row \in MediaRow /\ ~row.track /\ row.album = 0 /\ row.artist = 0 /\ row.genre = 0
  BY DEF MediaRow, Content, Refs
<1>. HIDE DEF row
<1>6. j \in Job /\ j.genre = 0 /\ j.first = 0 /\ j.second = 0
  BY <1>5, HoldingIsAJob DEF Kinds
<1>. HIDE DEF j
<1>7. /\ job' \in Job /\ job'.cache = previous /\ job'.genre = 0 /\ job'.first = 0
      /\ job'.second = 0
  BY <1>3, <1>4, <1>6, CacheFields
<1>8. Keeps(db, db', Held) /\ \A t \in Media \ {m} : Exists(db', t) <=> Exists(db, t)
  BY <1>1, <1>3, <1>4, <1>5, MediaComes
<1>9. db' \in Database /\ Tables(db', Held) /\ Faithful(db', previous)
  BY <1>4, <1>8, StillFaithful DEF Keeps
<1>10. content # NoRow
  BY CollectionAssumption
<1>11. Types'
  <2>1. files' \in [Media -> Content \cup {NoRow}]
    BY <1>3, <1>4 DEF Types
  <2>2. tasks' \subseteq Media \X Kinds /\ queued' \subseteq Media \X Kinds
    BY <1>1, <1>4 DEF Types, Kinds
  <2>. QED  BY <1>1, <1>4, <1>7, <1>9, <2>1, <2>2 DEF Types
<1>12. \A t \in Media : files'[t] = NoRow => ~Exists(db', t)
  <2>1. files'[m] = content /\ \A t \in Media \ {m} : files'[t] = files[t]
    BY <1>3, <1>4 DEF Types
  <2>. QED  BY <1>4, <1>8, <1>10, <2>1
<1>13. Faithful(db', previous')
  BY <1>1 DEF Faithful
<1>. QED  BY <1>1, <1>7, <1>9, <1>11, <1>12, <1>13, EarlyStep DEF Early

LEMMA TakeStep ==
    ASSUME IInv, NEW t \in queued, Take(t)
    PROVE  IInv'
<1>. DEFINE m == t[1]
            kind == t[2]
<1>1. /\ pc = "idle" /\ queued' = queued \ {t}
      /\ UNCHANGED <<db, mounted, files, tasks, previous, abandoned>>
  BY DEF Take
<1>2. /\ Types /\ Tables(db, Held) /\ db \in Database /\ Faithful(db, previous)
      /\ \A x \in Media : files[x] = NoRow => ~Exists(db, x)
  BY DEF IInv, Types
<1>3. m \in Media /\ kind \in Kinds
  BY <1>2 DEF Types
<1>4. queued' \subseteq Media \X Kinds
  BY <1>1, <1>2 DEF Types
<1>5. Tables(db', Held) /\ Faithful(db', previous')
      /\ \A x \in Media : files'[x] = NoRow => ~Exists(db', x)
  BY <1>1, <1>2
<1>6. CASE Exists(db, m)
  <2>1. /\ job' = Holding(m, kind, db.media[m], files[m])
        /\ pc' = IF kind = "Refresh" THEN "setDuration" ELSE "load"
    BY <1>6 DEF Take
  <2>2. db.media[m] \in MediaRow /\ files[m] \in Content
    BY <1>2, <1>3, <1>6, Rows DEF Types
  <2>3. /\ job' \in Job /\ job'.genre = 0 /\ job'.first = 0 /\ job'.second = 0
        /\ job'.cache = NoAlbum
    BY <1>3, <2>1, <2>2, HoldingIsAJob
  <2>4. Types'
    BY <1>1, <1>2, <1>4, <2>1, <2>3 DEF Types
  <2>5. Faithful(db', job'.cache)
    BY <2>3 DEF Faithful
  <2>. QED  BY <1>1, <1>5, <2>1, <2>3, <2>4, <2>5, EarlyStep DEF Early
<1>7. CASE ~Exists(db, m)
  <2>1. pc' = pc /\ job' = job
    BY <1>7 DEF Take
  <2>2. Types'
    BY <1>1, <1>2, <1>4, <2>1 DEF Types
  <2>. QED  BY <1>1, <1>5, <2>1, <2>2, EarlyStep DEF Early
<1>. QED  BY <1>6, <1>7

LEMMA LoadCacheStep ==
    ASSUME IInv, LoadCache
    PROVE  IInv'
<1>1. /\ pc = "load" /\ pc' = "genre" /\ job' = [job EXCEPT !.cache = previous]
      /\ previous' = NoAlbum /\ UNCHANGED <<db, mounted, files, tasks, queued, abandoned>>
  BY DEF LoadCache
<1>2. /\ Types /\ Tables(db, Held) /\ Analysis /\ Faithful(db, previous)
      /\ previous \in Object \cup {NoAlbum} /\ \A m \in Media : files[m] = NoRow => ~Exists(db, m)
  BY DEF IInv, Types
<1>3. job \in Job /\ job.genre = 0 /\ job.first = 0 /\ job.second = 0
  BY <1>1, <1>2, JobTypes DEF Analysis
<1>4. /\ job' \in Job /\ job'.cache = previous /\ job'.genre = 0 /\ job'.first = 0
      /\ job'.second = 0
  BY <1>1, <1>2, <1>3, CacheFields
<1>5. Types'
  BY <1>1, <1>2, <1>4 DEF Types
<1>6. Faithful(db', previous')
  BY <1>1 DEF Faithful
<1>. QED  BY <1>1, <1>2, <1>4, <1>5, <1>6, EarlyStep DEF Early

LEMMA DurationsAreIntegers == \A x \in Durations : x \in Int
BY CollectionAssumption

LEMMA AlbumShortened ==
    ASSUME NEW f \in Database, NEW i \in Refs, In(f.albums, i), NEW z \in Int,
           NEW row, row = [f.albums[i] EXCEPT !.duration = @ - z],
           NEW g, g = [f EXCEPT !.albums[i] = row]
    PROVE  OnlyDurations(f, g)
<1>1. i \in Ids /\ f.albums[i] \in AlbumRow
  BY Rows
<1>2. /\ row \in AlbumRow /\ row.artist = f.albums[i].artist
      /\ row.nb_tracks = f.albums[i].nb_tracks /\ row.is_present = f.albums[i].is_present
  BY <1>1 DEF AlbumRow
<1>3. row # NoRow
  BY <1>2, CollectionAssumption
<1>4. /\ g.media = f.media /\ g.genres = f.genres /\ g.artists = f.artists
      /\ g.relation = f.relation /\ g.last = f.last /\ g.albums = [f.albums EXCEPT ![i] = row]
  BY DEF Database
<1>5. g \in Database
  BY <1>1, <1>2 DEF Database
<1>6. \A j \in Ids : g.albums[j] = IF j = i THEN row ELSE f.albums[j]
  BY <1>1, <1>4 DEF Database
<1>7. \A j \in Ids : In(g.albums, j) <=> In(f.albums, j)
  BY <1>1, <1>3, <1>6 DEF In
<1>. QED  BY <1>1, <1>2, <1>4, <1>5, <1>6, <1>7 DEF OnlyDurations, Alike, Exists

LEMMA TrackRemoved ==
    ASSUME NEW d \in Database, NEW i \in Refs, NEW m, NEW z \in Int,
           NEW f, f = setSubTypeUnknown(d, m), f \in Database,
           NEW g, g = removeTrack(d, i, m, z)
    PROVE  OnlyDurations(f, g)
<1>1. CASE In(f.albums, i)
  <2>. DEFINE row == [f.albums[i] EXCEPT !.duration = @ - z]
  <2>1. g = [f EXCEPT !.albums[i] = row]
    BY <1>1 DEF removeTrack
  <2>2. row = [f.albums[i] EXCEPT !.duration = @ - z]
    OBVIOUS
  <2>. HIDE DEF row
  <2>. QED  BY <1>1, <2>1, <2>2, AlbumShortened
<1>2. CASE ~In(f.albums, i)
  <2>1. g = f
    BY <1>2 DEF removeTrack
  <2>. QED  BY <2>1 DEF OnlyDurations, Alike
<1>. QED  BY <1>1, <1>2

LEMMA setDurationStep ==
    ASSUME IInv, setDuration
    PROVE  IInv'
<1>. DEFINE m == job.media
            row == [db.media[m] EXCEPT !.duration = job.duration]
<1>1. /\ pc = "setDuration" /\ pc' = "refreshMedia"
      /\ db' = IF Exists(db, m) THEN [db EXCEPT !.media[m] = row] ELSE db
      /\ UNCHANGED <<mounted, files, tasks, queued, job, previous, abandoned>>
  BY DEF setDuration
<1>2. /\ Types /\ Tables(db, Held) /\ db \in Database /\ Analysis /\ Faithful(db, previous)
      /\ previous \in Object \cup {NoAlbum} /\ \A t \in Media : files[t] = NoRow => ~Exists(db, t)
  BY DEF IInv, Types
<1>3. /\ job \in Job /\ m \in Media /\ job.duration \in Durations
      /\ job.cache \in Object \cup {NoAlbum} /\ Faithful(db, job.cache)
      /\ job.genre = 0 /\ job.first = 0 /\ job.second = 0
  BY <1>1, <1>2, JobTypes DEF Analysis
<1>4. Keeps(db, db', Held) /\ SamePlaces(db, db')
  <2>1. CASE Exists(db, m)
    <3>1. db.media[m] \in MediaRow
      BY <1>2, <1>3, <2>1, Rows
    <3>2. /\ row \in MediaRow /\ row.present = db.media[m].present
          /\ row.track = db.media[m].track /\ row.album = db.media[m].album
          /\ row.artist = db.media[m].artist /\ row.genre = db.media[m].genre
      BY <1>3, <3>1 DEF MediaRow
    <3>3. db' = [db EXCEPT !.media[m] = row]
      BY <1>1, <2>1
    <3>. HIDE DEF row, m
    <3>. QED  BY <1>2, <1>3, <2>1, <3>2, <3>3, RowTouched
  <2>2. CASE ~Exists(db, m)
    <3>1. db' = db
      BY <1>1, <2>2
    <3>. QED  BY <1>2, <3>1, NothingMoves DEF Keeps
  <2>. QED  BY <2>1, <2>2
<1>5. /\ Tables(db', Held) /\ db' \in Database
      /\ Faithful(db', job'.cache) /\ Faithful(db', previous')
  BY <1>1, <1>2, <1>3, <1>4, StillFaithful DEF Keeps
<1>6. Types'
  BY <1>1, <1>2, <1>3, <1>5 DEF Types
<1>7. \A t \in Media : files'[t] = NoRow => ~Exists(db', t)
  BY <1>1, <1>2, <1>4 DEF SamePlaces
<1>. HIDE DEF m, row
<1>. QED  BY <1>1, <1>3, <1>5, <1>6, <1>7, EarlyStep DEF Early

\* An analysis that ends without success, whatever it held.
LEMMA FailStep ==
    ASSUME IInv, pc # "idle", Fail, UNCHANGED <<db, mounted, files, queued>>
    PROVE  IInv'
<1>1. /\ pc' = "idle" /\ job' = Idle /\ UNCHANGED <<tasks, previous>>
      /\ abandoned' = abandoned \cup {job.genre, job.first, job.second}
  BY DEF Fail
<1>2. Types'
  BY <1>1 DEF IInv, Types
<1>3. Tables(db', Held')
  <2>1. Held' = [artists |-> abandoned' \cup {}, genres |-> abandoned' \cup {}]
    BY <1>1 DEF Held
  <2>2. Held = IF pc \in {"idle", "keep", "save"}
               THEN [artists |-> abandoned \cup {}, genres |-> abandoned \cup {}]
               ELSE [artists |-> abandoned \cup {job.first, job.second},
                     genres |-> abandoned \cup {job.genre}]
    BY DEF Held
  <2>3. Held.artists \subseteq Held'.artists /\ Held.genres \subseteq Held'.genres
    BY <1>1, <2>1, <2>2
  <2>4. Tables(db, Held')
    BY <2>3, HeldMore DEF IInv
  <2>. QED  BY <2>4
<1>4. (\A m \in Media : files[m] = NoRow => ~Exists(db, m))'
  BY DEF IInv, Exists
<1>5. Analysis'
  BY <1>1 DEF Analysis
<1>6. Faithful(db, previous)'
  BY <1>1 DEF IInv, Faithful
<1>. QED  BY <1>2, <1>3, <1>4, <1>5, <1>6 DEF IInv

LEMMA refreshMediaStep ==
    ASSUME IInv, refreshMedia
    PROVE  IInv'
<1>. DEFINE m == job.media
            missing == ~Exists(db, job.media) \/ (job.track /\ ~In(db.albums, job.of))
            f == setSubTypeUnknown(db, m)
            g == removeTrack(db, job.of, m, job.duration)
            e == dropMediaArtistRelation(g, m)
<1>1. pc = "refreshMedia" /\ UNCHANGED <<mounted, files, queued>>
  BY DEF refreshMedia
<1>2. CASE missing
  <2>1. Fail /\ UNCHANGED db
    BY <1>2 DEF refreshMedia
  <2>. QED  BY <1>1, <2>1, FailStep
<1>3. CASE ~missing
  <2>1. /\ IF job.track THEN db' = e /\ pc' = "load" ELSE db' = db /\ pc' = "save"
        /\ job' = [job EXCEPT !.track = FALSE, !.of = 0]
        /\ UNCHANGED <<tasks, previous, abandoned>>
    BY <1>3 DEF refreshMedia
  <2>2. /\ Types /\ Tables(db, Held) /\ db \in Database /\ Analysis /\ Faithful(db, previous)
        /\ previous \in Object \cup {NoAlbum}
        /\ \A t \in Media : files[t] = NoRow => ~Exists(db, t)
    BY DEF IInv, Types
  <2>3. /\ job \in Job /\ m \in Media /\ job.of \in Refs /\ job.duration \in Durations
        /\ job.cache \in Object \cup {NoAlbum} /\ Faithful(db, job.cache)
        /\ job.genre = 0 /\ job.first = 0 /\ job.second = 0
    BY <1>1, <2>2, JobTypes DEF Analysis
  <2>10. job.duration \in Int
    BY <2>3, DurationsAreIntegers
  <2>4. Exists(db, m)
    BY <1>3
  <2>5. /\ job' \in Job /\ job'.cache = job.cache /\ job'.genre = 0 /\ job'.first = 0
        /\ job'.second = 0
    BY <2>1, <2>3 DEF Job, Refs
  <2>6. Keeps(db, db', Held) /\ SamePlaces(db, db')
    <3>1. CASE job.track
      <4>1. db' = e
        BY <2>1, <3>1
      <4>2. f = setSubTypeUnknown(db, m) /\ g = removeTrack(db, job.of, m, job.duration)
            /\ e = dropMediaArtistRelation(g, m)
        OBVIOUS
      <4>. HIDE DEF m, f, g, e
      <4>3. f \in Database => OnlyDurations(f, g)
        BY <2>2, <2>3, <2>10, <4>2, TrackRemoved
      <4>. QED  BY <2>2, <2>3, <2>4, <4>1, <4>2, <4>3, Unfiled
    <3>2. CASE ~job.track
      <4>1. db' = db
        BY <2>1, <3>2
      <4>. QED  BY <2>2, <4>1, NothingMoves DEF Keeps
    <3>. QED  BY <3>1, <3>2
  <2>. HIDE DEF m, f, g, e
  <2>7. /\ Tables(db', Held) /\ db' \in Database
        /\ Faithful(db', job'.cache) /\ Faithful(db', previous')
    BY <2>1, <2>2, <2>3, <2>5, <2>6, StillFaithful DEF Keeps
  <2>8. Types'
    BY <1>1, <2>1, <2>2, <2>5, <2>7 DEF Types
  <2>9. \A t \in Media : files'[t] = NoRow => ~Exists(db', t)
    BY <1>1, <2>2, <2>6 DEF SamePlaces
  <2>. QED  BY <1>1, <2>1, <2>5, <2>7, <2>8, <2>9, EarlyStep DEF Early
<1>. HIDE DEF missing
<1>. QED  BY <1>2, <1>3

-----------------------------------------------------------------------------
(* The analyzer finds the album, and what it keeps of it.                  *)

LEMMA ObjectIsFaithful ==
    ASSUME IInv, pc # "idle", NEW i \in Ids, In(db.albums, i), NEW o, o = ObjectOf(i)
    PROVE  o \in Object \cup {NoAlbum} /\ Faithful(db, o)
<1>1. db \in Database /\ job.media \in Media /\ Known(db)
  BY JobTypes DEF IInv, Types, Tables
<1>2. db.albums[i] \in AlbumRow
  BY <1>1, Rows DEF Refs
<1>3. i <= db.last
  <2>1. db.last \in Nat /\ i \in Nat
    BY <1>1, Bounds DEF Database
  <2>. QED  BY <1>1, <2>1 DEF Known
<1>4. /\ o.id = i /\ o.artist = db.albums[i].artist
  BY DEF ObjectOf
<1>5. o \in Object
  BY <1>1, <1>2 DEF ObjectOf, Object, AlbumRow, Refs
<1>. QED  BY <1>3, <1>4, <1>5 DEF Faithful

\* The analysis has chosen an album, or none, and has only to commit.
LEMMA AlbumStep ==
    ASSUME IInv, pc = "album", pc' = "commit",
           UNCHANGED <<db, mounted, files, tasks, queued, previous, abandoned>>,
           job' \in Job, job'.genre = job.genre, job'.first = job.first,
           job'.second = job.second,
           Faithful(db, job'.cache), Faithful(db, job'.album)
    PROVE  IInv'
<1>1. Types'
  BY DEF IInv, Types
<1>2. Tables(db, Held)'
  BY DEF IInv, Held
<1>3. (\A m \in Media : files[m] = NoRow => ~Exists(db, m))'
  BY DEF IInv, Exists
<1>4. Analysis'
  BY DEF IInv, Analysis, Faithful
<1>5. Faithful(db, previous)'
  BY DEF IInv, Faithful
<1>. QED  BY <1>1, <1>2, <1>3, <1>4, <1>5 DEF IInv

LEMMA AlbumFields ==
    ASSUME NEW j \in Job, NEW o \in Object \cup {NoAlbum}
    PROVE  /\ LET k == [j EXCEPT !.album = o]
              IN  /\ k \in Job /\ k.genre = j.genre /\ k.first = j.first
                  /\ k.second = j.second /\ k.cache = j.cache /\ k.album = o
           /\ LET k == [j EXCEPT !.album = o, !.cache = o]
              IN  /\ k \in Job /\ k.genre = j.genre /\ k.first = j.first
                  /\ k.second = j.second /\ k.cache = o /\ k.album = o
BY DEF Job

LEMMA findAlbumStep ==
    ASSUME IInv, findAlbum
    PROVE  IInv'
<1>1. /\ pc = "album" /\ pc' = "commit"
      /\ UNCHANGED <<db, mounted, files, tasks, queued, previous, abandoned>>
  BY DEF findAlbum
<1>2. /\ job \in Job /\ job.cache \in Object \cup {NoAlbum} /\ Faithful(db, job.cache)
  BY <1>1, JobTypes DEF IInv, Analysis
<1>3. Faithful(db, NoAlbum)
  BY DEF Faithful
<1>4. \/ \E o \in Object \cup {NoAlbum} : Faithful(db, o) /\ job' = [job EXCEPT !.album = o]
                                          /\ o = job.cache
      \/ \E o \in Object \cup {NoAlbum} : Faithful(db, o)
                                          /\ job' = [job EXCEPT !.album = o, !.cache = o]
  <2>1. CASE CacheHit
    BY <1>2, <2>1 DEF findAlbum
  <2>2. CASE \E i \in Candidates : job' = [job EXCEPT !.album = ObjectOf(i),
                                                      !.cache = ObjectOf(i)]
    <3>1. PICK i \in Candidates : job' = [job EXCEPT !.album = ObjectOf(i),
                                                     !.cache = ObjectOf(i)]
      BY <2>2
    <3>2. i \in Ids /\ In(db.albums, i)
      BY DEF Candidates
    <3>3. ObjectOf(i) \in Object \cup {NoAlbum} /\ Faithful(db, ObjectOf(i))
      BY <1>1, <3>2, ObjectIsFaithful
    <3>. QED  BY <3>1, <3>3
  <2>3. CASE job' = [job EXCEPT !.album = NoAlbum, !.cache = NoAlbum]
    BY <1>3, <2>3
  <2>. QED  BY <2>1, <2>2, <2>3 DEF findAlbum
<1>5. /\ job' \in Job /\ job'.genre = job.genre /\ job'.first = job.first
      /\ job'.second = job.second /\ Faithful(db, job'.cache) /\ Faithful(db, job'.album)
  <2>1. CASE \E o \in Object \cup {NoAlbum} : Faithful(db, o) /\ job' = [job EXCEPT !.album = o]
                                              /\ o = job.cache
    <3>1. PICK o \in Object \cup {NoAlbum} : Faithful(db, o) /\ job' = [job EXCEPT !.album = o]
      BY <2>1
    <3>2. /\ job' \in Job /\ job'.genre = job.genre /\ job'.first = job.first
          /\ job'.second = job.second /\ job'.cache = job.cache /\ job'.album = o
      BY <1>2, <3>1, AlbumFields, ZenonT(30)
    <3>. QED  BY <1>2, <3>1, <3>2
  <2>2. CASE \E o \in Object \cup {NoAlbum} : Faithful(db, o)
                                              /\ job' = [job EXCEPT !.album = o, !.cache = o]
    <3>1. PICK o \in Object \cup {NoAlbum} : /\ Faithful(db, o)
                                            /\ job' = [job EXCEPT !.album = o, !.cache = o]
      BY <2>2
    <3>2. /\ job' \in Job /\ job'.genre = job.genre /\ job'.first = job.first
          /\ job'.second = job.second /\ job'.cache = o /\ job'.album = o
      BY <1>2, <3>1, AlbumFields
    <3>. QED  BY <3>1, <3>2
  <2>. QED  BY <1>4, <2>1, <2>2
<1>. QED  BY <1>1, <1>5, AlbumStep

LEMMA handleUnknownAlbumStep ==
    ASSUME IInv, handleUnknownAlbum
    PROVE  IInv'
<1>. DEFINE found == {i \in Ids : In(db.albums, i) /\ db.albums[i].title = NoName
                                  /\ db.albums[i].artist = AlbumArtist}
            i == CHOOSE x \in found : TRUE
            o == IF found = {} THEN NoAlbum ELSE ObjectOf(i)
<1>1. /\ pc = "album" /\ pc' = "commit" /\ job' = [job EXCEPT !.album = o]
      /\ UNCHANGED <<db, mounted, files, tasks, queued, previous, abandoned>>
  BY DEF handleUnknownAlbum
<1>2. job \in Job /\ Faithful(db, job.cache)
  BY <1>1, JobTypes DEF IInv, Analysis
<1>3. o \in Object \cup {NoAlbum} /\ Faithful(db, o)
  <2>1. CASE found = {}
    BY <2>1 DEF Faithful
  <2>2. CASE found # {}
    <3>1. i \in found
      BY <2>2
    <3>2. i \in Ids /\ In(db.albums, i)
      BY <3>1
    <3>3. o = ObjectOf(i)
      BY <2>2
    <3>. HIDE DEF o, i, found
    <3>. QED  BY <1>1, <3>2, <3>3, ObjectIsFaithful
  <2>. QED  BY <2>1, <2>2
<1>. HIDE DEF o, found
<1>4. /\ job' \in Job /\ job'.genre = job.genre /\ job'.first = job.first
      /\ job'.second = job.second /\ job'.cache = job.cache /\ job'.album = o
  BY <1>1, <1>2, <1>3, AlbumFields
<1>. QED  BY <1>1, <1>2, <1>3, <1>4, AlbumStep

LEMMA KeepCacheStep ==
    ASSUME IInv, KeepCache
    PROVE  IInv'
<1>1. /\ pc = "keep" /\ pc' = "save" /\ previous' = IF flushed THEN previous ELSE job.cache
      /\ UNCHANGED <<db, mounted, files, tasks, queued, job, abandoned>>
  BY DEF KeepCache
<1>2. /\ Types /\ Tables(db, Held) /\ Faithful(db, previous) /\ Faithful(db, job.cache)
      /\ \A m \in Media : files[m] = NoRow => ~Exists(db, m)
  BY <1>1 DEF IInv, Analysis
<1>3. job \in Job /\ job.cache \in Object \cup {NoAlbum}
  BY <1>1, <1>2, JobTypes
<1>4. Types'
  BY <1>1, <1>2, <1>3 DEF Types
<1>5. Faithful(db', previous') /\ Faithful(db', job'.cache)
  BY <1>1, <1>2
<1>. QED  BY <1>1, <1>2, <1>4, <1>5, EarlyStep DEF Early

LEMMA saveParserStepStep ==
    ASSUME IInv, saveParserStep
    PROVE  IInv'
<1>1. /\ pc = "save" /\ pc' = "idle" /\ tasks' \subseteq tasks /\ job' = Idle
      /\ UNCHANGED <<db, mounted, files, queued, previous, abandoned>>
  BY DEF saveParserStep
<1>2. /\ Types /\ Tables(db, Held) /\ Faithful(db, previous)
      /\ \A m \in Media : files[m] = NoRow => ~Exists(db, m)
  BY DEF IInv
<1>3. Types'
  BY <1>1, <1>2 DEF Types
<1>4. Faithful(db', previous')
  BY <1>1, <1>2
<1>. QED  BY <1>1, <1>2, <1>3, <1>4, EarlyStep DEF Early

LEMMA Stutter ==
    ASSUME IInv, UNCHANGED vars
    PROVE  IInv'
<1>1. UNCHANGED <<db, mounted, files, tasks, queued, pc, job, previous, abandoned>>
  BY DEF vars, analyzer
<1>2. Types'
  BY <1>1 DEF IInv, Types
<1>3. Tables(db, Held)'
  BY <1>1 DEF IInv, Held
<1>4. (\A m \in Media : files[m] = NoRow => ~Exists(db, m))'
  BY <1>1 DEF IInv, Exists
<1>5. Analysis'
  BY <1>1 DEF IInv, Analysis, Faithful
<1>6. Faithful(db, previous)'
  BY <1>1 DEF IInv, Faithful
<1>. QED  BY <1>2, <1>3, <1>4, <1>5, <1>6 DEF IInv

-----------------------------------------------------------------------------
(* The analyzer commits.                                                   *)

\* The album is there, new or not, and nothing else is moved yet.
Destination(w, i) ==
    /\ w \in Database /\ Ready(w, Held, i)
    /\ SamePlaces(db, w) /\ Later(db, w) /\ w.relation = db.relation /\ w.genres = db.genres
    /\ \A j \in Ids \ {i} : In(w.albums, j) =>
          In(db.albums, j) /\ w.albums[j].artist = db.albums[j].artist

\* The rows that the media is about to refer to are still there.
RowsAreThere ==
    /\ Exists(db, job.media)
    /\ In(db.artists, AlbumArtist) /\ In(db.artists, TrackArtist)
    /\ job.genre # 0 => In(db.genres, job.genre)

LEMMA TheirIds ==
    ASSUME IInv, pc = "commit", RowsAreThere
    PROVE  /\ AlbumArtist \in Ids /\ TrackArtist \in Ids
           /\ Old(db, AlbumArtist) /\ Old(db, TrackArtist)
           /\ \A a \in Ids : a \in {job.first, job.second} => a \in {AlbumArtist, TrackArtist}
<1>1. db \in Database /\ Known(db) /\ job.first \in Refs /\ job.second \in Refs
  BY JobTypes DEF IInv, Types, Tables
<1>2. AlbumArtist \in Refs /\ TrackArtist \in Refs /\ AlbumArtist # 0 /\ TrackArtist # 0
  BY <1>1 DEF RowsAreThere, In, AlbumArtist, TrackArtist
<1>3. AlbumArtist \in Ids /\ TrackArtist \in Ids
  BY <1>2 DEF Refs
<1>4. \A a \in Ids : In(db.artists, a) => Old(db, a)
  <2>1. db.last \in Nat /\ \A a \in Ids : a \in Nat
    BY <1>1, Bounds DEF Database
  <2>2. \A a \in Ids : In(db.artists, a) => ~(db.last < a)
    BY <1>1 DEF Known
  <2>. QED  BY <2>1, <2>2 DEF Old
<1>5. \A a \in Ids : a \in {job.first, job.second} => a \in {AlbumArtist, TrackArtist}
  BY Bounds DEF AlbumArtist, TrackArtist
<1>. QED  BY <1>3, <1>4, <1>5 DEF RowsAreThere

\* What the analysis held is used: nothing is held any more.
LEMMA NothingIsHeld ==
    ASSUME IInv, pc = "commit", RowsAreThere, pc' = "keep", UNCHANGED abandoned,
           NEW w, NEW i, NEW e, Analyzed(w, e, job.media, i),
           SpecialArtists(e), Artists(e, Held), Albums(e, {}), Genres(e, Held)
    PROVE  Tables(e, Held')
<1>1. /\ Held.artists = abandoned \cup {job.first, job.second}
      /\ Held.genres = abandoned \cup {job.genre}
      /\ Held'.artists = abandoned /\ Held'.genres = abandoned
  BY DEF Held
<1>2. Artists(e, Held')
  <2>. SUFFICES ASSUME NEW a \in Ids, In(e.artists, a), a \notin Special, a \notin abandoned,
                       a \in {job.first, job.second}
                PROVE  Listed(e, a) # {}
    BY <1>1 DEF Artists
  <2>1. <<job.media, a>> \in e.relation
    BY TheirIds DEF Analyzed
  <2>2. <<job.media, a>> \in Listed(e, a)
    BY <2>1 DEF Listed
  <2>. QED  BY <2>2
<1>3. Genres(e, Held')
  BY <1>1 DEF Genres, Analyzed
<1>. QED  BY <1>2, <1>3 DEF Tables, Analyzed

\* The cache knows the artist of the album, which may just have changed.
LEMMA CacheIsFaithful ==
    ASSUME IInv, pc = "commit", NEW w, NEW i \in Ids, NEW e, Destination(w, i),
           Analyzed(w, e, job.media, i),
           NEW j, j = IF job.cache # NoAlbum /\ job.cache.id = i
                      THEN [job EXCEPT !.cache.artist = e.albums[i].artist] ELSE job
    PROVE  j \in Job /\ Faithful(e, j.cache)
<1>. DEFINE o == job.cache
            artist == e.albums[i].artist
<1>1. /\ db \in Database /\ job \in Job /\ o \in Object \cup {NoAlbum} /\ Faithful(db, o)
  BY JobTypes DEF IInv, Types, Analysis
<1>2. /\ w \in Database /\ e \in Database /\ In(e.albums, i) /\ e.last = w.last
      /\ Later(db, w) /\ Known(e)
  BY DEF Destination, Analyzed
<1>3. db.last \in Nat /\ e.last \in Nat /\ db.last <= e.last
  BY <1>1, <1>2, Bounds DEF Database, Later
<1>4. artist \in Refs
  BY <1>2, Rows DEF AlbumRow, Refs
<1>5. CASE o # NoAlbum /\ o.id = i
  <2>. DEFINE p == [o EXCEPT !.artist = artist]
  <2>1. o \in Object
    BY <1>1, <1>5
  <2>2. p \in Object /\ p.id = i /\ p.artist = artist
    BY <1>4, <1>5, <2>1 DEF Object
  <2>3. j = [job EXCEPT !.cache = p]
    BY <1>1, <1>5 DEF Job
  <2>. HIDE DEF p
  <2>4. j \in Job /\ j.cache = p
    BY <1>1, <2>2, <2>3, CacheFields
  <2>5. i <= e.last
    <3>1. i \in Nat /\ ~(e.last < i)
      BY <1>2, Bounds DEF Known
    <3>. QED  BY <1>3, <3>1
  <2>. QED  BY <2>2, <2>4, <2>5 DEF Faithful
<1>6. CASE o # NoAlbum /\ o.id # i
  <2>1. j = job
    BY <1>6
  <2>2. o.id \in Refs /\ o.id <= db.last
    BY <1>1, <1>6 DEF Faithful, Object
  <2>3. o.id <= e.last
    BY <1>3, <2>2, Bounds
  <2>4. ASSUME In(e.albums, o.id) PROVE e.albums[o.id].artist = o.artist
    <3>1. o.id \in Ids \ {i}
      BY <1>6, <2>2, <2>4 DEF In, Refs
    <3>2. In(w.albums, o.id) /\ e.albums[o.id].artist = w.albums[o.id].artist
      BY <2>4, <3>1 DEF Analyzed
    <3>3. In(db.albums, o.id) /\ w.albums[o.id].artist = db.albums[o.id].artist
      BY <3>1, <3>2 DEF Destination
    <3>. QED  BY <1>1, <1>6, <3>2, <3>3 DEF Faithful
  <2>. QED  BY <1>1, <2>1, <2>3, <2>4 DEF Faithful
<1>7. CASE o = NoAlbum
  BY <1>1, <1>7 DEF Faithful
<1>. QED  BY <1>5, <1>6, <1>7

\* The transaction, once its album is known.
LEMMA CommitStep ==
    ASSUME IInv, pc = "commit", RowsAreThere, NEW w, NEW i \in Ids, Destination(w, i),
           NEW current, current = w.albums[i].artist,
           NEW f, f = FiledTrack(w, job.media, i),
           Listings(f, i, job.media, current) \cap db.relation = {},
           db' = link(f, i, job.media, current),
           pc' = "keep",
           job' = IF job.cache # NoAlbum /\ job.cache.id = i
                  THEN [job EXCEPT !.cache.artist = db'.albums[i].artist] ELSE job,
           UNCHANGED <<mounted, files, tasks, queued, previous, abandoned>>
    PROVE  IInv'
<1>1. /\ Types /\ db \in Database /\ Analysis /\ previous = NoAlbum
      /\ job.genre \in Refs /\ job.media \in Media
      /\ \A m \in Media : files[m] = NoRow => ~Exists(db, m)
  BY JobTypes DEF IInv, Types, Analysis
<1>2. /\ w \in Database /\ Ready(w, Held, i) /\ Later(db, w) /\ SamePlaces(db, w)
      /\ w.relation = db.relation /\ w.genres = db.genres
  BY DEF Destination
<1>3. /\ AlbumArtist \in Ids /\ TrackArtist \in Ids
      /\ Old(w, AlbumArtist) /\ Old(w, TrackArtist)
  <2>1. db.last \in Nat /\ w.last \in Nat /\ Ids \subseteq Nat
    BY <1>1, <1>2, Bounds DEF Database
  <2>. QED  BY <1>2, <2>1, TheirIds DEF Old, Later
<1>4. Exists(w, job.media) /\ (job.genre # 0 => In(w.genres, job.genre))
  BY <1>1, <1>2 DEF RowsAreThere, SamePlaces
<1>5. Listings(f, i, job.media, current) \cap w.relation = {}
  BY <1>2
<1>6. /\ Analyzed(w, db', job.media, i)
      /\ SpecialArtists(db') /\ Artists(db', Held) /\ Albums(db', {}) /\ Genres(db', Held)
  BY <1>1, <1>2, <1>3, <1>4, <1>5, FiledAndListed
<1>7. Tables(db', Held')
  BY <1>6, NothingIsHeld
<1>8. job' \in Job /\ Faithful(db', job'.cache)
  BY <1>6, CacheIsFaithful
<1>9. db' \in Database /\ SamePlaces(db, db')
  BY <1>2, <1>6 DEF Analyzed, SamePlaces
<1>10. Types'
  BY <1>1, <1>8, <1>9 DEF Types
<1>11. (\A m \in Media : files[m] = NoRow => ~Exists(db, m))'
  BY <1>1, <1>9 DEF SamePlaces
<1>12. Analysis'
  BY <1>1, <1>8 DEF Analysis
<1>13. Faithful(db, previous)'
  BY <1>1 DEF Faithful
<1>. QED  BY <1>7, <1>10, <1>11, <1>12, <1>13 DEF IInv

LEMMA NewDestination ==
    ASSUME IInv, pc = "commit", RowsAreThere, NEW i \in Ids, i = Fresh,
           NEW w, w = WithNewAlbum(db, i)
    PROVE  Destination(w, i)
<1>. DEFINE title == job.tag.album
            artist == IF title = NoName THEN AlbumArtist ELSE 0
            row == [title |-> title, artist |-> artist, nb_tracks |-> 0, is_present |-> 0,
                    duration |-> 0]
<1>1. /\ db \in Database /\ Tables(db, Held) /\ job.tag \in Tags /\ i = db.last + 1
  BY JobTypes DEF IInv, Types, Fresh
<1>2. artist = 0 \/ In(db.artists, artist)
  BY DEF RowsAreThere
<1>3. artist \in Refs /\ title \in Titles
  BY <1>1, TheirIds DEF Refs, Titles, NamesOf
<1>4. row \in AlbumRow /\ row.nb_tracks = 0 /\ row.is_present = 0 /\ row.artist = artist
  BY <1>3 DEF AlbumRow
<1>5. w = UpdateArtist([db EXCEPT !.albums[i] = row, !.last = i], row.artist, 0, 0, 1)
  BY DEF WithNewAlbum
<1>. HIDE DEF row, artist
<1>6. Opened(db, w, i, row.artist) /\ Ready(w, Held, i)
  BY <1>1, <1>2, <1>4, <1>5, AlbumOpened
<1>7. Later(db, w)
  <2>1. db.last < i /\ db.last <= i
    BY <1>1, Next1 DEF Tables
  <2>. QED  BY <1>6, <2>1 DEF Later, Opened
<1>8. SamePlaces(db, w)
  BY <1>6 DEF Opened, SamePlaces, Exists
<1>9. \A j \in Ids \ {i} : In(w.albums, j) =>
          In(db.albums, j) /\ w.albums[j].artist = db.albums[j].artist
  BY <1>6 DEF Opened, In
<1>. QED  BY <1>6, <1>7, <1>8, <1>9 DEF Destination, Opened

LEMMA KnownDestination ==
    ASSUME IInv, pc = "commit", job.album # NoAlbum, NEW i, i = job.album.id,
           In(db.albums, i)
    PROVE  i \in Ids /\ Destination(db, i) /\ db.albums[i].artist = job.album.artist
<1>1. /\ db \in Database /\ Tables(db, Held) /\ job.album \in Object
      /\ Faithful(db, job.album)
  BY JobTypes DEF IInv, Types, Analysis
<1>2. i \in Ids /\ db.albums[i].artist = job.album.artist
  <2>1. i \in Refs
    BY <1>1 DEF Object
  <2>. QED  BY <1>1, <2>1 DEF Refs, In, Faithful
<1>3. Ready(db, Held, i)
  BY <1>1 DEF Ready, Tables, Albums
<1>. QED  BY <1>1, <1>2, <1>3, NothingMoves DEF Destination

LEMMA parseAudioFileStep ==
    ASSUME IInv, parseAudioFile
    PROVE  IInv'
<1>. DEFINE m == job.media
            isNew == job.album = NoAlbum
            i == IF isNew THEN Fresh ELSE job.album.id
            with == IF isNew THEN WithNewAlbum(db, i) ELSE db
            current == IF isNew THEN with.albums[i].artist ELSE job.album.artist
            filed == File(with, m, TRUE, i, TrackArtist, job.genre)
            refused == \/ ~Exists(db, m) \/ ~In(with.albums, i)
                       \/ ~In(db.artists, AlbumArtist) \/ ~In(db.artists, TrackArtist)
                       \/ job.genre # 0 /\ ~In(db.genres, job.genre)
                       \/ Listings(filed, i, m, current) \cap db.relation # {}
            linked == link(filed, i, m, current)
<1>1. pc = "commit" /\ (isNew => Fresh \in Ids) /\ UNCHANGED <<mounted, files, queued>>
  BY DEF parseAudioFile
<1>2. CASE refused
  <2>1. Fail /\ UNCHANGED db
    BY <1>2 DEF parseAudioFile
  <2>. QED  BY <1>1, <2>1, FailStep
<1>3. CASE ~refused
  <2>1. /\ db' = linked /\ pc' = "keep" /\ UNCHANGED <<tasks, previous, abandoned>>
        /\ job' = IF job.cache # NoAlbum /\ job.cache.id = i
                  THEN [job EXCEPT !.cache.artist = linked.albums[i].artist] ELSE job
    BY <1>3 DEF parseAudioFile
  <2>2. RowsAreThere /\ In(with.albums, i) /\ Listings(filed, i, m, current) \cap db.relation = {}
    BY <1>3 DEF RowsAreThere
  <2>3. filed = FiledTrack(with, m, i)
    BY DEF FiledTrack
  <2>4. i \in Ids /\ Destination(with, i) /\ current = with.albums[i].artist
    <3>1. CASE isNew
      <4>1. i \in Ids /\ i = Fresh /\ with = WithNewAlbum(db, i)
            /\ current = with.albums[i].artist
        BY <1>1, <3>1
      <4>. HIDE DEF i, with, current, isNew
      <4>. QED  BY <1>1, <2>2, <4>1, NewDestination
    <3>2. CASE ~isNew
      <4>1. i = job.album.id /\ with = db /\ current = job.album.artist /\ job.album # NoAlbum
        BY <3>2
      <4>. HIDE DEF i, with, current, isNew
      <4>. QED  BY <1>1, <2>2, <4>1, KnownDestination
    <3>. QED  BY <3>1, <3>2
  <2>5. db' = link(filed, i, m, current)
    BY <2>1
  <2>6. job' = IF job.cache # NoAlbum /\ job.cache.id = i
               THEN [job EXCEPT !.cache.artist = db'.albums[i].artist] ELSE job
    BY <2>1
  <2>. HIDE DEF i, with, current, filed, linked, isNew
  <2>. QED  BY <1>1, <2>1, <2>2, <2>3, <2>4, <2>5, <2>6, CommitStep
<1>. HIDE DEF refused
<1>. QED  BY <1>2, <1>3

-----------------------------------------------------------------------------
(* The invariant holds, and what it says of the counters, of the listings  *)
(* and of the rows.                                                        *)

LEMMA InitIInv == Init => IInv
<1>. SUFFICES ASSUME Init PROVE IInv
  OBVIOUS
<1>1. /\ db.media = [m \in Media |-> NoRow] /\ db.albums = NoRows /\ db.genres = NoRows
      /\ db.artists = DefaultArtists /\ db.relation = {} /\ db.last = 2
      /\ db = [media |-> db.media, albums |-> db.albums, genres |-> db.genres,
               artists |-> db.artists, relation |-> db.relation, last |-> db.last]
  BY DEF Init
<1>2. /\ mounted = TRUE /\ files = [m \in Media |-> NoRow] /\ tasks = {} /\ queued = {}
      /\ pc = "idle" /\ job = Idle /\ previous = NoAlbum
  BY DEF Init
<1>3. db \in Database
  <2>1. db.last \in Ids
    BY <1>1, CollectionAssumption DEF Ids
  <2>. QED  BY <1>1, <2>1, Default DEF Database
<1>4. Tables(db, Held)
  BY <1>1, <1>3, NothingFiled DEF Exists
<1>5. Types
  BY <1>2, <1>3 DEF Types
<1>. QED  BY <1>1, <1>2, <1>4, <1>5 DEF IInv, Analysis, Faithful, Exists

LEMMA NextIInv == IInv /\ [Next]_vars => IInv'
<1>. SUFFICES ASSUME IInv, [Next]_vars PROVE IInv'
  OBVIOUS
<1>1. CASE \E m \in Media : createFileAndMedia(m)
  BY <1>1, createFileAndMediaStep
<1>2. CASE \E t \in queued : Take(t)
  BY <1>2, TakeStep
<1>3. CASE LoadCache
  BY <1>3, LoadCacheStep
<1>4. CASE setDuration
  BY <1>4, setDurationStep
<1>5. CASE refreshMedia
  BY <1>5, refreshMediaStep
<1>6. CASE handleGenre
  BY <1>6, handleGenreStep
<1>7. CASE findOrCreateAlbumArtist
  BY <1>7, findOrCreateAlbumArtistStep
<1>8. CASE findOrCreateTrackArtist
  BY <1>8, findOrCreateTrackArtistStep
<1>9. CASE findAlbum
  BY <1>9, findAlbumStep
<1>10. CASE handleUnknownAlbum
  BY <1>10, handleUnknownAlbumStep
<1>11. CASE parseAudioFile
  BY <1>11, parseAudioFileStep
<1>12. CASE KeepCache
  BY <1>12, KeepCacheStep
<1>13. CASE saveParserStep
  BY <1>13, saveParserStepStep
<1>14. CASE \E m \in Media : DestroyMedia(m) \/ convertToExternal(m) \/ createRefreshTask(m)
  BY <1>14, DestroyMediaStep, convertToExternalStep, createRefreshTaskStep
<1>15. CASE setDevicePresent
  BY <1>15, setDevicePresentStep
<1>16. CASE Parser_flush
  BY <1>16, Parser_flushStep
<1>17. CASE forceRescan
  BY <1>17, forceRescanStep
<1>18. CASE Restart
  BY <1>18, RestartStep
<1>19. CASE UNCHANGED vars
  BY <1>19, Stutter
<1>. QED  BY <1>1, <1>2, <1>3, <1>4, <1>5, <1>6, <1>7, <1>8, <1>9, <1>10, <1>11, <1>12,
             <1>13, <1>14, <1>15, <1>16, <1>17, <1>18, <1>19 DEF Next, Analyze

\* Whatever happens to the media, the invariant stays: what each row counts, what each
\* track is listed with, what the analyzer has looked up and not used yet.
THEOREM Invariance == Spec => []IInv
BY InitIInv, NextIInv, PTL DEF Spec

\* The tables hold rows of their types, whatever the analyzer, the discoverer and the
\* devices do: an id is never given beyond the last one, the cache holds an album or none
\* (the schemas of src/Album.cpp, Artist.cpp and Genre.cpp).
THEOREM TypeCorrect == Spec => []TypeOK
<1>1. IInv => TypeOK
  <2>. SUFFICES ASSUME IInv PROVE TypeOK
    OBVIOUS
  <2>1. Types /\ db \in Database
    BY DEF IInv, Types
  <2>. QED  BY <2>1 DEF TypeOK, Types, Database
<1>. QED  BY <1>1, Invariance, PTL

\* CountersAreExact: the triggers keep the counters of albums, artists and genres equal to
\* the number of rows that refer to them, for any number of media, tags and restarts, in
\* whatever order analyses, removals, refreshes and devices come.
THEOREM CountersStayExact == Spec => []CountersAreExact
<1>1. IInv => CountersAreExact
  <2>. SUFFICES ASSUME IInv PROVE CountersAreExact
    OBVIOUS
  <2>1. Artists(db, Held) /\ Albums(db, {}) /\ Genres(db, Held)
    BY DEF IInv, Tables
  <2>2. \A i \in Ids : In(db.albums, i) => AlbumCounts(db, i)
    BY <2>1 DEF Albums
  <2>3. \A a \in Ids : In(db.artists, a) => ArtistCounts(db, a)
    BY <2>1 DEF Artists
  <2>4. \A g \in Ids : In(db.genres, g) => GenreCounts(db, g)
    BY <2>1 DEF Genres
  <2>5. \A i \in Ids : In(db.albums, i) =>
            /\ db.albums[i].nb_tracks = Cardinality(Tracks(db, i))
            /\ db.albums[i].is_present = Cardinality(Present(db, i))
    BY <2>2 DEF AlbumCounts
  <2>6. \A a \in Ids : In(db.artists, a) =>
            /\ db.artists[a].nb_tracks = Cardinality({r \in db.relation : r[2] = a})
            /\ db.artists[a].nb_albums
                  = Cardinality({i \in Ids : In(db.albums, i) /\ db.albums[i].artist = a})
    BY <2>3 DEF ArtistCounts, Listed, AlbumsOf
  <2>7. \A g \in Ids : In(db.genres, g) =>
            LET in == {m \in Media : Exists(db, m) /\ db.media[m].genre = g}
            IN  /\ db.genres[g].nb_tracks = Cardinality(in)
                /\ db.genres[g].is_present = Cardinality({m \in in : db.media[m].present})
    BY <2>4 DEF GenreCounts, InGenre, PresentIn
  <2>. QED  BY <2>5, <2>6, <2>7 DEF CountersAreExact
<1>. QED  BY <1>1, Invariance, PTL

\* ListingsAgree: a track is listed with its artist and with the artist of its album, and
\* a media that is no track with nobody, even when its analysis was interrupted, repeated
\* or overtaken (parseAudioFile, link and refreshMedia in MetadataParser.cpp).
THEOREM ListingsStayInAgreement == Spec => []ListingsAgree
<1>1. IInv => ListingsAgree
  <2>. SUFFICES ASSUME IInv, NEW m \in Media, Exists(db, m)
                PROVE  LET row == db.media[m]
                           listed == {a \in Ids : <<m, a>> \in db.relation}
                       IN  IF row.track
                           THEN /\ In(db.albums, row.album) /\ row.artist \in listed
                                /\ db.albums[row.album].artist \in listed \cup {VariousArtistID}
                           ELSE row.album = 0 /\ row.artist = 0 /\ row.genre = 0 /\ listed = {}
    BY DEF ListingsAgree
  <2>1. db \in Database /\ Agree(db)
    BY DEF IInv, Types, Tables
  <2>. QED  BY <2>1, RowsAgree
<1>. QED  BY <1>1, Invariance, PTL

\* EmptyRowsVanish: the last track that leaves takes its album, its artists and its genre
\* with it; what is left without a track is what an analysis holds or has left behind
\* (DeleteEmpty and DeleteArtistsWithoutTracks).
THEOREM EmptyRowsDoVanish == Spec => []EmptyRowsVanish
<1>1. IInv => EmptyRowsVanish
  <2>. SUFFICES ASSUME IInv PROVE EmptyRowsVanish
    OBVIOUS
  <2>. DEFINE held == (IF job = Idle THEN {} ELSE {job.genre, job.first, job.second})
                      \cup abandoned
  <2>1. /\ db \in Database /\ Artists(db, Held) /\ Albums(db, {}) /\ Genres(db, Held)
    BY DEF IInv, Types, Tables
  <2>2. Held.artists \subseteq held /\ Held.genres \subseteq held
    <3>1. pc # "idle" => job # Idle
      BY JobTypes, JobIsNotIdle DEF IInv
    <3>. QED  BY <3>1 DEF Held
  <2>. HIDE DEF held
  <2>3. \A i \in Ids : In(db.albums, i) => Tracks(db, i) # {}
    BY <2>1 DEF Albums
  <2>4. \A a \in Ids \ (Special \cup held) : In(db.artists, a) =>
            db.artists[a].nb_tracks + db.artists[a].nb_albums > 0
    <3>. SUFFICES ASSUME NEW a \in Ids, a \notin Special, a \notin held, In(db.artists, a)
                  PROVE  db.artists[a].nb_tracks + db.artists[a].nb_albums > 0
      OBVIOUS
    <3>1. ArtistCounts(db, a) /\ (Listed(db, a) # {} \/ AlbumsOf(db, a) # {})
      BY <2>1, <2>2 DEF Artists
    <3>2. IsFiniteSet(Listed(db, a)) /\ IsFiniteSet(AlbumsOf(db, a))
      BY <2>1, Countable
    <3>. QED  BY <3>1, <3>2, Count DEF ArtistCounts
  <2>5. \A g \in Ids \ held : In(db.genres, g) => db.genres[g].nb_tracks > 0
    <3>. SUFFICES ASSUME NEW g \in Ids, g \notin held, In(db.genres, g)
                  PROVE  db.genres[g].nb_tracks > 0
      OBVIOUS
    <3>1. GenreCounts(db, g) /\ InGenre(db, g) # {}
      BY <2>1, <2>2 DEF Genres
    <3>2. IsFiniteSet(InGenre(db, g))
      BY <2>1, Countable
    <3>. QED  BY <3>1, <3>2, Count DEF GenreCounts
  <2>. QED  BY <2>3, <2>4, <2>5 DEF EmptyRowsVanish, held
<1>. QED  BY <1>1, Invariance, PTL

=============================================================================
