------------------------------ MODULE Playlist ------------------------------
(***************************************************************************)
(* The playlists (src/Playlist.cpp): the rows that place media in a        *)
(* playlist, the triggers that keep their positions and the playlist's     *)
(* counters, the edits of the application and what happens to the media    *)
(* meanwhile.                                                              *)
(*                                                                         *)
(* An edit is a transaction and is one step with its triggers, as in       *)
(* MediaGroup.  Positions and counts are unsigned integers of the width    *)
(* the code has, made small here.                                          *)
(***************************************************************************)
EXTENDS Integers, FiniteSets, FiniteSetsExt, SequencesExt

CONSTANTS
    Media, Playlists, NoRow,
    Types,          \* the media types to explore
    Durations,      \* 0 is an unknown duration
    UIntMax,        \* UINT32_MAX
    Positions,      \* the positions to try, and
    Counts,         \* the numbers of items
    MaxItems,       \* bounds: the items of all playlists, and
    MaxSpoilt       \* the steps with spoilt counters

UInt == 0..UIntMax
Wrapped(n) == n % (UIntMax + 1)

MediaRow == [type : Types, is_present : BOOLEAN, duration : Durations, nb_playlists : Nat]
PlaylistRow == [nb : [Types -> Int], present : [Types -> Int],
                duration : Int, nb_duration_unknown : Int]

ASSUME PlaylistAssumption ==
    /\ IsFiniteSet(Media) /\ IsFiniteSet(Playlists)
    /\ NoRow \notin MediaRow \cup PlaylistRow
    /\ Types \subseteq {"Video", "Audio", "Unknown"}
    /\ Durations \subseteq Nat /\ 0 \in Durations
    /\ {UIntMax, MaxItems, MaxSpoilt} \subseteq Nat
    /\ Positions \subseteq UInt /\ Counts \subseteq UInt
    /\ MaxItems < UIntMax

VARIABLES
    media,      \* the rows of Media: what the playlists need of them
    playlists,  \* the rows of Playlist: their counters
    items,      \* the rows of PlaylistMediaRelation, by playlist
    spoilt      \* observation: the steps since an edit spoilt a playlist's counters

vars == <<media, playlists, items, spoilt>>

Item == [media : Media, position : Nat]

db == [media |-> media, playlists |-> playlists, items |-> items]
Exists(d, m) == d.media[m] # NoRow
IsPlaylist(d, p) == d.playlists[p] # NoRow

Empty == [nb |-> [t \in Types |-> 0], present |-> [t \in Types |-> 0],
          duration |-> 0, nb_duration_unknown |-> 0]

Init ==
    /\ media = [m \in Media |-> NoRow]
    /\ playlists = [p \in Playlists |-> NoRow]
    /\ items = [p \in Playlists |-> {}]
    /\ spoilt = [p \in Playlists |-> 0]

-----------------------------------------------------------------------------
(* Rows, triggers and counters *)

Occurrences(rows, m) == Cardinality({r \in rows : r.media = m})

\* What a number of items of a media add to the counters.
Share(row, n) ==
    [nb |-> [t \in Types |-> IF row.type = t THEN n ELSE 0],
     present |-> [t \in Types |-> IF row.type = t /\ row.is_present THEN n ELSE 0],
     duration |-> n * row.duration,
     nb_duration_unknown |-> IF row.duration = 0 THEN n ELSE 0]

Plus(c, share, sign) ==
    [nb |-> [t \in Types |-> c.nb[t] + sign * share.nb[t]],
     present |-> [t \in Types |-> c.present[t] + sign * share.present[t]],
     duration |-> c.duration + sign * share.duration,
     nb_duration_unknown |-> c.nb_duration_unknown + sign * share.nb_duration_unknown]

CounterAccumulator(d, rows) ==
    FoldSet(LAMBDA r, c : Plus(c, Share(d.media[r.media], 1), 1), Empty, rows)

\* Mutant: the rows at the new row's position and after stay where they are.
InsertOnly(rows, m, position) == rows \cup {[media |-> m, position |-> position]}

\* INSERT, and the trigger UpdateOrderOnInsert
Insert(rows, m, position) ==
    {IF r.position >= position THEN [r EXCEPT !.position = @ + 1] ELSE r : r \in rows}
    \cup {[media |-> m, position |-> position]}

\* DELETE, and the trigger UpdateOrderOnDelete: it runs for every row that goes
\* and moves those after it.
DeleteRows(rows, gone) ==
    {[r EXCEPT !.position = @ - Cardinality({g \in gone : g.position < r.position})]
        : r \in rows \ gone}

\* Mutant: the playlists a media is in are not counted again when its items change.
ForgetItems(d, p, rows) == [d EXCEPT !.items[p] = rows]

\* The triggers IncrementNbPlaylist and DecrementNbPlaylist of Media
SetItems(d, p, rows) ==
    [d EXCEPT !.items[p] = rows,
              !.media = [m \in Media |->
                 IF ~Exists(d, m) THEN NoRow
                 ELSE [d.media[m] EXCEPT !.nb_playlists = @ + Occurrences(rows, m)
                                                            - Occurrences(d.items[p], m)]]]

\* For every playlist the media is in, a change to its counters.
OfItems(d, m, Changed(_, _)) ==
    [d EXCEPT !.playlists = [p \in Playlists |->
        LET n == Occurrences(d.items[p], m)
            c == d.playlists[p]
        IN  IF c = NoRow \/ n = 0 THEN c ELSE Changed(c, n)]]

\* Mutant: a media that is in a playlist twice is counted once.
UpdateNbMediaOnce(d, m, row) ==
    OfItems(d, m, LAMBDA c, n :
        LET counted == Plus(Plus(c, Share(d.media[m], 1), -1), Share(row, 1), 1)
        IN  [counted EXCEPT !.duration = c.duration,
                            !.nb_duration_unknown = c.nb_duration_unknown])

UpdateNbMediaOnMediaChange(d, m, row) ==
    OfItems(d, m, LAMBDA c, n :
        LET counted == Plus(Plus(c, Share(d.media[m], n), -1), Share(row, n), 1)
        IN  [counted EXCEPT !.duration = c.duration,
                            !.nb_duration_unknown = c.nb_duration_unknown])

\* Once for each playlist, however often the media is in it.
UpdateDurationOnMediaChange(d, m, row) ==
    OfItems(d, m, LAMBDA c, n :
        LET counted == Plus(Plus(c, Share(d.media[m], 1), -1), Share(row, 1), 1)
        IN  [c EXCEPT !.duration = counted.duration,
                      !.nb_duration_unknown = counted.nb_duration_unknown])

UpdateMedia(d, m, row) ==
    [UpdateDurationOnMediaChange(UpdateNbMediaOnMediaChange(d, m, row), m, row)
        EXCEPT !.media[m] = row]

UpdateNbMediaOnMediaDeletion(d, m) ==
    LET old == d.media[m]
        counted == OfItems(d, m, LAMBDA c, n : Plus(c, Share(old, n), -1))
        deleted == [counted EXCEPT !.media[m] = NoRow]
    IN  IF old.nb_playlists = 0 THEN [d EXCEPT !.media[m] = NoRow]
        ELSE FoldSet(LAMBDA p, acc :
                        SetItems(acc, p, DeleteRows(acc.items[p],
                                            {r \in acc.items[p] : r.media = m})),
                     deleted, Playlists)

\* What the schema refuses: its CHECKs, and an item whose media is gone.
Valid(d) ==
    /\ \A p \in Playlists : IsPlaylist(d, p) =>
          \A t \in Types : d.playlists[p].present[t] <= d.playlists[p].nb[t]
    /\ \A p \in Playlists : \A r \in d.items[p] : Exists(d, r.media)

Commit(d, wrong) ==
    /\ Valid(d)
    /\ media' = d.media
    /\ playlists' = d.playlists
    /\ items' = d.items
    /\ spoilt' = [p \in Playlists |->
                    IF IsPlaylist(d, p) /\ (spoilt[p] > 0 \/ p \in wrong) THEN spoilt[p] + 1
                    ELSE 0]
    /\ MapThenSumSet(LAMBDA p : Cardinality(d.items[p]), Playlists) <= MaxItems
    /\ \A p \in Playlists : spoilt'[p] <= MaxSpoilt

-----------------------------------------------------------------------------
(* Playlist *)

Place(rows, r) == Cardinality({s \in rows : s.position < r.position})

\* media(nullptr)->items(): what is present, in order, from an offset
mediaItems(d, p, count, offset) ==
    LET shown == {r \in d.items[p] : d.media[r.media].is_present}
    IN  {r \in shown : Place(shown, r) >= offset /\ Place(shown, r) < offset + count}

\* addInternal(), the counters apart.  The position UINT32_MAX asks for the end.
addRows(d, p, list, position) ==
    LET At(i, rows) == IF position = UIntMax \/ Wrapped(position + i - 1) >= Cardinality(rows)
                       THEN Cardinality(rows) ELSE Wrapped(position + i - 1)
    IN  FoldLeftDomain(LAMBDA acc, i :
            SetItems(acc, p, Insert(acc.items[p], list[i], At(i, acc.items[p]))), d, list)

Inserted(d, p, list, position) ==
    LET count(c, m) == Plus(c, Share(d.media[m], 1), 1)
    IN  [addRows(d, p, list, position) EXCEPT !.playlists[p] = FoldLeft(count, @, list)]

InRange(rows, position, count) ==
    {r \in rows : r.position >= position /\ r.position < Wrapped(position + count)}

removeRows(d, p, position, count) ==
    SetItems(d, p, DeleteRows(d.items[p], InRange(d.items[p], position, count)))

\* The counters are those of the present items from this offset, ...
CountRemoved(d, p, position, count) ==
    CounterAccumulator(d, mediaItems(d, p, count, position))

\* ... the rows those of the positions.
Removed(d, p, position, count) ==
    [removeRows(d, p, position, count) EXCEPT
        !.playlists[p] = Plus(@, CountRemoved(d, p, position, count), -1)]

MoveIsNoop(from, position, count) ==
    count = 0 \/ (from <= position /\ Wrapped(position + 1) <= Wrapped(from + count))

mediaAt(d, p, position) == (CHOOSE r \in d.items[p] : r.position = position).media

CanMove(d, p, from, count) ==
    \A i \in from..(Wrapped(from + count) - 1) : \E r \in d.items[p] : r.position = i

MovedMedia(d, p, from, count) ==
    [i \in 1..Cardinality(InRange(d.items[p], from, count)) |-> mediaAt(d, p, from + i - 1)]

\* Mutant: the target is not moved back by what was taken out before it.
MovedAsIs(d, p, from, position, count) ==
    addRows(removeRows(d, p, from, count), p, MovedMedia(d, p, from, count), position)

Moved(d, p, from, position, count) ==
    addRows(removeRows(d, p, from, count), p, MovedMedia(d, p, from, count),
            IF position < from THEN position ELSE Wrapped(position - (count - 1)))

\* Listings by type, from the counters
IsListed(c, listing, includeMissing) ==
    LET nb == IF includeMissing THEN c.nb ELSE c.present
        Some(ts) == \E t \in ts \cap Types : nb[t] > 0
    IN  CASE listing = "Video" -> Some({"Video", "Unknown"})
          [] listing = "Audio" -> Some({"Audio"})
          [] listing = "VideoOnly" -> Some({"Video", "Unknown"}) /\ ~Some({"Audio"})
          [] listing = "AudioOnly" -> ~Some({"Video", "Unknown"}) /\ Some({"Audio"})
          [] listing = "All" -> TRUE

-----------------------------------------------------------------------------
(* Calls of the application, and of the parser for a playlist's file *)

createPlaylist(p) ==
    /\ ~IsPlaylist(db, p)
    /\ Commit([db EXCEPT !.playlists[p] = Empty], {})

\* By the application, or because its file is gone; the items go in cascade.
deletePlaylist(p) ==
    /\ IsPlaylist(db, p)
    /\ Commit([SetItems(db, p, {}) EXCEPT !.playlists[p] = NoRow], {})

\* append() is add() at UINT32_MAX.
add(p, list, position) ==
    /\ IsPlaylist(db, p)
    /\ \A i \in DOMAIN list : Exists(db, list[i])
    /\ Commit(Inserted(db, p, list, position), {})

removeItems(p, position, count) ==
    /\ IsPlaylist(db, p) /\ count # 0
    /\ LET gone == InRange(items[p], position, count)
           wrong == CountRemoved(db, p, position, count) # CounterAccumulator(db, gone)
       IN  Commit(Removed(db, p, position, count), IF wrong THEN {p} ELSE {})

move(p, from, position, count) ==
    /\ IsPlaylist(db, p)
    /\ ~MoveIsNoop(from, position, count) /\ CanMove(db, p, from, count)
    /\ Commit(Moved(db, p, from, position, count), {})

Cleared(d, p) == [SetItems(d, p, {}) EXCEPT !.playlists[p] = Empty]

\* Its file was modified, or its content is to be scanned again
\* (clearExternalPlaylistContent): the counters are right again.
clearContent(p) ==
    /\ IsPlaylist(db, p)
    /\ LET d == Cleared(db, p)
       IN  /\ media' = d.media /\ playlists' = d.playlists /\ items' = d.items
           /\ spoilt' = [spoilt EXCEPT ![p] = 0]

-----------------------------------------------------------------------------
(* The media *)

createMedia(m, type, duration) ==
    /\ ~Exists(db, m)
    /\ Commit([db EXCEPT !.media[m] = [type |-> type, is_present |-> TRUE,
                                       duration |-> duration, nb_playlists |-> 0]], {})

\* Its type is known, its duration, its device comes or goes.
updateMedia(m, row) ==
    /\ Exists(db, m)
    /\ row # media[m]
    /\ LET timed == row.duration # media[m].duration
       IN  Commit(UpdateMedia(db, m, row),
                  {p \in Playlists : timed /\ Occurrences(items[p], m) > 1})

setType(m, type) == updateMedia(m, [media[m] EXCEPT !.type = type])
setDuration(m, duration) == updateMedia(m, [media[m] EXCEPT !.duration = duration])
setPresent(m, present) == updateMedia(m, [media[m] EXCEPT !.is_present = present])

\* Its file is gone.
deleteMedia(m) ==
    /\ Exists(db, m)
    /\ Commit(UpdateNbMediaOnMediaDeletion(db, m), {})

Lists == {<<m>> : m \in Media} \cup {<<m, n>> : m, n \in Media}

Next ==
    \/ \E p \in Playlists : createPlaylist(p) \/ deletePlaylist(p) \/ clearContent(p)
    \/ \E p \in Playlists, list \in Lists, position \in Positions : add(p, list, position)
    \/ \E p \in Playlists, position \in Positions, count \in Counts :
          removeItems(p, position, count)
    \/ \E p \in Playlists, from \in Positions, position \in Positions, count \in Counts :
          move(p, from, position, count)
    \/ \E m \in Media, type \in Types, duration \in Durations : createMedia(m, type, duration)
    \/ \E m \in Media : deleteMedia(m)
    \/ \E m \in Media : Exists(db, m) /\
          \/ \E type \in Types : setType(m, type)
          \/ \E duration \in Durations : setDuration(m, duration)
          \/ \E present \in BOOLEAN : setPresent(m, present)

Spec == Init /\ [][Next]_vars

-----------------------------------------------------------------------------
(* Type correctness *)

\* Every row has the columns of its schema, and every item a media and a playlist.
TypeOK ==
    /\ media \in [Media -> MediaRow \cup {NoRow}]
    /\ playlists \in [Playlists -> PlaylistRow \cup {NoRow}]
    /\ \A p \in Playlists : items[p] \subseteq Item /\ (~IsPlaylist(db, p) => items[p] = {})
    /\ \A p \in Playlists : \A r \in items[p] : Exists(db, r.media)
    /\ spoilt \in [Playlists -> 0..MaxSpoilt]

(* What the playlists promise *)

\* The items of a playlist have the positions 0, 1, 2... whatever was inserted,
\* moved, removed or deleted: media() lists each of them at its place.
PositionsAreDense ==
    \A p \in Playlists :
        {r.position : r \in items[p]} = 0..(Cardinality(items[p]) - 1)

\* A playlist whose counters no edit spoilt counts its items by type, those that are
\* present, their duration and those whose duration is unknown; so it is listed
\* under the types of what it holds.
CountersMatchItems ==
    \A p \in Playlists : IsPlaylist(db, p) /\ spoilt[p] = 0 =>
        /\ playlists[p] = CounterAccumulator(db, items[p])
        /\ \A missing \in BOOLEAN :
              IsListed(playlists[p], "AudioOnly", missing) <=>
                 LET shown == {r \in items[p] : missing \/ media[r.media].is_present}
                 IN  shown # {} /\ \A r \in shown : media[r.media].type = "Audio"

\* A media knows how many items of all playlists are it: an external media that is
\* still in one is never removed as an old one.
NbPlaylistsIsExact ==
    \A m \in Media : Exists(db, m) =>
        media[m].nb_playlists = MapThenSumSet(LAMBDA p : Occurrences(items[p], m), Playlists)

\* The media of a playlist in the order of their positions
Order(rows) ==
    [i \in 1..Cardinality(rows) |-> (CHOOSE r \in rows : Place(rows, r) = i - 1).media]

InsertedInto(s, list, position) ==
    LET n == IF position < Len(s) THEN position ELSE Len(s)
    IN  SubSeq(s, 1, n) \o list \o SubSeq(s, n + 1, Len(s))

WithoutRange(s, position, count) ==
    SubSeq(s, 1, position) \o SubSeq(s, position + count + 1, Len(s))

\* IPlaylist::add(), remove() and move() do to the list of media what their
\* documentation says: a list is inserted in order, at the end if the position is
\* out of range; a moved range ends where the item it displaced was.  What reaches
\* beyond UINT32_MAX is left out: see MoveToTheEnd.
EditsMatchTheirDocumentation ==
    \A p \in Playlists : IsPlaylist(db, p) =>
        LET s == Order(items[p])
        IN  /\ \A m, n \in {k \in Media : Exists(db, k)}, position \in Positions :
                  Order(Inserted(db, p, <<m, n>>, position).items[p])
                      = InsertedInto(s, <<m, n>>, position)
            /\ \A from \in Positions, count \in Counts \ {0} : from + count <= Len(s) =>
                  /\ Order(Removed(db, p, from, count).items[p]) = WithoutRange(s, from, count)
                  /\ \A position \in Positions \ {UIntMax} :
                        ~MoveIsNoop(from, position, count) =>
                            Order(Moved(db, p, from, position, count).items[p]) =
                                InsertedInto(WithoutRange(s, from, count),
                                             SubSeq(s, from + 1, from + count),
                                             IF position < from THEN position
                                             ELSE position - count + 1)

-----------------------------------------------------------------------------
(* What the documentation promises and TLC refutes *)

\* IPlaylist::move(): "If the target position is out of range (ie greater than the
\* playlist size) the target position will be interpreted as the playlist size".
\* At UINT32_MAX, position + 1 wraps to 0 and the call is taken for a no-op.
MoveToTheEnd ==
    \A p \in Playlists, from \in Positions :
        IsPlaylist(db, p) /\ from + 1 < Cardinality(items[p]) =>
            ~MoveIsNoop(from, UIntMax, 1)

\* IPlaylist::duration(): "This is equal to the sum of the duration for all media
\* belonging to that playlist."  A media that is in it twice changes its duration
\* once; a range that is removed while an item is missing is not the one that is
\* subtracted.
DurationIsTheSum ==
    \A p \in Playlists : IsPlaylist(db, p) =>
        playlists[p].duration = CounterAccumulator(db, items[p]).duration
=============================================================================
