----------------------------- MODULE MediaGroup -----------------------------
(***************************************************************************)
(* The groups media are put in (src/MediaGroup.cpp, and what               *)
(* src/Media.cpp does to them): how a group is chosen, created, renamed    *)
(* and dissolved, and the triggers that keep its counters and remove it    *)
(* when its last media leaves.                                             *)
(*                                                                         *)
(* A statement and its triggers are one step; so is a transaction, the     *)
(* connection's write lock being held until it ends (module SWMRLock).  A  *)
(* statement that breaks a CHECK or a foreign key throws, and its          *)
(* transaction is rolled back: the step is not enabled.  A media is alone  *)
(* on its device.                                                          *)
(***************************************************************************)
EXTENDS Integers, FiniteSets, FiniteSetsExt

CONSTANTS
    Media,          \* the media that may be created
    Groups,         \* bounds how many groups there are at once
    NoRow,          \* a row that is not in its table, a null group_id
    Titles,         \* the media's titles
    Prefixes,       \* their beginnings, "the " left out
    PrefixOf,       \* the prefix of each title
    Types,          \* the media types to explore
    MaxDuration, MaxEdits       \* bounds

Video == "Video"
Unknown == "Unknown"
Names == Titles \cup Prefixes \cup {""}
Durations == 0..MaxDuration

MediaRow == [type : Types, internal : BOOLEAN, is_present : BOOLEAN, played : BOOLEAN,
             duration : Durations, title : Titles, group : Groups \cup {NoRow}]
GroupRow == [name : Names, user_interacted : BOOLEAN, forced_singleton : BOOLEAN,
             nb : [Types -> Int], present : [Types -> Int],
             seen : Int, present_seen : Int, external : Int, duration : Int]

ASSUME MediaGroupAssumption ==
    /\ IsFiniteSet(Media) /\ IsFiniteSet(Groups)
    /\ NoRow \notin Groups \cup MediaRow \cup GroupRow
    /\ PrefixOf \in [Titles -> Prefixes]
    /\ Titles \cap Prefixes = {} /\ "" \notin Titles \cup Prefixes
    /\ {Video, Unknown} \subseteq Types /\ Types \subseteq {Video, "Audio", Unknown}
    /\ MaxDuration \in Nat \ {0} /\ MaxEdits \in Nat

VARIABLES
    media,      \* the rows of Media: what the groups need of them
    groups,     \* the rows of MediaGroup
    borne,      \* the titles each media has had: an object fetched earlier has one of them
    outdated,   \* observation: the singletons that still bear such an earlier title
    lossy,      \* observation: the groups whose counters an external media spoilt
    edits       \* bound: how often something was named, changed or spoilt

vars == <<media, groups, borne, outdated, lossy, edits>>

db == [media |-> media, groups |-> groups]
Exists(d, m) == d.media[m] # NoRow
Members(d, g) == {m \in Media : Exists(d, m) /\ d.media[m].group = g}

Init ==
    /\ media = [m \in Media |-> NoRow]
    /\ groups = [g \in Groups |-> NoRow]
    /\ borne = [m \in Media |-> {}]
    /\ outdated = {}
    /\ lossy = {}
    /\ edits = 0

-----------------------------------------------------------------------------
(* The triggers *)

Bit(b) == IF b THEN 1 ELSE 0

\* What a row adds to its group's counters: those of its type and the number of
\* media that were played...
ByType(row) ==
    [nb |-> [t \in Types |-> Bit(row.type = t)],
     present |-> [t \in Types |-> Bit(row.type = t /\ row.is_present)],
     seen |-> Bit(row.played), present_seen |-> Bit(row.played /\ row.is_present),
     external |-> 0]

\* ... or, where the way it was imported counts, those of its type or nb_external.
ByImport(row) ==
    [nb |-> [t \in Types |-> Bit(row.internal /\ row.type = t)],
     present |-> [t \in Types |-> Bit(row.internal /\ row.type = t /\ row.is_present)],
     seen |-> 0, present_seen |-> 0, external |-> Bit(~row.internal)]

\* ... or, where it comes or goes with its device, what is present.
Presence(row) ==
    [nb |-> [t \in Types |-> 0], present |-> [t \in Types |-> Bit(row.type = t)],
     seen |-> 0, present_seen |-> Bit(row.played), external |-> 0]

IsEmpty(row) == row.external = 0 /\ \A t \in Types : row.nb[t] = 0

\* Mutant: the group of the last media stays.
DeleteNothing(row) == row

DeleteEmptyGroups(row) == IF IsEmpty(row) THEN NoRow ELSE row

Plus(row, share, sign) ==
    [row EXCEPT !.nb = [t \in Types |-> @[t] + sign * share.nb[t]],
                !.present = [t \in Types |-> @[t] + sign * share.present[t]],
                !.seen = @ + sign * share.seen,
                !.present_seen = @ + sign * share.present_seen,
                !.external = @ + sign * share.external]

Add(gs, g, share, sign) ==
    IF g = NoRow \/ gs[g] = NoRow THEN gs
    ELSE [gs EXCEPT ![g] = DeleteEmptyGroups(Plus(@, share, sign))]

UpdateNbMediaPerType(gs, old, new) ==
    IF new.internal /\ (<<old.group, old.type, old.played>> # <<new.group, new.type, new.played>>)
    THEN Add(Add(gs, new.group, ByType(new), 1), old.group, ByType(old), -1)
    ELSE gs

UpdateNbMediaOnImportTypeChange(gs, old, new) ==
    IF (old.group # new.group /\ ~new.internal) \/ old.internal # new.internal
    THEN Add(Add(gs, new.group, ByImport(new), 1), old.group, ByImport(old), -1)
    ELSE gs

AddDuration(gs, g, duration) ==
    IF g = NoRow \/ gs[g] = NoRow THEN gs ELSE [gs EXCEPT ![g].duration = @ + duration]

\* Mutant: a media that leaves takes nothing with it.
UpdateDurationOfNewGroup(gs, old, new) == AddDuration(gs, new.group, new.duration)

UpdateDurationOnMediaChange(gs, old, new) ==
    AddDuration(AddDuration(gs, old.group, -old.duration), new.group, new.duration)

\* Mutant: what went missing is still counted as present.
IgnorePresenceChange(gs, old, new) == gs

UpdateMediaCountOnPresenceChange(gs, old, new) ==
    IF old.is_present # new.is_present
    THEN Add(gs, new.group, Presence(new), IF new.is_present THEN 1 ELSE -1)
    ELSE gs

\* Mutant: a media's new title leaves its singleton alone.
RenameNothing(gs, old, new) == gs

RenameForcedSingleton(gs, old, new) ==
    IF old.title # new.title /\ new.group # NoRow /\ gs[new.group].forced_singleton
    THEN [gs EXCEPT ![new.group].name = new.title]
    ELSE gs

\* UPDATE Media
Update(d, m, row) ==
    LET old == d.media[m]
        Renamed == RenameForcedSingleton(d.groups, old, row)
        Timed == UpdateDurationOnMediaChange(Renamed, old, row)
        Shown == UpdateMediaCountOnPresenceChange(Timed, old, row)
        Typed == UpdateNbMediaPerType(Shown, old, row)
    IN  [media |-> [d.media EXCEPT ![m] = row],
         groups |-> UpdateNbMediaOnImportTypeChange(Typed, old, row)]

\* DELETE FROM Media, with the triggers DecrementNbMediaOnDeletion (which counts a
\* row by its type however it was imported) and UpdateDurationOnMediaDeletion.
Delete(d, m) ==
    LET old == d.media[m]
    IN  [media |-> [d.media EXCEPT ![m] = NoRow],
         groups |-> Add(AddDuration(d.groups, old.group, -old.duration),
                        old.group, ByType(old), -1)]

\* What the schema refuses: its CHECKs and the restricted group_id.
Valid(d) ==
    /\ \A g \in Groups : d.groups[g] # NoRow =>
          /\ \A t \in Types : d.groups[g].present[t] <= d.groups[g].nb[t]
          /\ d.groups[g].present_seen <= d.groups[g].seen
    /\ \A m \in Media : Exists(d, m) /\ d.media[m].group # NoRow =>
          d.groups[d.media[m].group] # NoRow

\* What loses count of a grouped external media: the triggers that follow a type, a
\* play count or a deletion look at the media's type, not at how it was imported.
Spoils(old, new) ==
    /\ ~old.internal
    /\ \/ new = NoRow /\ old.group # NoRow
       \/ new # NoRow /\ new.group # old.group /\ new.played
       \/ /\ new # NoRow /\ old.group # NoRow
          /\ new.played # old.played \/ (new.internal /\ new.type # old.type)

\* What gave its title to a new singleton was out of date; a new title puts it right.
Misnamed(g) == groups[g] = NoRow \/ g \in outdated

Transaction(d, isEdit) ==
    /\ Valid(d)
    /\ media' = d.media
    /\ groups' = d.groups
    /\ borne' = [m \in Media |-> IF Exists(d, m) THEN borne[m] \cup {d.media[m].title} ELSE {}]
    /\ outdated' = {g \in Groups : /\ Misnamed(g)
                                   /\ d.groups[g] # NoRow /\ d.groups[g].forced_singleton
                                   /\ \E m \in Members(d, g) :
                                         d.groups[g].name # d.media[m].title}
    /\ LET spoiling == {m \in Media : Exists(db, m) /\ Spoils(media[m], d.media[m])}
           touched == {media[m].group : m \in spoiling}
                      \cup {d.media[m].group : m \in {s \in spoiling : Exists(d, s)}}
       IN  /\ edits' = edits + Bit(isEdit \/ spoiling # {})
           /\ edits' <= MaxEdits
           /\ lossy' = {g \in (lossy \cup touched) \ {NoRow} : d.groups[g] # NoRow}

Commit(d) == Transaction(d, FALSE)
CommitEdit(d) == Transaction(d, TRUE)

-----------------------------------------------------------------------------
(* MediaGroup: what a transaction of one thread does to the two tables *)

NewGroup(d) == CHOOSE g \in Groups : d.groups[g] = NoRow
HasRoom(d, n) == Cardinality({g \in Groups : d.groups[g] = NoRow}) >= n

create(d, name, userInitiated, isForcedSingleton) ==
    [d EXCEPT !.groups[NewGroup(d)] =
        [name |-> name, user_interacted |-> userInitiated,
         forced_singleton |-> isForcedSingleton,
         nb |-> [t \in Types |-> 0], present |-> [t \in Types |-> 0],
         seen |-> 0, present_seen |-> 0, external |-> 0, duration |-> 0]]

\* Mutant: the group a media joins is still taken for the singleton it was.
addOnly(d, g, m, initForceSingleton) == Update(d, m, [d.media[m] EXCEPT !.group = g])

add(d, g, m, initForceSingleton) ==
    LET joined == Update(d, m, [d.media[m] EXCEPT !.group = g])
    IN  IF joined.groups[g] # NoRow /\ ~initForceSingleton
        THEN [joined EXCEPT !.groups[g].forced_singleton = FALSE]
        ELSE joined

\* The title is that of an object that may have been fetched before the transaction.
remove(d, m, title) == add(create(d, title, FALSE, TRUE), NewGroup(d), m, TRUE)

Prefix(name) == IF name \in Titles THEN PrefixOf[name] ELSE name

commonPattern(a, b) ==
    CASE a = b -> a
      [] a # b /\ Prefix(a) = Prefix(b) -> Prefix(a)
      [] OTHER -> ""

\* Groups are renamed by the library (userInitiated is false) or by the user.
Named(d, g, name, userInitiated) ==
    IF name = "" \/ d.groups[g].forced_singleton \/ name = d.groups[g].name THEN d
    ELSE [d EXCEPT !.groups[g].name = name, !.groups[g].user_interacted = @ \/ userInitiated]

fetchMatching(d, prefix) ==
    {g \in Groups : /\ d.groups[g] # NoRow /\ ~d.groups[g].forced_singleton
                    /\ Prefix(d.groups[g].name) = prefix}

fetchMatchingUngrouped(d, title) ==
    {m \in Media : /\ Exists(d, m) /\ d.media[m].group # NoRow
                   /\ d.groups[d.media[m].group].forced_singleton
                   /\ Prefix(d.media[m].title) = Prefix(title)}

-----------------------------------------------------------------------------
(* Listings *)

AllTypes == Unknown

fromMediaGroup(g, type, includeMissing) ==
    {m \in Members(db, g) : /\ media[m].internal
                            /\ includeMissing \/ media[m].is_present
                            /\ type = AllTypes \/ media[m].type = type}

listAll(type, includeMissing) ==
    {g \in Groups : /\ groups[g] # NoRow
                    /\ \E t \in Types : /\ type = AllTypes \/ t = type
                                        /\ IF includeMissing THEN groups[g].nb[t] > 0
                                           ELSE groups[g].present[t] > 0}

-----------------------------------------------------------------------------
(* The application's calls *)

createMediaGroup(name) ==
    /\ HasRoom(db, 1)
    /\ CommitEdit(create(db, name, TRUE, FALSE))

\* The media follow, one by one and in no transaction (addToGroup).
createMediaGroupOf(S) ==
    /\ HasRoom(db, 1)
    /\ S # {} /\ \A m \in S : Exists(db, m)
    /\ LET first == CHOOSE m \in S : TRUE
           name == FoldSet(LAMBDA m, n : commonPattern(n, media[m].title), media[first].title, S)
       IN  CommitEdit(create(db, name, TRUE, FALSE))

addToGroup(m, g) ==
    /\ Exists(db, m) /\ groups[g] # NoRow
    /\ media[m].group # g
    /\ Commit(add(db, g, m, FALSE))

removeFromGroup(m, title) ==
    /\ Exists(db, m) /\ media[m].group # NoRow
    /\ title \in borne[m]
    /\ HasRoom(db, 1)
    /\ Commit(remove(db, m, title))

rename(g, name) ==
    /\ groups[g] # NoRow
    /\ CommitEdit(Named(db, g, name, TRUE))

destroy(g) ==
    LET content == fromMediaGroup(g, AllTypes, FALSE)
    IN  /\ groups[g] # NoRow /\ ~groups[g].forced_singleton
        /\ HasRoom(db, Cardinality(content))
        /\ Commit(FoldSet(LAMBDA m, d : remove(d, m, d.media[m].title), db, content))

regroup(m, title) ==
    /\ Exists(db, m) /\ media[m].group # NoRow
    /\ title \in borne[m]
    /\ groups[media[m].group].forced_singleton
    /\ HasRoom(db, 1)
    /\ LET g == NewGroup(db)
           alone == add(create(db, title, FALSE, FALSE), g, m, FALSE)
           candidates == fetchMatchingUngrouped(alone, title)
           name == FoldSet(LAMBDA c, n : commonPattern(n, media[c].title), title, candidates)
           joined == FoldSet(LAMBDA c, d : add(d, g, c, FALSE), alone, candidates)
       IN  Commit(Named(joined, g, name, FALSE))

\* Whether the library may still change the title is left out.
setTitle(m, title) ==
    /\ Exists(db, m)
    /\ media[m].title # title
    /\ CommitEdit(Update(db, m, [media[m] EXCEPT !.title = title]))

setType(m, type) ==
    /\ Exists(db, m)
    /\ media[m].type # type
    /\ CommitEdit(Update(db, m, [media[m] EXCEPT !.type = type]))

\* markAsPlayed(), setLastPosition(), setPlayCount() or, to forget it,
\* removeFromHistory() and clearHistory()
setPlayed(m, played) ==
    /\ Exists(db, m)
    /\ CommitEdit(Update(db, m, [media[m] EXCEPT !.played = played]))

setDuration(m, duration) ==
    /\ Exists(db, m)
    /\ media[m].duration # duration
    /\ CommitEdit(Update(db, m, [media[m] EXCEPT !.duration = duration]))

-----------------------------------------------------------------------------
(* The parser and the discoverer *)

createMedia(m, type, title, duration) ==
    /\ ~Exists(db, m)
    /\ Commit([db EXCEPT !.media[m] =
          [type |-> type, internal |-> TRUE, is_present |-> TRUE, played |-> FALSE,
           duration |-> duration, title |-> title, group |-> NoRow]])

Create(d, m, title) == add(create(d, title, FALSE, FALSE), NewGroup(d), m, FALSE)

\* The groups whose name has most in common with the title: the first is taken, and
\* nothing orders them.
Targets(d, title) ==
    LET found == fetchMatching(d, Prefix(title))
        same == {g \in found : d.groups[g].name = title}
    IN  IF same = {} THEN found ELSE same

AssignTo(d, g, m, title) ==
    LET named == IF d.groups[g].user_interacted THEN d
                 ELSE Named(d, g, commonPattern(d.groups[g].name, title), FALSE)
    IN  add(named, g, m, FALSE)

assignMediaToGroup(m, title) ==
    /\ Exists(db, m) /\ media[m].internal
    /\ media[m].group = NoRow /\ media[m].type = Video
    /\ title \in borne[m]
    /\ \/ Targets(db, title) = {} /\ HasRoom(db, 1) /\ Commit(Create(db, m, title))
       \/ \E g \in Targets(db, title) : Commit(AssignTo(db, g, m, title))

\* The folder of the media is banned; only what is present is converted.
convertToExternal(m) ==
    /\ Exists(db, m)
    /\ media[m].internal /\ media[m].is_present
    /\ Commit(Update(db, m, [media[m] EXCEPT !.internal = FALSE]))

\* It is discovered again.
overrideExternalMedia(m, type, duration) ==
    /\ Exists(db, m) /\ ~media[m].internal
    /\ CommitEdit(Update(db, m, [media[m] EXCEPT !.internal = TRUE, !.type = type,
                                             !.duration = duration]))

\* Its device comes or goes.
setPresent(m, present) ==
    /\ Exists(db, m)
    /\ media[m].internal /\ media[m].is_present # present
    /\ Commit(Update(db, m, [media[m] EXCEPT !.is_present = present]))

\* Its file is gone, or it is an old external media.
deleteMedia(m) ==
    /\ Exists(db, m)
    /\ Commit(Delete(db, m))

Next ==
    \/ \E name \in Titles : createMediaGroup(name)
    \/ \E S \in SUBSET Media : createMediaGroupOf(S)
    \/ \E m \in Media, g \in Groups : addToGroup(m, g)
    \/ \E m \in Media, title \in Titles : removeFromGroup(m, title)
    \/ \E g \in Groups, name \in Names : rename(g, name)
    \/ \E g \in Groups : destroy(g)
    \/ \E m \in Media, title \in Titles : regroup(m, title)
    \/ \E m \in Media, title \in Titles : setTitle(m, title)
    \/ \E m \in Media, type \in Types : setType(m, type)
    \/ \E m \in Media, played \in BOOLEAN : setPlayed(m, played)
    \/ \E m \in Media, duration \in Durations : setDuration(m, duration)
    \/ \E m \in Media, type \in Types, title \in Titles : createMedia(m, type, title, 1)
    \/ \E m \in Media, title \in Titles : assignMediaToGroup(m, title)
    \/ \E m \in Media : convertToExternal(m)
    \/ \E m \in Media, type \in Types, duration \in Durations :
          overrideExternalMedia(m, type, duration)
    \/ \E m \in Media, present \in BOOLEAN : setPresent(m, present)
    \/ \E m \in Media : deleteMedia(m)

Spec == Init /\ [][Next]_vars

-----------------------------------------------------------------------------
(* Type correctness *)

\* Every row has the columns of its schema, and no media points at a group that
\* is gone.
TypeOK ==
    /\ media \in [Media -> MediaRow \cup {NoRow}]
    /\ groups \in [Groups -> GroupRow \cup {NoRow}]
    /\ borne \in [Media -> SUBSET Titles]
    /\ outdated \subseteq Groups /\ lossy \subseteq Groups /\ edits \in 0..MaxEdits
    /\ \A m \in Media : Exists(db, m) /\ media[m].group # NoRow => groups[media[m].group] # NoRow

(* What the groups promise *)

\* IMediaGroup::nbTotalMedia(), or nbPresentMedia()
Total(g, includeMissing) ==
    MapThenSumSet(LAMBDA t : IF includeMissing THEN groups[g].nb[t] ELSE groups[g].present[t],
                  Types)

\* A group that no external media spoilt counts its internal media by type and the
\* present ones among them, those that were played and the external ones: what its
\* listings return, and whether it is listed, follow from its counters.
CountersMatchListings ==
    \A g \in Groups \ lossy : groups[g] # NoRow =>
        /\ \A t \in Types \ {Unknown} :
              /\ groups[g].nb[t] = Cardinality(fromMediaGroup(g, t, TRUE))
              /\ groups[g].present[t] = Cardinality(fromMediaGroup(g, t, FALSE))
        /\ \A missing \in BOOLEAN :
              /\ Total(g, missing) = Cardinality(fromMediaGroup(g, AllTypes, missing))
              /\ g \in listAll(AllTypes, missing) <=> fromMediaGroup(g, AllTypes, missing) # {}
              /\ g \in listAll(Video, missing) <=> fromMediaGroup(g, Video, missing) # {}
        /\ groups[g].seen = Cardinality({m \in Members(db, g) : media[m].played})
        /\ groups[g].external = Cardinality({m \in Members(db, g) : ~media[m].internal})

\* IMediaGroup::duration() is "the sum of all its member's durations", whatever
\* happened to the group.
DurationIsTheSum ==
    \A g \in Groups : groups[g] # NoRow =>
        groups[g].duration = MapThenSumSet(LAMBDA m : media[m].duration, Members(db, g))

\* A media that was taken out of its group is alone, in a group that bears its
\* title, whatever becomes of the title: nothing joins it by accident and the user
\* cannot rename it.  Where the media was renamed between its fetching and its removal,
\* the group bears a title it had before, until the next one.
SingletonsAreAlone ==
    \A g \in Groups : groups[g] # NoRow /\ groups[g].forced_singleton /\ g \notin lossy =>
        \E m \in Media : /\ Members(db, g) = {m} /\ groups[g].name \in borne[m]
                         /\ g \notin outdated => groups[g].name = media[m].title

\* When the last media leaves a group, or is deleted, the group goes with it; and a
\* group never goes while it has media.
EmptiedGroupsVanish ==
    [][\A g \in Groups \ (lossy \cup lossy') : groups[g] # NoRow /\ Members(db, g) # {} =>
          (Members(db', g) = {} <=> groups'[g] = NoRow)]_vars
=============================================================================
