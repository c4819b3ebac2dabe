--------------------------- MODULE MCCollection ---------------------------
(* Two tracks of a folder, the second on the removable device. *)
EXTENDS Collection

CONSTANTS m1, m2
MCMedia == {m1, m2}
MCRemovable == {m2}
MCFolder == [m \in MCMedia |-> "music"]
Tag(album, albumArtist, artist, genre) ==
    [album |-> album, albumArtist |-> albumArtist, artist |-> artist, genre |-> genre]
MCTags == {Tag("hits", NoName, "ann", "pop"), Tag("hits", NoName, "bob", NoName),
           Tag(NoName, "ann", "bob", NoName), Tag(NoName, NoName, NoName, "pop")}
=============================================================================
