CONSTANTS
    m1 = m1
    m2 = m2
    Media <- MCMedia
    Removable <- MCRemovable
    Folder <- MCFolder
    Tags <- MCTags
    Durations = {1}
    NoName = NoName
    NoRow = NoRow
    NoAlbum = NoAlbum
    MaxId = 10
    MaxEdits = 2
SPECIFICATION Spec
INVARIANT ArtistPresenceIsExact
CHECK_DEADLOCK FALSE
