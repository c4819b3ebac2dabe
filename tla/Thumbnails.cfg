CONSTANTS
    v1 = v1
    t1 = t1
    t2 = t2
    Videos <- MCVideos
    Tracks <- MCTracks
    Illustrated <- MCIllustrated
    Artworks <- MCArtworks
    Album = Album
    Artist = Artist
    Undeletable = {1}
    MaxRows = 3
    MaxRequests = 2
SYMMETRY TrackSymmetry
SPECIFICATION Spec
INVARIANTS SharedCounterIsExact ShownFilesExist NoCleanupIsForgotten
CHECK_DEADLOCK FALSE
