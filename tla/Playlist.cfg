CONSTANTS
    m1 = m1
    m2 = m2
    p1 = p1
    p2 = p2
    Media = {m1, m2}
    Playlists = {p1, p2}
    NoRow = NoRow
    Types <- MCTypes
    Durations = {0, 1}
    UIntMax = 7
    Positions = {0, 1, 2, 5, 7}
    Counts = {1, 2, 7}
    MaxItems = 4
    MaxSpoilt = 1
SYMMETRY Symmetry
SPECIFICATION Spec
INVARIANTS PositionsAreDense CountersMatchItems NbPlaylistsIsExact EditsMatchTheirDocumentation
CHECK_DEADLOCK FALSE
