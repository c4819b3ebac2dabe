CONSTANTS
    m1 = m1
    m2 = m2
    g1 = g1
    g2 = g2
    g3 = g3
    Media = {m1, m2}
    Groups = {g1, g2, g3}
    NoRow = NoRow
    Titles <- MCTitles
    Prefixes <- MCPrefixes
    PrefixOf <- MCPrefixOf
    Types <- MCTypes
    MaxDuration = 1
    MaxEdits = 1
SYMMETRY Symmetry
SPECIFICATION Spec
INVARIANTS CountersMatchListings DurationIsTheSum 
PROPERTY EmptiedGroupsVanish
CHECK_DEADLOCK FALSE
