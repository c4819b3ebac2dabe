CONSTANTS
    Creation = {}
    Refresh = {}
    Link = {l}
    Restore = {p}
    Removable = {}
    MaxTaskAttempts = 2
    MaxLinkTaskAttempts = 2
    NoJob = NoJob
    MaxCrashes = 0
    MaxMounts = 0
    MaxRefreshes = 1
    MaxRetries = 1
SPECIFICATION FairSpec
INVARIANT StatsAreComplete
PROPERTY ParsingSettles
