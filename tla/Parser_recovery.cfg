CONSTANTS
    Creation = {c}
    Refresh = {}
    Link = {}
    Restore = {}
    Removable = {c}
    MaxTaskAttempts = 2
    MaxLinkTaskAttempts = 2
    NoJob = NoJob
    MaxCrashes = 3
    MaxMounts = 2
    MaxRefreshes = 0
    MaxRetries = 0
SPECIFICATION Spec
INVARIANTS AnalysisHasInfo CrashesAreBounded NoTaskForgotten
