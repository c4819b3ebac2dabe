CONSTANTS
    Root = {r1, r2}
    Removable = {r1}
    All = All
    Parent = Parent
    Device = Device
    NoTask = NoTask
    Request <- Every
    MaxRequests = 3
SPECIFICATION FairSpec
INVARIANTS RootsAreScanned ShortTasksFirst BansAreApplied
PROPERTIES DiscoveryCompletes StopTerminates
