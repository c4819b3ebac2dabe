SPECIFICATION Spec
CONSTANTS
    Folders <- MCFolders
    Files <- MCFiles
    NoFolder = "slash"
    Parent <- MCParent
    FolderOf <- MCFolderOf
    MaxChanges = 1
    MaxRestarts = 1
    MaxCommands = 4
INVARIANTS MirrorsTheDisk OneMediaPerFile FolderRowsAgree
PROPERTY NoUpdateIsMissed MediaAreLostForAReason
CHECK_DEADLOCK FALSE
