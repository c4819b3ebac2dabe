---------------------------- MODULE MCDiscovery ----------------------------
(* A folder, a folder in it, and one file in each. *)
EXTENDS Discovery

MCFolders == {"music", "live"}
MCFiles == {"intro", "song"}
MCParent == [p \in MCFolders |-> IF p = "live" THEN "music" ELSE "slash"]
MCFolderOf == [f \in MCFiles |-> IF f = "song" THEN "live" ELSE "music"]

=============================================================================
