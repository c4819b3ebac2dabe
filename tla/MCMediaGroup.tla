--------------------------- MODULE MCMediaGroup ---------------------------
EXTENDS MediaGroup, TLC

CONSTANTS m1, m2, g1, g2, g3

\* Nothing tells one media from another, nor one group: which row is new is a CHOOSE,
\* but every free row is the same.
Symmetry == Permutations({m1, m2}) \cup Permutations({g1, g2, g3})

\* Two episodes: the titles begin alike.
MCTitles == {"episode 1", "episode 2"}
MCPrefixes == {"episode"}
MCPrefixOf == [t \in MCTitles |-> "episode"]
MCTypes == {"Video", "Unknown"}
=============================================================================
