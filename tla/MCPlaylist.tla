--------------------------- MODULE MCPlaylist ---------------------------
EXTENDS Playlist, TLC

CONSTANTS m1, m2, p1, p2

\* Nothing tells one media from another, nor one playlist.
Symmetry == Permutations({m1, m2}) \cup Permutations({p1, p2})
MCTypes == {"Video", "Audio"}
=============================================================================
