--------------------------- MODULE MCThumbnails ---------------------------
(* Thumbnails, with one video, two tracks and one embedded picture.       *)
EXTENDS Thumbnails

CONSTANTS v1, t1, t2
MCVideos == {v1}
MCTracks == {t1, t2}
MCIllustrated == {v1, Artist}
MCArtworks == {"art"}
TrackSymmetry == Permutations(MCTracks)
=============================================================================
