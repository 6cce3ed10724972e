------------------------------ MODULE MCVideos ------------------------------
(***************************************************************************)
(* Instance of Videos for TLC: s1 and s2 share the same video.  The        *)
(* default and the cacheable limit are 2 instead of 20, the largest 3      *)
(* instead of 100.                                                         *)
(***************************************************************************)
EXTENDS Videos, TLC

CONSTANTS s1, s2, l1, l2, v1

MCSameSharers == {s1, s2}
MCSameWanted == s1 :> v1 @@ s2 :> v1
MCListers == {l1, l2}
SomeLimits == {0, 2, 3, 4}
=============================================================================
