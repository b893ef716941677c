------------------------ MODULE MC_RTMediaStreamSource ------------------------
(* One source: sources share only gMediaStreamListLock, which no step     *)
(* holds across an interleaving point, so a second source would only      *)
(* multiply the states.  Frames of three sizes (one differing from the    *)
(* initial 320x240 in its height only, one in both dimensions), two       *)
(* frames, one failed allocation.                                         *)
EXTENDS RTMediaStreamSource

CONSTANTS s1

MCSources == {s1}
MCSizes == {<<320, 240>>, <<320, 180>>, <<640, 480>>}
=============================================================================
