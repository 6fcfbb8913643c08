--------------------------- MODULE MCUpdateCheck ---------------------------
(* Instances of UpdateCheck for TLC. *)
EXTENDS UpdateCheck

CONSTANTS panel, tablet, east, west

OnePanel     == {panel}
Panels       == {panel, tablet}
TwoIsolates  == {east, west}
OneIsolate   == {east}
Releases     == 1 .. MaxRelease
=============================================================================
