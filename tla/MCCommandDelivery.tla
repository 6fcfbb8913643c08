------------------------- MODULE MCCommandDelivery -------------------------
(* Instances of CommandDelivery for TLC. *)
EXTENDS CommandDelivery

CONSTANTS panel, tablet, release, manual

OnePanel  == {panel}
Panels    == {panel, tablet}
OneKind   == {release}
TwoKinds  == {release, manual}
DiskWorks == {TRUE}
DiskFails == {TRUE, FALSE}
=============================================================================
