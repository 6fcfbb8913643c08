---------------------------- MODULE MCStateSync ----------------------------
(* Instances of StateSync for TLC. *)
EXTENDS StateSync

CONSTANTS east, west

TwoSources  == {"weather", "switchbot"}
OneSource   == {"switchbot"}
TwoIsolates == {east, west}
OneIsolate  == {east}
=============================================================================
