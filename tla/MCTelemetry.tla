---------------------------- MODULE MCTelemetry ----------------------------
(* Instances of Telemetry for TLC. *)
EXTENDS Telemetry, TLC

CONSTANTS d1, h1, h2

OneDevice   == {d1}
TwoHandlers == {h1, h2}
OneHandler  == {h1}

AlikeHandlers == Permutations(TwoHandlers)

NetFaults    == {"network"}
=============================================================================
