--------------------------- MODULE MCVideoImport ---------------------------
(* Instances of VideoImport for TLC. *)
EXTENDS VideoImport

CONSTANTS first, second

OneConsumer  == {first}
TwoConsumers == {first, second}
=============================================================================
