-------------------------- MODULE MCTelemetryStore --------------------------
(* The instance of TelemetryStore in which two invocations share an isolate, and with
   it the row that is cached there. *)
EXTENDS TelemetryStore

TwoNumbers == {1, 2}
OwnBucket  == [t \in TwoNumbers |-> t]
OneIsolate == [h \in TwoNumbers |-> 1]
=============================================================================
