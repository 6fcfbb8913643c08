------------------------- MODULE TelemetryPromise -------------------------
(***************************************************************************)
(* What the delivery of samples promises, without sequence numbers,        *)
(* messages or files: a sample that was accepted into the outbox stays     *)
(* there until it is counted in the environment document, and is counted   *)
(* once.  The promise is void from the moment the disk of a device loses   *)
(* a write.  Telemetry implements it (KeptUntilCounted).                   *)
(***************************************************************************)
CONSTANT Items

VARIABLE status

Init == status = [i \in Items |-> "new"]

Keep(i) ==
    /\ status[i] = "new"
    /\ status' = [status EXCEPT ![i] = "kept"]

\* One batch is counted by one write of the document.
Count(batch) ==
    /\ \A i \in batch : status[i] = "kept"
    /\ status' = [i \in Items |-> IF i \in batch THEN "counted" ELSE status[i]]

\* The disk the samples of a batch are kept on loses a write.
Damage(batch) ==
    status' = [i \in Items |-> IF i \in batch THEN "damaged" ELSE status[i]]

Next ==
    \/ \E i \in Items : Keep(i)
    \/ \E batch \in SUBSET Items : Count(batch) \/ Damage(batch)

Spec == Init /\ [][Next]_status
=============================================================================
