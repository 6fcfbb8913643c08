---------------------------- MODULE CommandTable ----------------------------
(***************************************************************************)
(* The D1 table device_commands and the statements that read and write it  *)
(* (cloud/src/device_control.ts, device_command_delivery.ts and the        *)
(* retention job of scheduler.ts).  A table is a function from row ids to  *)
(* rows.  The only command a device accepts is check_update, so a row is   *)
(* told from another by its device and payload.                            *)
(*                                                                         *)
(* The times of a row are kept as what the statements compare them with:   *)
(* delivered_at as never, less than or more than COMMAND_REDELIVERY_MS     *)
(* ago; expires_at as passed or not; and whether the retention period of a *)
(* finished row has passed.                                                *)
(***************************************************************************)
EXTENDS Naturals, FiniteSets

CONSTANTS
    Devices,      \* device ids
    Payloads,     \* serialized payloads of check_update
    ClaimLimit    \* LIMIT of the claiming statement (10)

ASSUME CommandTableAssumption == ClaimLimit \in Nat \ {0}

Ids == Nat \ {0}

Row == [device: Devices, payload: Payloads,
        delivered: {"never", "recently", "before"},
        expired: BOOLEAN, completed: BOOLEAN,
        retained: BOOLEAN,  \* still within its retention period
        birth: Nat]         \* which insertion made the row (ghost)

IsTable(table) ==
    /\ DOMAIN table \subseteq Ids /\ IsFiniteSet(DOMAIN table)
    /\ \A id \in DOMAIN table : table[id] \in Row

NoRows == [id \in {} |-> id]

Pending(row) == ~row.completed /\ ~row.expired

PendingFor(table, d, p) ==
    {id \in DOMAIN table : table[id].device = d /\ table[id].payload = p /\ Pending(table[id])}

\* A mistake: ids count from zero.
NewIdFromZero(table) ==
    IF DOMAIN table = {} THEN 0
    ELSE 1 + (CHOOSE id \in DOMAIN table : \A other \in DOMAIN table : id >= other)

\* id INTEGER PRIMARY KEY without AUTOINCREMENT: one more than the largest id there is.
NewId(table) ==
    IF DOMAIN table = {} THEN 1
    ELSE 1 + (CHOOSE id \in DOMAIN table : \A other \in DOMAIN table : id >= other)

NewRow(d, p, birth) ==
    [device |-> d, payload |-> p, delivered |-> "never", expired |-> FALSE,
     completed |-> FALSE, retained |-> TRUE, birth |-> birth]

\* A mistake: only a row nobody has fetched stops a second one.
InsertedUnlessQueued(table, d, p, birth) ==
    IF \E id \in PendingFor(table, d, p) : table[id].delivered = "never" THEN table
    ELSE [id \in DOMAIN table \cup {NewId(table)} |->
              IF id \in DOMAIN table THEN table[id] ELSE NewRow(d, p, birth)]

\* INSERT INTO device_commands SELECT ... WHERE NOT EXISTS (...)
Inserted(table, d, p, birth) ==
    IF PendingFor(table, d, p) # {} THEN table
    ELSE [id \in DOMAIN table \cup {NewId(table)} |->
              IF id \in DOMAIN table THEN table[id] ELSE NewRow(d, p, birth)]

\* A mistake: a row is delivered once.
DeliverableOnce(table, d) ==
    {id \in DOMAIN table : /\ table[id].device = d
                           /\ Pending(table[id])
                           /\ table[id].delivered = "never"}

\* The rows a poll of the device may claim, before and after ORDER BY id LIMIT.
Deliverable(table, d) ==
    {id \in DOMAIN table : /\ table[id].device = d
                           /\ Pending(table[id])
                           /\ table[id].delivered # "recently"}

Claimable(table, d) ==
    {id \in Deliverable(table, d) :
        Cardinality({other \in Deliverable(table, d) : other < id}) < ClaimLimit}

\* UPDATE device_commands SET delivered_at = now
Claimed(table, ids) ==
    [id \in DOMAIN table |->
        IF id \in ids THEN [table[id] EXCEPT !.delivered = "recently"] ELSE table[id]]

\* UPDATE device_commands SET completed_at = now WHERE id AND device_id AND completed_at IS NULL
Acknowledged(table, d, id) ==
    IF id \in DOMAIN table /\ table[id].device = d /\ ~table[id].completed
    THEN [table EXCEPT ![id] = [@ EXCEPT !.completed = TRUE, !.retained = TRUE]]
    ELSE table

\* The rows DELETE leaves: completed ones for 30 days, expired ones for 7.
Cleaned(table) ==
    [id \in {i \in DOMAIN table : table[i].retained} |-> table[id]]

\* Time passes for a row: the redelivery period, the expiry or the retention period ends.
Aged(row, event) ==
    CASE event = "redelivery" -> [row EXCEPT !.delivered = IF @ = "recently" THEN "before" ELSE @]
      [] event = "expiry"     -> [row EXCEPT !.expired = TRUE]
      [] event = "retention"  -> [row EXCEPT !.retained = row.retained /\ Pending(row)]

AgedRow(table, id, event) == [table EXCEPT ![id] = Aged(@, event)]

AgeEvents == {"redelivery", "expiry", "retention"}
=============================================================================
