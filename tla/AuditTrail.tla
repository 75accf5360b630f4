----------------------------- MODULE AuditTrail -----------------------------
(***************************************************************************)
(* What the audit trail promises (the docstrings of audit.py and of        *)
(* AuditStore.record): an append is one critical section, that reads the   *)
(* tail and adds an entry chained to it, beyond every entry; and who reads *)
(* on from an id is served every entry up to the next id he stops at.      *)
(* Nothing is promised of a change that is made to the table behind the    *)
(* store, but that an append or a read never looks like one.               *)
(***************************************************************************)
EXTENDS Naturals

CONSTANTS
    Fields,    \* what an entry says
    Legacies,  \* tables the deployment may start from
    None       \* the previous hash of the first entry

VARIABLES
    table,    \* the entries: id -> [fields, prev, hash]
    cursor,   \* where the auditor reads on
    served,   \* the ids that he was served
    changes   \* changes made behind the store

trail == <<table, cursor, served, changes>>

Ids == DOMAIN table

\* What a new entry is chained to: the hash of the newest one.
Tails ==
    IF Ids = {} THEN {None}
    ELSE {table[i].hash : i \in {j \in Ids : \A k \in Ids : k <= j}}

Chained(fields, prev) ==
    [fields |-> fields, prev |-> prev, hash |-> <<fields, prev>>]

-----------------------------------------------------------------------------
Init ==
    /\ table \in Legacies
    /\ cursor = 0 /\ served = {} /\ changes = 0

\* Tail read and insert in one step, out of the auditor's sight until then.
Append(id, fields) ==
    /\ cursor < id /\ \A i \in Ids : i < id
    /\ \E prev \in Tails :
          table' = [i \in Ids \cup {id} |->
                       IF i = id THEN Chained(fields, prev) ELSE table[i]]
    /\ UNCHANGED <<cursor, served, changes>>

ReadOn(last) ==
    /\ cursor < last /\ cursor' = last
    /\ served' = served \cup {i \in Ids : cursor < i /\ i <= last}
    /\ UNCHANGED <<table, changes>>

Tamper ==
    /\ changes' = changes + 1
    /\ UNCHANGED <<cursor, served>>

Next ==
    \/ \E id \in DOMAIN table', fields \in Fields : Append(id, fields)
    \/ \E last \in Ids : ReadOn(last)
    \/ Tamper

Spec == Init /\ [][Next]_trail

=============================================================================
