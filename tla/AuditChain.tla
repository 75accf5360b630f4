----------------------------- MODULE AuditChain -----------------------------
(***************************************************************************)
(* The tamper-evidence chain of the audit trail (audit.py).                *)
(*                                                                         *)
(* Threads and replicas append rows to one table.  An append is a          *)
(* transaction: take the chain lock, read the hash of the newest row, give *)
(* the new row an id, commit.  An auditor reads the table by pages, and    *)
(* check() walks it by id and classifies each row.                         *)
(*                                                                         *)
(* An HMAC is modelled by what it is taken over: two hashes are equal when *)
(* the hashed fields and the previous hash are.                            *)
(***************************************************************************)
EXTENDS Naturals, FiniteSets

CONSTANTS
    Appenders,      \* the threads and replicas that record entries
    Fields,         \* what an entry says
    Legacies,       \* tables the deployment may start from
    FirstId,        \* the first id given out after the start
    Acknowledged,   \* CFACTORY_AUDIT_ACKNOWLEDGED_FORKS
    Limit,          \* the page size of list()
    MaxId,          \* bound: the last id given out
    MaxChanges      \* bound: how many changes are made behind the store

ASSUME NumbersAssumption ==
    /\ FirstId \in Nat \ {0} /\ MaxId \in Nat /\ FirstId <= MaxId + 1
    /\ Limit \in Nat \ {0}
    /\ MaxChanges \in Nat

VARIABLES
    rows,       \* the table: id -> [fields, prev, hash]
    nextId,     \* the id sequence
    lock,       \* who holds the chain lock
    pc,         \* where each appender is in its transaction
    draft,      \* the row an appender is building: [id, prev]
    changes,    \* changes made to the table behind the store's back
    cursor,     \* the auditor's after_id
    served      \* the ids the auditor was served

vars == <<rows, nextId, lock, pc, draft, changes, cursor, served>>

-----------------------------------------------------------------------------
(* The chain.                                                              *)

Nobody == "nobody"
None == <<>>

compute_entry_hash(fields, prev) == <<fields, prev>>

Entry(fields, prev) ==
    [fields |-> fields, prev |-> prev, hash |-> compute_entry_hash(fields, prev)]

Ids == DOMAIN rows

\* The table with a row added.
With(i, row) == [j \in Ids \cup {i} |-> IF j = i THEN row ELSE rows[j]]

Newest(S) == CHOOSE i \in S : \A j \in S : j <= i

\* The hash of the newest row among S, or None.
TailHash(S) == IF S = {} THEN None ELSE rows[Newest(S)].hash

\* What the row with this id should be chained to, when rows are walked by id.
expected_prev(i) == TailHash({j \in Ids : j < i})

ASSUME AppenderAssumption == Nobody \notin Appenders
ASSUME LegacyAssumption ==
    \A t \in Legacies :
        /\ IsFiniteSet(DOMAIN t)
        /\ \A i \in DOMAIN t : i \in Nat \ {0} /\ i < FirstId

\* A table to start from carries forks, of appends that raced before there was
\* a lock, and nothing else that check() would find.
Forks(t, i) == \E j \in DOMAIN t \ {i} : t[j].prev = t[i].prev

Follows(t, i) ==
    LET before == {j \in DOMAIN t : j < i}
    IN  t[i].prev = IF before = {} THEN None ELSE t[Newest(before)].hash

ASSUME ForkAssumption ==
    \A t \in Legacies : \A i \in DOMAIN t :
        /\ t[i] = Entry(t[i].fields, t[i].prev)
        /\ \A j \in DOMAIN t : t[i].hash = t[j].hash => i = j
        /\ t[i].prev = None \/ \E j \in DOMAIN t : j < i /\ t[j].hash = t[i].prev
        /\ Follows(t, i) \/ Forks(t, i)

-----------------------------------------------------------------------------
(* record().                                                               *)

At(p, step) == pc[p] = step

\* A thread has an action to record and opens a transaction.
Begin(p) ==
    /\ At(p, "idle")
    /\ pc' = [pc EXCEPT ![p] = "waiting"]
    /\ UNCHANGED <<rows, nextId, lock, draft, changes, cursor, served>>

\* Mutant: the lock excludes nobody.
lock_shared(p) ==
    /\ At(p, "waiting")
    /\ lock' = p
    /\ pc' = [pc EXCEPT ![p] = "locked"]
    /\ UNCHANGED <<rows, nextId, draft, changes, cursor, served>>

\* BEGIN IMMEDIATE, or the advisory lock.
_lock_chain(p) ==
    /\ At(p, "waiting")
    /\ lock = Nobody
    /\ lock' = p
    /\ pc' = [pc EXCEPT ![p] = "locked"]
    /\ UNCHANGED <<rows, nextId, draft, changes, cursor, served>>

ReadTail(p) ==
    /\ At(p, "locked")
    /\ draft' = [draft EXCEPT ![p] = [id |-> 0, prev |-> TailHash(Ids)]]
    /\ pc' = [pc EXCEPT ![p] = "read"]
    /\ UNCHANGED <<rows, nextId, lock, changes, cursor, served>>

\* The flush: the row has its id, and nobody else sees it yet.
Flush(p) ==
    /\ At(p, "read")
    /\ nextId <= MaxId
    /\ draft' = [draft EXCEPT ![p] = [id |-> nextId, prev |-> draft[p].prev]]
    /\ nextId' = nextId + 1
    /\ pc' = [pc EXCEPT ![p] = "flushed"]
    /\ UNCHANGED <<rows, lock, changes, cursor, served>>

Commit(p, fields) ==
    /\ At(p, "flushed")
    /\ rows' = With(draft[p].id, Entry(fields, draft[p].prev))
    /\ lock' = Nobody
    /\ pc' = [pc EXCEPT ![p] = "idle"]
    /\ UNCHANGED <<nextId, draft, changes, cursor, served>>

\* The wait for the lock times out, the transaction fails, or its process
\* dies: a rollback.  An id that was given out is not given out again.
Rollback(p) ==
    /\ ~At(p, "idle")
    /\ lock' = IF lock = p THEN Nobody ELSE lock
    /\ pc' = [pc EXCEPT ![p] = "idle"]
    /\ UNCHANGED <<rows, nextId, draft, changes, cursor, served>>

-----------------------------------------------------------------------------
(* list(): an auditor pages through the table, oldest first.               *)

list ==
    LET later == {i \in Ids : i > cursor}
    IN  \E page \in SUBSET later :
            /\ page # {}
            /\ \/ Cardinality(page) = Limit
               \/ Cardinality(page) < Limit /\ page = later
            /\ \A i \in page, j \in later \ page : i < j
            /\ \E last \in page : (\A i \in page : i <= last) /\ cursor' = last
            /\ served' = served \cup page
            /\ UNCHANGED <<rows, nextId, lock, pc, draft, changes>>

-----------------------------------------------------------------------------
(* Changes to the table that no append makes, while no append runs.        *)

Changing == lock = Nobody /\ changes < MaxChanges /\ changes' = changes + 1

Edit(i, fields) ==
    /\ Changing
    /\ rows[i].fields # fields
    /\ rows' = [rows EXCEPT ![i].fields = fields]
    /\ UNCHANGED <<nextId, lock, pc, draft, cursor, served>>

\* A row is copied to the end of the table.
Copy(i) ==
    /\ Changing
    /\ nextId <= MaxId
    /\ rows' = With(nextId, rows[i])
    /\ nextId' = nextId + 1
    /\ UNCHANGED <<lock, pc, draft, cursor, served>>

\* A row some other row is chained to is deleted: a row nobody is chained to
\* leaves no broken link.
Erase(i) ==
    /\ Changing
    /\ \E j \in Ids : rows[j].prev = rows[i].hash
    /\ rows' = [j \in Ids \ {i} |-> rows[j]]
    /\ UNCHANGED <<nextId, lock, pc, draft, cursor, served>>

-----------------------------------------------------------------------------
(* check(), verify() and report().                                         *)

Twins(i) == {j \in Ids : rows[j].hash = rows[i].hash} \ {i}
Siblings(i) == {j \in Ids : rows[j].prev = rows[i].prev} \ {i}
ParentExists(i) == rows[i].prev = None \/ \E j \in Ids : rows[j].hash = rows[i].prev

\* Mutant: a row that does not follow its predecessor is always dangling.
classify_no_forks(i) ==
    IF rows[i].hash # compute_entry_hash(rows[i].fields, rows[i].prev) THEN "mutated"
    ELSE IF Twins(i) # {} THEN "duplicate"
    ELSE IF rows[i].prev = expected_prev(i) THEN "sound"
    ELSE "dangling"

_classify(i) ==
    IF rows[i].hash # compute_entry_hash(rows[i].fields, rows[i].prev) THEN "mutated"
    ELSE IF Twins(i) # {} THEN "duplicate"
    ELSE IF rows[i].prev = expected_prev(i) THEN "sound"
    ELSE IF Siblings(i) # {} /\ ParentExists(i) THEN "forked"
    ELSE "dangling"

check == {<<i, _classify(i)>> : i \in {j \in Ids : _classify(j) # "sound"}}

\* Mutant: an acknowledged id is forgiven whatever it is found to be.
report_by_id ==
    LET findings == {b \in check : b[1] \notin Acknowledged}
    IN  IF \E b \in findings : b[2] # "forked" THEN "tampered"
        ELSE IF findings # {} THEN "forked" ELSE "ok"

\* The verdict, recomputed: an acknowledged fork, and only a fork, is forgiven.
report ==
    LET findings == {b \in check : b[2] # "forked" \/ b[1] \notin Acknowledged}
    IN  IF \E b \in findings : b[2] # "forked" THEN "tampered"
        ELSE IF findings # {} THEN "forked" ELSE "ok"

-----------------------------------------------------------------------------
(* Specification.                                                          *)

Init ==
    /\ rows \in Legacies
    /\ nextId = FirstId
    /\ lock = Nobody
    /\ pc = [p \in Appenders |-> "idle"]
    /\ draft = [p \in Appenders |-> [id |-> 0, prev |-> None]]
    /\ changes = 0
    /\ cursor = 0
    /\ served = {}

record(p) ==
    \/ Begin(p) \/ _lock_chain(p) \/ ReadTail(p) \/ Flush(p)
    \/ \E fields \in Fields : Commit(p, fields)
    \/ Rollback(p)

Change(i) == (\E fields \in Fields : Edit(i, fields)) \/ Copy(i) \/ Erase(i)

Next ==
    \/ \E p \in Appenders : record(p)
    \/ list
    \/ \E i \in Ids : Change(i)

Spec == Init /\ [][Next]_vars

-----------------------------------------------------------------------------
(* Properties.                                                             *)

TypeOK ==
    /\ Ids \subseteq 1 .. (nextId - 1)
    /\ nextId \in FirstId .. (MaxId + 1)
    /\ lock \in Appenders \cup {Nobody}
    /\ pc \in [Appenders -> {"idle", "waiting", "locked", "read", "flushed"}]
    /\ changes \in 0 .. MaxChanges
    /\ cursor \in 0 .. (nextId - 1)
    /\ served \subseteq 1 .. (nextId - 1)

\* An append is atomic: the row it adds is the newest, and is chained to the
\* row that was the newest, though tail read and insert are separate steps of
\* many threads.
AppendsLink ==
    [][\A p \in Appenders :
          (At(p, "flushed") /\ rows' # rows) =>
              /\ draft[p].id \in DOMAIN rows'
              /\ \A i \in Ids : i < draft[p].id
              /\ rows'[draft[p].id].prev = TailHash(Ids)]_vars

\* The docstrings of audit.py and of record(): the tail read and the insert are
\* one critical section, so that the entries form one chain; and list(), that
\* who reads on after an id is served all that follows.  The threads' appends,
\* whatever their steps, implement a trail that grows one entry at a time.
Trail == INSTANCE AuditTrail WITH table <- rows
KeepsTheTrail == Trail!Spec

\* A table nobody changed carries no tamper evidence, and no fork but those
\* it started with.
HonestChainIsSound ==
    changes = 0 =>
        \A b \in check : b[2] = "forked" /\ b[1] < FirstId

\* A single change to the table is tamper evidence, whatever is acknowledged
\* and whatever is appended afterwards.
ChangeIsReported == changes = 1 => report = "tampered"

\* An auditor who pages by after_id misses no row: ids become visible in the
\* order they are given out.
PagesMissNothing == \A i \in Ids : i <= cursor => i \in served

=============================================================================
