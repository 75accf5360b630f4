------------------------ MODULE WorkItemStoreProofs ------------------------
(***************************************************************************)
(* Theorems of WorkItemStore: types, and what the polls may not undo.      *)
(***************************************************************************)
EXTENDS WorkItemStore, TLAPS

(* No event and no other poll arrives inside a poll.  The two theorems on   *)
(* history need this: the README shows what happens otherwise.              *)
Serial == Overlaps = FALSE

\* At most one thread is inside a poll, and an idle one remembers nothing.
MutexInv ==
    /\ \A p, q \in Threads : p # q => At(p, "idle") \/ At(q, "idle")
    /\ \A p \in Threads : At(p, "idle") => poll[p] = Idle

\* A completion event is sent once the task has ended, under the key that the
\* task has or had.
Past(e) ==
    /\ is_terminal(up[e.task].status)
    /\ e.key \in {up[e.task].key, Fallback[e.task]}

EventInv ==
    /\ \A e \in net : Past(e)
    /\ \A k \in Keys : \A e \in rows[k].timeline : Past(e) /\ e.key = k

\* Where a task's completion is on record, the listing has it ended, under the
\* key that it still has if the record is there.
ListInv ==
    /\ \A t \in Tasks : up[t].listed => up[t].status # "none"
    /\ \A p \in Threads : \A t \in Listed(poll[p].listing) :
          /\ ServiceOf[t] = poll[p].service
          /\ up[t].status # "none"
          /\ poll[p].listing[t].key \in {up[t].key, Fallback[t]}
          /\ \A k \in Keys : \A e \in rows[k].timeline :
                e.task = t => /\ is_terminal(poll[p].listing[t].status)
                              /\ up[t].key = k => poll[p].listing[t].key = k

\* The newest task on a key is the only one to be written there, over nothing
\* newer.
NewestInv ==
    \A p \in Threads : At(p, "hydrate") =>
        \A t \in poll[p].newest :
            LET k == poll[p].listing[t].key
            IN  /\ \A u \in poll[p].live : poll[p].listing[u].key = k => u = t
                /\ _current_task(t, k) <= t

\* A task has its own fallback key or that of an issue.
KeyInv == \A t \in Tasks : up[t].key \in IssueKeys \cup {Fallback[t]}

\* The slice of a completion on record shows the task as ended.
HistoryInv ==
    \A k \in Keys : \A e \in rows[k].timeline :
        up[e.task].key = k /\ ~Rerun(e.task, k) =>
            /\ rows[k].slice[ServiceOf[e.task]].task = e.task
            /\ is_terminal(rows[k].slice[ServiceOf[e.task]].status)

IInv == TypeOK /\ MutexInv /\ KeyInv /\ EventInv /\ ListInv /\ NewestInv /\ HistoryInv

-----------------------------------------------------------------------------
(* Types.                                                                  *)

Sound(r) == /\ r.todo \subseteq r.live
            /\ r.newest \subseteq r.live
            /\ r.live \subseteq Listed(r.listing)
            /\ r.pc \in {"fetch", "owners"} => r.live = {}

\* Idle is a thread, and has nothing listed.
LEMMA IdleType ==
    /\ Idle \in Thread /\ Sound(Idle) /\ Listed(Nobody) = {}
    /\ \A step \in Steps, s \in Services :
          LET r == [Idle EXCEPT !.pc = step, !.service = s]
          IN  r \in Thread /\ Sound(r) /\ r.listing = Nobody
    /\ \A step \in Steps :
          LET r == [Idle EXCEPT !.pc = step]
          IN  r \in Thread /\ Sound(r) /\ r.listing = Nobody
<1>1. 1 \in Services /\ "idle" \in Steps
  BY TaskAssumption DEF Services, Steps
<1>2. Nobody \in [Tasks -> Task]
  BY TaskAssumption DEF Nobody, Unborn, Task
<1>3. Listed(Nobody) = {}
  BY DEF Listed, Nobody, Unborn
<1> QED
  BY <1>1, <1>2, <1>3 DEF Idle, Thread, Sound

\* So is what NextService returns; its step is known.
LEMMA NextServiceType ==
    ASSUME TypeOK, NEW p \in Threads
    PROVE  /\ NextService(p) \in Thread
           /\ Sound(NextService(p))
           /\ NextService(p).listing = Nobody
           /\ NextService(p).pc \in {"idle", "fetch", "prune"}
           /\ NextService(p).pc = "idle" => NextService(p) = Idle
<1>1. poll[p].service \in Services
  BY DEF TypeOK, Thread
<1>2. CASE poll[p].service < ServiceCount
  <2>1. poll[p].service + 1 \in Services
    BY <1>1, <1>2, TaskAssumption DEF Services
  <2> QED
    BY <1>2, <2>1, IdleType DEF NextService, Steps, Idle
<1>3. CASE ~(poll[p].service < ServiceCount)
  BY <1>3, IdleType DEF NextService, Steps, Idle
<1> QED
  BY <1>2, <1>3

LEMMA SoundNow ==
    ASSUME TypeOK, NEW p \in Threads
    PROVE  poll[p] \in Thread /\ Sound(poll[p])
<1>1. poll[p] \in Thread
  BY DEF TypeOK
<1>2. Sound(poll[p])
  BY Zenon DEF TypeOK, Sound
<1> QED
  BY <1>1, <1>2

\* A thread that moves on to a sound state keeps the threads well typed.
LEMMA BecomesType ==
    ASSUME TypeOK, NEW p \in Threads, NEW r \in Thread, Sound(r), Becomes(p, r)
    PROVE  /\ poll' \in [Threads -> Thread]
           /\ \A q \in Threads : Sound(poll'[q])
           /\ poll'[p] = r
           /\ \A q \in Threads \ {p} : poll'[q] = poll[q]
<1>1. poll' = [poll EXCEPT ![p] = r] /\ poll \in [Threads -> Thread]
  BY DEF TypeOK, Becomes
<1>2. poll'[p] = r /\ \A q \in Threads \ {p} : poll'[q] = poll[q]
  BY <1>1
<1>3. \A q \in Threads \ {p} : Sound(poll'[q])
  BY <1>2, SoundNow
<1> QED
  BY <1>1, <1>2, <1>3

\* A row that is written exists, and the others stay as they are.
LEMMA WriteType ==
    ASSUME TypeOK, NEW k \in Keys, NEW row \in Row, Write(k, row)
    PROVE  /\ rows' \in [Keys -> Row]
           /\ \A j \in Keys : ~rows'[j].exists => rows'[j] = NoRow
           /\ rows'[k] = [row EXCEPT !.exists = TRUE, !.old = FALSE]
           /\ \A j \in Keys \ {k} : rows'[j] = rows[j]
  BY DEF TypeOK, Write, Row

LEMMA NoRowType == NoRow \in Row /\ Blank \in Slice
  BY DEF NoRow, Row, Blank, Slice

\* One incident more stays within the bound.
LEMMA IncidentType ==
    ASSUME TypeOK, Incident
    PROVE  incidents' \in 0 .. MaxIncidents
  BY BoundAssumption DEF TypeOK, Incident

LEMMA ApplyType ==
    ASSUME TypeOK, NEW e \in net, Apply(e)
    PROVE  /\ rows' \in [Keys -> Row]
           /\ \A k \in Keys : ~rows'[k].exists => rows'[k] = NoRow
<1>1. e \in Event /\ e.key \in Keys /\ e.task \in Tasks /\ e.status \in Statuses
  BY DEF TypeOK, Event
<1>2. ServiceOf[e.task] \in Services
  BY <1>1, TaskAssumption
<1> DEFINE row == [rows[e.key] EXCEPT
                      !.slice[ServiceOf[e.task]] = [task |-> e.task, status |-> e.status],
                      !.timeline = @ \cup {e}]
<1>3. row \in Row
  <2>1. rows[e.key] \in Row
    BY <1>1 DEF TypeOK
  <2>2. [task |-> e.task, status |-> e.status] \in Slice
    BY <1>1 DEF Slice
  <2>3. /\ [rows[e.key].slice EXCEPT ![ServiceOf[e.task]] =
                [task |-> e.task, status |-> e.status]] \in [Services -> Slice]
        /\ rows[e.key].timeline \cup {e} \in SUBSET Event
    BY <1>1, <1>2, <2>1, <2>2 DEF Row
  <2> QED
    BY <2>1, <2>3 DEF Row
<1>4. CASE e \in rows[e.key].timeline
  BY <1>4 DEF Apply, TypeOK
<1>5. CASE e \notin rows[e.key].timeline
  <2>1. Write(e.key, row)
    BY <1>5 DEF Apply
  <2> QED
    BY <1>1, <1>3, <2>1, WriteType
<1> QED
  BY <1>4, <1>5

\* What an event writes, in terms of slices and timelines.
LEMMA ApplyWrites ==
    ASSUME TypeOK, NEW f \in net, Apply(f), rows' # rows
    PROVE  /\ f \in Event /\ f.key \in Keys /\ f.task \in Tasks
           /\ rows[f.key].slice \in [Services -> Slice] /\ ServiceOf[f.task] \in Services
           /\ rows'[f.key].slice = [rows[f.key].slice EXCEPT
                  ![ServiceOf[f.task]] = [task |-> f.task, status |-> f.status]]
           /\ rows'[f.key].timeline = rows[f.key].timeline \cup {f}
           /\ \A j \in Keys \ {f.key} : rows'[j] = rows[j]
<1> DEFINE row == [rows[f.key] EXCEPT
                     !.slice[ServiceOf[f.task]] = [task |-> f.task, status |-> f.status],
                     !.timeline = @ \cup {f}]
<1>1. f \in Event /\ f.key \in Keys /\ f.task \in Tasks
  BY DEF TypeOK, Event
<1>2. rows \in [Keys -> Row] /\ rows[f.key] \in Row
  BY <1>1 DEF TypeOK
<1>3. rows[f.key].slice \in [Services -> Slice] /\ ServiceOf[f.task] \in Services
  BY <1>1, <1>2, TaskAssumption DEF Row
<1>4. Write(f.key, row)
  BY DEF Apply
<1>5. /\ row.slice = [rows[f.key].slice EXCEPT
             ![ServiceOf[f.task]] = [task |-> f.task, status |-> f.status]]
      /\ row.timeline = rows[f.key].timeline \cup {f}
      /\ [row EXCEPT !.exists = TRUE, !.old = FALSE].slice = row.slice
      /\ [row EXCEPT !.exists = TRUE, !.old = FALSE].timeline = row.timeline
  BY <1>2 DEF Row
<1> HIDE DEF row
<1>6. rows' = [rows EXCEPT ![f.key] = [row EXCEPT !.exists = TRUE, !.old = FALSE]]
  BY <1>4 DEF Write
<1>7. \A j \in Keys \ {f.key} : rows'[j] = rows[j]
  BY <1>2, <1>6
<1>8. /\ rows'[f.key].slice = row.slice
      /\ rows'[f.key].timeline = row.timeline
  BY <1>1, <1>2, <1>5, <1>6
<1> QED
  BY <1>1, <1>3, <1>5, <1>7, <1>8

LEMMA ListType ==
    ASSUME TypeOK, NEW p \in Threads, list_items(p)
    PROVE  poll' \in [Threads -> Thread] /\ \A q \in Threads : Sound(poll'[q])
<1> DEFINE listing == [t \in Tasks |-> IF ServiceOf[t] = poll[p].service /\ up[t].listed
                                       THEN up[t] ELSE Unborn(t)]
           all == Listed(listing)
           r == IF p \in Pollers
                THEN [poll[p] EXCEPT !.pc = "owners", !.listing = listing]
                ELSE [poll[p] EXCEPT !.pc = "hydrate", !.listing = listing,
                                     !.todo = all, !.live = all]
<1>1. listing \in [Tasks -> Task]
  BY TaskAssumption DEF TypeOK, Unborn, Task
<1>2. poll[p] \in Thread /\ poll[p].live = {} /\ poll[p].todo = {} /\ poll[p].newest = {}
  BY SoundNow DEF list_items, At, Sound
<1>3. r \in Thread /\ Sound(r)
  <2>1. all \subseteq Tasks
    BY DEF Listed
  <2>2. CASE p \in Pollers
    BY <1>1, <1>2, <2>2 DEF Thread, Steps, Sound
  <2>3. CASE p \notin Pollers
    BY <1>1, <1>2, <2>1, <2>3 DEF Thread, Steps, Sound
  <2> QED
    BY <2>2, <2>3
<1>4. Becomes(p, r)
  BY DEF list_items
<1> HIDE DEF r
<1> QED
  BY <1>3, <1>4, BecomesType

LEMMA ChooseType ==
    ASSUME TypeOK, NEW p \in Threads, ChooseOwners(p)
    PROVE  poll' \in [Threads -> Thread] /\ \A q \in Threads : Sound(poll'[q])
<1> DEFINE l == poll[p].listing
           live == owners(l) \cup rest(l)
           r == [poll[p] EXCEPT
              !.pc = "hydrate", !.todo = live, !.live = live,
              !.newest = {t \in owners(l) : _current_task(t, l[t].key) \in Group(l, l[t].key)}]
<1>1. owners(l) \subseteq Listed(l) /\ rest(l) \subseteq Listed(l) /\ Listed(l) \subseteq Tasks
  BY DEF owners, rest, Listed
<1>2. r \in Thread /\ Sound(r)
  <2> DEFINE newest == {t \in owners(l) : _current_task(t, l[t].key) \in Group(l, l[t].key)}
  <2>1. live \subseteq Listed(l) /\ live \subseteq Tasks /\ newest \subseteq live
    BY <1>1
  <2>2. poll[p] \in Thread
    BY SoundNow
  <2> HIDE DEF live, newest
  <2>3. [poll[p] EXCEPT !.pc = "hydrate", !.todo = live, !.live = live, !.newest = newest]
           \in Thread
    BY <2>1, <2>2 DEF Thread, Steps
  <2>4. Sound([poll[p] EXCEPT !.pc = "hydrate", !.todo = live, !.live = live, !.newest = newest])
    BY <2>1, <2>2 DEF Thread, Sound
  <2> QED
    BY <2>3, <2>4 DEF newest
<1>3. Becomes(p, r)
  BY DEF ChooseOwners
<1> HIDE DEF r
<1> QED
  BY <1>2, <1>3, BecomesType

\* What upsert_snapshot writes.
Snapshot(p, t) ==
    LET k == poll[p].listing[t].key
    IN  [rows[k] EXCEPT !.slice[ServiceOf[t]] =
                            [task |-> t, status |-> poll[p].listing[t].status],
                        !.titled = TRUE]

LEMMA SnapshotType ==
    ASSUME TypeOK, NEW p \in Threads, NEW t \in Tasks, upsert_snapshot(p, t)
    PROVE  /\ poll' \in [Threads -> Thread] /\ \A q \in Threads : Sound(poll'[q])
           /\ rows' \in [Keys -> Row] /\ \A k \in Keys : ~rows'[k].exists => rows'[k] = NoRow
           /\ poll[p].listing[t] \in Task
           /\ Snapshot(p, t) \in Row
<1> DEFINE k == poll[p].listing[t].key
           r == [poll[p] EXCEPT !.todo = @ \ {t}]
<1>1. poll[p].listing[t] \in Task /\ k \in Keys
  BY DEF TypeOK, Thread, Task
<1>2. r \in Thread /\ Sound(r) /\ Becomes(p, r)
  BY SoundNow DEF Thread, Sound, upsert_snapshot
<1>3. Snapshot(p, t) \in Row
  <2>1. ServiceOf[t] \in Services
    BY TaskAssumption
  <2>2. [task |-> t, status |-> poll[p].listing[t].status] \in Slice
    BY <1>1 DEF Task, Slice
  <2>3. rows[k] \in Row
    BY <1>1 DEF TypeOK
  <2> QED
    BY <2>1, <2>2, <2>3 DEF Row, Snapshot
<1>4. rows' = rows \/ Write(k, Snapshot(p, t))
  BY DEF upsert_snapshot, Snapshot
<1>5. rows' \in [Keys -> Row] /\ \A j \in Keys : ~rows'[j].exists => rows'[j] = NoRow
  <2>1. CASE rows' = rows
    BY <2>1 DEF TypeOK
  <2>2. CASE Write(k, Snapshot(p, t))
    BY <1>1, <1>3, <2>2, WriteType
  <2> QED
    BY <1>4, <2>1, <2>2
<1> HIDE DEF r
<1> QED
  BY <1>1, <1>2, <1>3, <1>5, BecomesType

\* A row of the table with one slice cleared.
Cleared(k, s) == [rows[k] EXCEPT !.slice[s] = Blank, !.old = FALSE]

LEMMA ClearedType ==
    ASSUME TypeOK, NEW k \in Keys, NEW s \in Services
    PROVE  /\ Cleared(k, s) \in Row
           /\ Cleared(k, s).exists = rows[k].exists
           /\ Cleared(k, s).timeline = rows[k].timeline
           /\ Cleared(k, s).slice[s] = Blank
           /\ \A r \in Services \ {s} : Cleared(k, s).slice[r] = rows[k].slice[r]
  BY NoRowType DEF TypeOK, Row, Cleared

\* The two steps that clear slices: each row stays, loses the slice of the
\* service, or goes.
LEMMA ReconcileType ==
    ASSUME TypeOK, NEW p \in Threads, reconcile_snapshot(p)
    PROVE  /\ rows' = [k \in Keys |-> IF ghost(p, k) THEN Cleared(k, poll[p].service)
                                      ELSE rows[k]]
           /\ rows' \in [Keys -> Row] /\ \A k \in Keys : ~rows'[k].exists => rows'[k] = NoRow
           /\ poll' \in [Threads -> Thread] /\ \A q \in Threads : Sound(poll'[q])
<1>1. poll[p].service \in Services
  BY SoundNow DEF Thread
<1>2. rows' = [k \in Keys |-> IF ghost(p, k) THEN Cleared(k, poll[p].service) ELSE rows[k]]
  BY DEF reconcile_snapshot, Cleared
<1>3. \A k \in Keys : rows[k] \in Row /\ (~rows[k].exists => rows[k] = NoRow)
  BY DEF TypeOK
<1>4. \A k \in Keys : ghost(p, k) => rows[k].exists
  BY <1>1, <1>3 DEF ghost, Running, NoRow, Blank
<1>5. \A k \in Keys : rows'[k] \in Row /\ (~rows'[k].exists => rows'[k] = NoRow)
  BY <1>1, <1>2, <1>3, <1>4, ClearedType
<1>6. rows' \in [Keys -> Row]
  BY <1>2, <1>5
<1> DEFINE r == IF p \in Pollers THEN [poll[p] EXCEPT !.pc = "duplicates"]
                ELSE NextService(p)
<1>7. r \in Thread /\ Sound(r)
  BY SoundNow, NextServiceType DEF Thread, Steps, Sound
<1>8. Becomes(p, r)
  BY DEF reconcile_snapshot
<1> HIDE DEF r
<1> QED
  BY <1>2, <1>5, <1>6, <1>7, <1>8, BecomesType

LEMMA DuplicatesType ==
    ASSUME TypeOK, NEW p \in Threads, prune_duplicate_stages(p)
    PROVE  /\ rows' = [k \in Keys |->
                          IF ~orphaned(p, k) THEN rows[k]
                          ELSE IF _row_has_stage_data(Cleared(k, poll[p].service))
                          THEN Cleared(k, poll[p].service)
                          ELSE NoRow]
           /\ rows' \in [Keys -> Row] /\ \A k \in Keys : ~rows'[k].exists => rows'[k] = NoRow
           /\ poll' \in [Threads -> Thread] /\ \A q \in Threads : Sound(poll'[q])
<1>1. poll[p].service \in Services
  BY SoundNow DEF Thread
<1>2. rows' = [k \in Keys |-> IF ~orphaned(p, k) THEN rows[k]
                              ELSE IF _row_has_stage_data(Cleared(k, poll[p].service))
                              THEN Cleared(k, poll[p].service)
                              ELSE NoRow]
  BY DEF prune_duplicate_stages, Cleared
<1>3. \A k \in Keys : rows[k] \in Row /\ (~rows[k].exists => rows[k] = NoRow)
  BY DEF TypeOK
<1>4. \A k \in Keys : orphaned(p, k) => rows[k].exists
  <2>1. poll[p].live \subseteq Tasks
    BY SoundNow DEF Thread
  <2>2. NoTask \notin Tasks
    BY TaskAssumption DEF NoTask
  <2>3. \A s \in Services : NoRow.slice[s].task = NoTask
    BY DEF NoRow, Blank
  <2> SUFFICES ASSUME NEW k \in Keys, orphaned(p, k), rows[k] = NoRow
               PROVE  FALSE
    BY <1>3
  <2>4. NoRow.slice[poll[p].service].task \in poll[p].live
    BY DEF orphaned
  <2> QED
    BY <1>1, <2>1, <2>2, <2>3, <2>4
<1>5. \A k \in Keys : rows'[k] \in Row /\ (~rows'[k].exists => rows'[k] = NoRow)
  BY <1>1, <1>2, <1>3, <1>4, ClearedType, NoRowType
<1>6. rows' \in [Keys -> Row]
  BY <1>2, <1>5
<1>7. NextService(p) \in Thread /\ Sound(NextService(p)) /\ Becomes(p, NextService(p))
  BY NextServiceType DEF prune_duplicate_stages
<1> QED
  BY <1>2, <1>5, <1>6, <1>7, BecomesType

LEMMA PruneType ==
    ASSUME TypeOK, NEW p \in Threads, prune_dead(p)
    PROVE  /\ \A k \in Keys : rows'[k] \in {rows[k], NoRow}
           /\ rows' \in [Keys -> Row] /\ \A k \in Keys : ~rows'[k].exists => rows'[k] = NoRow
           /\ poll' \in [Threads -> Thread] /\ \A q \in Threads : Sound(poll'[q])
<1>1. \A k \in Keys : rows'[k] \in {rows[k], NoRow}
  BY DEF prune_dead
<1>2. \A k \in Keys : rows'[k] \in Row /\ (~rows'[k].exists => rows'[k] = NoRow)
  BY <1>1, NoRowType DEF TypeOK
<1>3. rows' \in [Keys -> Row]
  BY <1>2 DEF prune_dead
<1>4. Idle \in Thread /\ Sound(Idle) /\ Becomes(p, Idle)
  BY IdleType DEF prune_dead
<1> QED
  BY <1>1, <1>2, <1>3, <1>4, BecomesType

\* Upstream changes tasks and sends events.
LEMMA UpstreamType ==
    ASSUME TypeOK, Upstream
    PROVE  /\ up' \in [Tasks -> Task]
           /\ net' \subseteq Event
           /\ UNCHANGED <<rows, poll>>
           /\ incidents' \in 0 .. MaxIncidents
<1>1. \A t \in Tasks : up[t] \in Task
  BY DEF TypeOK
<1>2. \A t \in Tasks, k \in Keys, status \in Statuses : Send(t, status, k) => net' \subseteq Event
  BY DEF TypeOK, Send, Event
<1>3. CASE \E t \in Tasks : \E k \in IssueKeys \cup {Fallback[t]}, stamped \in BOOLEAN :
               Start(t, k, stamped)
  <2>1. PICK t \in Tasks, k \in Keys, stamped \in BOOLEAN : Start(t, k, stamped)
    BY <1>3, TaskAssumption DEF IssueKeys
  <2>2. [status |-> "coding", listed |-> TRUE, stamped |-> stamped, key |-> k] \in Task
    BY TaskAssumption DEF Task
  <2> QED
    BY <2>1, <2>2 DEF Start, TypeOK
<1>4. CASE \E t \in Tasks : \E status \in Statuses : Advance(t, status)
  <2>1. PICK t \in Tasks, status \in Statuses : Advance(t, status)
    BY <1>4
  <2>2. net' \subseteq Event
    BY <1>1, <1>2, <2>1 DEF Advance, Task
  <2> QED
    BY <1>1, <2>1, <2>2 DEF Advance, TypeOK, Task
<1>5. CASE \E t \in Tasks : Resume(t)
  <2>1. "coding" \in Statuses
    BY TaskAssumption
  <2> QED
    BY <1>1, <1>5, <2>1, IncidentType DEF Resume, TypeOK, Task
<1>6. CASE \E t \in Tasks : Unlist(t)
  <2>1. PICK t \in Tasks : Unlist(t)
    BY <1>6
  <2>2. [up[t] EXCEPT !.listed = FALSE] \in Task
    BY <1>1 DEF Task
  <2> QED
    BY <2>1, <2>2, IncidentType DEF Unlist, TypeOK
<1>7. CASE \E t \in Tasks : \E k \in IssueKeys : Rekey(t, k)
  BY <1>1, <1>7, IncidentType DEF Rekey, TypeOK, Task, IssueKeys
<1> QED
  BY <1>3, <1>4, <1>5, <1>6, <1>7 DEF Upstream

\* Every step keeps the types.
LEMMA TypeStep ==
    ASSUME TypeOK, [Next]_vars
    PROVE  TypeOK'
<1> DEFINE Rows == /\ rows' \in [Keys -> Row]
                   /\ \A k \in Keys : ~rows'[k].exists => rows'[k] = NoRow
           Polls == poll' \in [Threads -> Thread] /\ \A q \in Threads : Sound(poll'[q])
<1>1. ASSUME up' \in [Tasks -> Task], net' \subseteq Event, Rows, Polls,
             incidents' \in 0 .. MaxIncidents
      PROVE  TypeOK'
  BY <1>1 DEF TypeOK, Sound
<1>2. /\ up \in [Tasks -> Task] /\ net \subseteq Event /\ incidents \in 0 .. MaxIncidents
      /\ UNCHANGED rows => Rows
      /\ UNCHANGED poll => Polls
  BY SoundNow DEF TypeOK
<1>3. CASE UNCHANGED vars
  BY <1>1, <1>2, <1>3 DEF vars
<1>4. ASSUME NEW e \in net, upsert_from_event(e) \/ Redelivered(e)
      PROVE  TypeOK'
  <2>1. Apply(e) /\ net' \subseteq net /\ incidents' \in 0 .. MaxIncidents
    BY <1>2, <1>4, IncidentType DEF upsert_from_event, Redelivered
  <2>2. Rows /\ UNCHANGED <<up, poll>>
    BY <2>1, ApplyType DEF Apply
  <2> QED
    BY <1>1, <1>2, <2>1, <2>2
<1>5. ASSUME NEW p \in Threads, poll_progress_once(p) \/ refresh(p)
      PROVE  TypeOK'
  <2>1. [Idle EXCEPT !.pc = "fetch"] \in Thread /\ Sound([Idle EXCEPT !.pc = "fetch"])
    BY IdleType DEF Steps
  <2>2. Becomes(p, [Idle EXCEPT !.pc = "fetch"])
    BY <1>5 DEF poll_progress_once, refresh
  <2>3. UNCHANGED <<up, net, rows>> /\ incidents' \in 0 .. MaxIncidents
    BY <1>2, <1>5, IncidentType DEF poll_progress_once, refresh
  <2> QED
    BY <1>1, <1>2, <2>1, <2>2, <2>3, BecomesType
<1>6. ASSUME NEW p \in Threads, Proceed(p)
      PROVE  TypeOK'
  <2>1. CASE list_items(p)
    BY <1>1, <1>2, <2>1, ListType DEF list_items
  <2>2. CASE ChooseOwners(p)
    BY <1>1, <1>2, <2>2, ChooseType DEF ChooseOwners
  <2>3. CASE \E t \in Tasks : upsert_snapshot(p, t)
    <3>1. PICK t \in Tasks : upsert_snapshot(p, t)
      BY <2>3
    <3>2. Rows /\ Polls
      BY <3>1, SnapshotType
    <3> QED
      BY <1>1, <1>2, <3>1, <3>2 DEF upsert_snapshot
  <2>4. CASE reconcile_snapshot(p)
    BY <1>1, <1>2, <2>4, ReconcileType DEF reconcile_snapshot
  <2>5. CASE prune_duplicate_stages(p)
    BY <1>1, <1>2, <2>5, DuplicatesType DEF prune_duplicate_stages
  <2>6. CASE prune_dead(p)
    BY <1>1, <1>2, <2>6, PruneType DEF prune_dead
  <2> QED
    BY <1>6, <2>1, <2>2, <2>3, <2>4, <2>5, <2>6 DEF Proceed
<1>7. ASSUME NEW p \in Threads, ListFails(p)
      PROVE  TypeOK'
  <2>1. Polls
    BY <1>7, NextServiceType, BecomesType DEF ListFails
  <2> QED
    BY <1>1, <1>2, <1>7, <2>1, IncidentType DEF ListFails
<1>8. ASSUME NEW p \in Threads, Crash(p)
      PROVE  TypeOK'
  <2>1. Polls
    BY <1>8, IdleType, BecomesType DEF Crash
  <2> QED
    BY <1>1, <1>2, <1>8, <2>1, IncidentType DEF Crash
<1>9. ASSUME NEW k \in Keys, delete(k)
      PROVE  TypeOK'
  <2>1. Rows
    BY <1>9, NoRowType DEF delete, TypeOK
  <2> QED
    BY <1>1, <1>2, <1>9, <2>1, IncidentType DEF delete
<1>10. ASSUME NEW k \in Keys, Age(k)
       PROVE  TypeOK'
  <2>1. [rows[k] EXCEPT !.old = TRUE] \in Row /\ rows[k].exists
    BY <1>10 DEF Age, TypeOK, Row
  <2>2. Rows
    BY <1>10, <2>1 DEF Age, TypeOK, Row
  <2> QED
    BY <1>1, <1>2, <1>10, <2>2 DEF Age
<1>11. CASE Upstream
  BY <1>1, <1>2, <1>11, UpstreamType
<1> QED
  BY <1>3, <1>4, <1>5, <1>6, <1>7, <1>8, <1>9, <1>10, <1>11 DEF Next, Threads

LEMMA TypeInit ==
    ASSUME Init
    PROVE  TypeOK
<1>1. Nobody \in [Tasks -> Task]
  BY TaskAssumption DEF Nobody, Unborn, Task
<1>2. poll \in [Threads -> Thread] /\ \A p \in Threads : Sound(poll[p])
  BY IdleType DEF Init
<1>3. rows \in [Keys -> Row] /\ \A k \in Keys : rows[k] = NoRow
  BY NoRowType DEF Init
<1> QED
  BY <1>1, <1>2, <1>3, BoundAssumption DEF Init, TypeOK, Sound

\* Rows, tasks, events and threads are well typed in every reachable state,
\* and a poll writes only what it has listed.
THEOREM TypeCorrect == Spec => []TypeOK
<1>1. Init => TypeOK
  BY TypeInit
<1>2. TypeOK /\ [Next]_vars => TypeOK'
  BY TypeStep
<1> QED
  BY <1>1, <1>2, PTL DEF Spec

-----------------------------------------------------------------------------
(* What a step does to tasks, to timelines and to threads.                 *)

\* A task stays created, stays as it ended, and changes its key at most from
\* its fallback to an issue's.
Evolves(t) ==
    /\ up'[t].status = "none" => up[t].status = "none"
    /\ is_terminal(up[t].status) => up'[t].status = up[t].status
    /\ up[t].status # "none" =>
          up'[t].key = up[t].key \/ (up[t].key = Fallback[t] /\ up'[t].key \in IssueKeys)
    /\ up'[t].listed => up[t].listed \/ up'[t].status # "none"
    /\ up'[t].key \in {up[t].key} \cup IssueKeys \cup {Fallback[t]}

LEMMA TasksEvolve ==
    ASSUME TypeOK, [Next]_vars
    PROVE  \A t \in Tasks : Evolves(t)
<1> SUFFICES ASSUME NEW t \in Tasks
             PROVE  Evolves(t)
  OBVIOUS
<1>1. up \in [Tasks -> Task]
  BY DEF TypeOK
<1>2. CASE UNCHANGED up
  BY <1>2 DEF Evolves
<1>3. ASSUME NEW u \in Tasks, NEW k \in IssueKeys \cup {Fallback[u]}, NEW stamped \in BOOLEAN,
             Start(u, k, stamped)
      PROVE  Evolves(t)
  BY <1>1, <1>3 DEF Start, Evolves, is_terminal
<1>4. ASSUME NEW u \in Tasks, NEW status \in Statuses, Advance(u, status)
      PROVE  Evolves(t)
  <2>1. status # "none"
    BY TaskAssumption
  <2> QED
    BY <1>1, <1>4, <2>1 DEF Advance, Evolves, is_terminal, Running
<1>5. ASSUME NEW u \in Tasks, Resume(u)
      PROVE  Evolves(t)
  BY <1>1, <1>5 DEF Resume, Evolves, is_terminal, is_dead_stage
<1>6. ASSUME NEW u \in Tasks, Unlist(u)
      PROVE  Evolves(t)
  BY <1>1, <1>6 DEF Unlist, Evolves
<1>7. ASSUME NEW u \in Tasks, NEW k \in IssueKeys, Rekey(u, k)
      PROVE  Evolves(t)
  BY <1>1, <1>7 DEF Rekey, Evolves
<1>8. Upstream \/ UNCHANGED up
  BY DEF Next, vars, Proceed, poll_progress_once, refresh, list_items, ChooseOwners,
         upsert_snapshot, reconcile_snapshot, prune_duplicate_stages, prune_dead,
         ListFails, Crash, upsert_from_event, Redelivered, Apply, delete, Age
<1> QED
  BY <1>2, <1>3, <1>4, <1>5, <1>6, <1>7, <1>8 DEF Upstream

\* Only an event that is applied enters a timeline.
LEMMA TimelinesGrow ==
    ASSUME TypeOK, [Next]_vars
    PROVE  \/ \E e \in net : Apply(e)
           \/ \A k \in Keys : rows'[k].timeline \subseteq rows[k].timeline
<1> DEFINE Less == \A k \in Keys : rows'[k].timeline \subseteq rows[k].timeline
<1>1. rows \in [Keys -> Row] /\ NoRow.timeline = {}
  BY DEF TypeOK, NoRow
<1>2. CASE UNCHANGED rows
  BY <1>2
<1>3. ASSUME NEW p \in Threads, NEW t \in Tasks, upsert_snapshot(p, t)
      PROVE  Less
  <2> DEFINE k == poll[p].listing[t].key
  <2>1. k \in Keys /\ Snapshot(p, t) \in Row
    BY <1>3, SnapshotType DEF Task
  <2>2. rows' = rows \/ Write(k, Snapshot(p, t))
    BY <1>3 DEF upsert_snapshot, Snapshot
  <2>3. Snapshot(p, t).timeline = rows[k].timeline
    BY <1>1, <2>1 DEF Snapshot, Row
  <2>4. CASE Write(k, Snapshot(p, t))
    <3> HIDE DEF k
    <3>1. rows'[k] = [Snapshot(p, t) EXCEPT !.exists = TRUE, !.old = FALSE]
      BY <2>1, <2>4, WriteType
    <3>2. \A j \in Keys \ {k} : rows'[j] = rows[j]
      BY <2>1, <2>4, WriteType
    <3>3. rows'[k].timeline = rows[k].timeline
      BY <2>1, <2>3, <3>1 DEF Row
    <3> QED
      BY <3>2, <3>3
  <2> QED
    BY <2>2, <2>4
<1>4. ASSUME NEW p \in Threads, reconcile_snapshot(p)
      PROVE  Less
  <2>1. poll[p].service \in Services
    BY SoundNow DEF Thread
  <2> QED
    BY <1>4, <2>1, ReconcileType, ClearedType
<1>5. ASSUME NEW p \in Threads, prune_duplicate_stages(p)
      PROVE  Less
  <2>1. poll[p].service \in Services
    BY SoundNow DEF Thread
  <2> QED
    BY <1>1, <1>5, <2>1, DuplicatesType, ClearedType
<1>6. ASSUME NEW p \in Threads, prune_dead(p)
      PROVE  Less
  BY <1>1, <1>6, PruneType
<1>7. ASSUME NEW k \in Keys, delete(k) \/ Age(k)
      PROVE  Less
  BY <1>1, <1>7 DEF delete, Age, Row
<1> QED
  BY <1>2, <1>3, <1>4, <1>5, <1>6, <1>7
     DEF Next, vars, Proceed, poll_progress_once, refresh, list_items, ChooseOwners,
         ListFails, Crash, upsert_from_event, Redelivered, Upstream, Start, Advance,
         Resume, Unlist, Rekey, Threads

\* One thread moves at a time; it forgets its listing, keeps it, or reads it.
Moves(p) ==
    /\ \A q \in Threads \ {p} : poll'[q] = poll[q]
    /\ \/ poll'[p].listing = Nobody
       \/ poll'[p].listing = poll[p].listing /\ poll'[p].service = poll[p].service
       \/ list_items(p)
    /\ At(p, "idle") => Quiet(p)
    /\ poll'[p].pc = "idle" => poll'[p] = Idle

LEMMA ThreadsMove ==
    ASSUME TypeOK, Next
    PROVE  UNCHANGED poll \/ \E p \in Threads : Moves(p)
<1>1. ASSUME NEW p \in Threads, poll_progress_once(p) \/ refresh(p)
      PROVE  Moves(p)
  <2> DEFINE r == [Idle EXCEPT !.pc = "fetch"]
  <2>1. r \in Thread /\ Sound(r) /\ r.listing = Nobody /\ r.pc # "idle" /\ Becomes(p, r)
    BY <1>1, IdleType DEF Steps, poll_progress_once, refresh, Idle
  <2> HIDE DEF r
  <2> QED
    BY <1>1, <2>1, BecomesType DEF Moves, poll_progress_once, refresh
<1>2. ASSUME NEW p \in Threads, ListFails(p) \/ prune_duplicate_stages(p)
      PROVE  Moves(p)
  BY <1>2, NextServiceType, BecomesType DEF Moves, ListFails, prune_duplicate_stages, At
<1>3. ASSUME NEW p \in Threads, Crash(p) \/ prune_dead(p)
      PROVE  Moves(p)
  <2>1. Becomes(p, Idle) /\ ~At(p, "idle")
    BY <1>3 DEF Crash, prune_dead, At
  <2>2. Idle \in Thread /\ Sound(Idle) /\ Idle.listing = Nobody
    BY IdleType DEF Idle
  <2>3. poll'[p] = Idle /\ \A q \in Threads \ {p} : poll'[q] = poll[q]
    BY <2>1, <2>2, BecomesType
  <2> QED
    BY <2>1, <2>2, <2>3 DEF Moves
<1>4. ASSUME NEW p \in Threads, list_items(p)
      PROVE  Moves(p)
  <2>1. poll \in [Threads -> Thread] /\ \A q \in Threads \ {p} : poll'[q] = poll[q]
    BY <1>4 DEF list_items, Becomes, TypeOK
  <2>2. poll'[p].pc \in {"owners", "hydrate"}
    BY <1>4, <2>1 DEF list_items, Becomes, Thread
  <2> QED
    BY <1>4, <2>1, <2>2 DEF Moves, list_items, At
<1>5. ASSUME NEW p \in Threads, ChooseOwners(p)
      PROVE  Moves(p)
  <2>1. poll \in [Threads -> Thread] /\ \A q \in Threads \ {p} : poll'[q] = poll[q]
    BY <1>5 DEF ChooseOwners, Becomes, TypeOK
  <2>2. /\ poll'[p].pc = "hydrate" /\ poll'[p].listing = poll[p].listing
        /\ poll'[p].service = poll[p].service
    BY <1>5, <2>1 DEF ChooseOwners, Becomes, Thread
  <2> QED
    BY <1>5, <2>1, <2>2 DEF Moves, ChooseOwners, At
<1>6. ASSUME NEW p \in Threads, NEW t \in Tasks, upsert_snapshot(p, t)
      PROVE  Moves(p)
  <2>1. poll \in [Threads -> Thread] /\ \A q \in Threads \ {p} : poll'[q] = poll[q]
    BY <1>6 DEF upsert_snapshot, Becomes, TypeOK
  <2>2. /\ poll'[p].pc = poll[p].pc /\ poll'[p].listing = poll[p].listing
        /\ poll'[p].service = poll[p].service
    BY <1>6, <2>1 DEF upsert_snapshot, Becomes, Thread
  <2> QED
    BY <1>6, <2>1, <2>2 DEF Moves, upsert_snapshot, At
<1>7. ASSUME NEW p \in Threads, reconcile_snapshot(p)
      PROVE  Moves(p)
  <2>1. CASE p \in Pollers
    <3>1. poll \in [Threads -> Thread] /\ poll' = [poll EXCEPT ![p].pc = "duplicates"]
      BY <1>7, <2>1 DEF reconcile_snapshot, Becomes, TypeOK
    <3> QED
      BY <1>7, <3>1 DEF Moves, reconcile_snapshot, At, Thread
  <2>2. CASE p \notin Pollers
    BY <1>7, <2>2, NextServiceType, BecomesType DEF Moves, reconcile_snapshot, At
  <2> QED
    BY <2>1, <2>2
<1> QED
  BY <1>1, <1>2, <1>3, <1>4, <1>5, <1>6, <1>7
     DEF Next, Proceed, upsert_from_event, Redelivered, Apply, delete, Age, Upstream,
         Start, Advance, Resume, Unlist, Rekey, Threads

-----------------------------------------------------------------------------
(* The invariant is inductive.                                             *)

LEMMA MutexStep ==
    ASSUME TypeOK, MutexInv, Serial, [Next]_vars
    PROVE  MutexInv'
<1>1. CASE UNCHANGED poll
  BY <1>1 DEF MutexInv, At
<1>2. ASSUME NEW p \in Threads, Moves(p)
      PROVE  MutexInv'
  <2>1. \A q \in Threads \ {p} : At(q, "idle")
    BY <1>2 DEF MutexInv, Moves, Quiet, Serial
  <2>2. \A q \in Threads \ {p} : At(q, "idle")'
    BY <1>2, <2>1 DEF Moves, At
  <2> QED
    BY <1>2, <2>1, <2>2 DEF MutexInv, Moves, At
<1> QED
  BY <1>1, <1>2, ThreadsMove DEF vars

LEMMA KeyStep ==
    ASSUME TypeOK, KeyInv, [Next]_vars
    PROVE  KeyInv'
  BY TasksEvolve DEF KeyInv, Evolves

\* What is past stays past.
LEMMA PastStays ==
    ASSUME TypeOK, [Next]_vars, NEW e \in Event, Past(e)
    PROVE  Past(e)'
<1>1. e.task \in Tasks /\ Evolves(e.task)
  BY TasksEvolve DEF Event
<1>2. up[e.task].status # "none"
  BY DEF Past, is_terminal
<1> QED
  BY <1>1, <1>2 DEF Past, Evolves

LEMMA EventStep ==
    ASSUME TypeOK, EventInv, [Next]_vars
    PROVE  EventInv'
<1>1. net \subseteq Event /\ \A k \in Keys : rows[k].timeline \subseteq Event
  BY DEF TypeOK, Row
<1>2. \A e \in net' : Past(e)'
  <2>1. CASE net' \subseteq net
    BY <1>1, <2>1, PastStays DEF EventInv
  <2>2. ASSUME NEW t \in Tasks, NEW status \in Statuses, Advance(t, status)
        PROVE  \A e \in net' : Past(e)'
    <3> SUFFICES ASSUME NEW e \in net'
                 PROVE  Past(e)'
      OBVIOUS
    <3>1. CASE e \in net
      BY <1>1, <3>1, PastStays DEF EventInv
    <3>2. CASE e \notin net
      <4>1. e = [task |-> t, key |-> up[t].key, status |-> status] /\ is_terminal(status)
        BY <2>2, <3>2 DEF Advance, Send
      <4>2. up'[t].key = up[t].key /\ up'[t].status = status
        BY <2>2 DEF Advance, TypeOK, Task
      <4> QED
        BY <4>1, <4>2 DEF Past
    <3> QED
      BY <3>1, <3>2
  <2> QED
    BY <2>1, <2>2
       DEF Next, vars, Proceed, poll_progress_once, refresh, list_items, ChooseOwners,
           upsert_snapshot, reconcile_snapshot, prune_duplicate_stages, prune_dead,
           ListFails, Crash, upsert_from_event, Redelivered, Upstream, Start, Resume,
           Unlist, Rekey, delete, Age
<1>3. ASSUME NEW k \in Keys
      PROVE  \A e \in rows'[k].timeline : Past(e)' /\ e.key = k
  <2>1. CASE rows'[k].timeline \subseteq rows[k].timeline
    BY <1>1, <2>1, PastStays DEF EventInv
  <2>2. ASSUME NEW f \in net, Apply(f)
        PROVE  \A e \in rows'[k].timeline : Past(e)' /\ e.key = k
    <3>1. \/ rows'[k].timeline = rows[k].timeline
          \/ f.key = k /\ rows'[k].timeline = rows[k].timeline \cup {f}
      <4>1. CASE rows' = rows
        BY <4>1
      <4>2. CASE rows' # rows /\ f.key = k
        BY <2>2, <4>2, ApplyWrites
      <4>3. CASE rows' # rows /\ f.key # k
        BY <2>2, <4>3, ApplyWrites
      <4> QED
        BY <4>1, <4>2, <4>3
    <3>2. CASE rows'[k].timeline = rows[k].timeline
      BY <2>1, <3>2
    <3>3. CASE f.key = k /\ rows'[k].timeline = rows[k].timeline \cup {f}
      BY <1>1, <3>3, PastStays DEF EventInv
    <3> QED
      BY <3>1, <3>2, <3>3
  <2> QED
    BY <2>1, <2>2, TimelinesGrow
<1> QED
  BY <1>2, <1>3 DEF EventInv

LEMMA ListStep ==
    ASSUME TypeOK, MutexInv, KeyInv, EventInv, ListInv, Serial, [Next]_vars
    PROVE  ListInv'
<1>1. \A t \in Tasks : Evolves(t)
  BY TasksEvolve
<1>2. \A t \in Tasks : up'[t].listed => up'[t].status # "none"
  BY <1>1 DEF ListInv, Evolves
<1> DEFINE Fits(p, t) ==
             /\ ServiceOf[t] = poll[p].service
             /\ up[t].status # "none"
             /\ poll[p].listing[t].key \in {up[t].key, Fallback[t]}
             /\ \A k \in Keys : \A e \in rows[k].timeline :
                   e.task = t => /\ is_terminal(poll[p].listing[t].status)
                                 /\ up[t].key = k => poll[p].listing[t].key = k
<1>3. ASSUME NEW p \in Threads, NEW t \in Listed(poll'[p].listing)
      PROVE  Fits(p, t)'
  <2>1. t \in Tasks /\ Listed(Nobody) = {}
    BY IdleType DEF Listed
  <2>2. CASE list_items(p)
    <3>1. rows' = rows /\ up' = up /\ poll'[p].service = poll[p].service
      BY <2>2 DEF list_items, Becomes, TypeOK, Thread
    <3>2. poll'[p].listing = [u \in Tasks |-> IF ServiceOf[u] = poll[p].service /\ up[u].listed
                                              THEN up[u] ELSE Unborn(u)]
      BY <2>2 DEF list_items, Becomes, TypeOK, Thread
    <3>3. poll'[p].listing[t] = up[t] /\ ServiceOf[t] = poll[p].service /\ up[t].listed
      BY <2>1, <3>2 DEF Listed, Unborn
    <3> QED
      BY <2>1, <3>1, <3>3 DEF ListInv, EventInv, Past
  <2>3. CASE poll'[p].listing = poll[p].listing /\ poll'[p].service = poll[p].service
    <3>1. Fits(p, t)
      BY <2>3 DEF ListInv
    <3>2. poll[p].listing # Nobody
      BY <2>1, <2>3
    <3>3. ~At(p, "idle")
      BY <3>2 DEF MutexInv, Idle
    <3>4. \A k \in Keys : rows'[k].timeline \subseteq rows[k].timeline
      BY <3>3, TimelinesGrow DEF Apply, Serial
    <3>5. up'[t].status # "none" /\ poll'[p].listing[t].key \in {up'[t].key, Fallback[t]}
      BY <1>1, <2>1, <2>3, <3>1 DEF Evolves
    <3>6. ASSUME NEW k \in Keys, NEW e \in rows'[k].timeline, e.task = t
          PROVE  /\ is_terminal(poll'[p].listing[t].status)
                 /\ up'[t].key = k => poll'[p].listing[t].key = k
      <4>1. e \in rows[k].timeline /\ Past(e) /\ e.key = k
        BY <3>4, <3>6 DEF EventInv
      <4>2. up'[t].key = k => up[t].key = k
        BY <1>1, <2>1, <3>1, <3>6, <4>1 DEF Evolves, Past, IssueKeys
      <4> QED
        BY <2>3, <3>1, <3>6, <4>1, <4>2
    <3> QED
      BY <2>3, <3>1, <3>5, <3>6
  <2>4. CASE poll'[p].listing = Nobody
    BY <1>3, <2>1, <2>4
  <2> QED
    BY <2>2, <2>3, <2>4, ThreadsMove DEF Moves, vars
<1> QED
  BY <1>2, <1>3 DEF ListInv

\* What upsert_snapshot writes, in terms of slices.
Wrote(p, t, k) ==
    /\ k \in Keys /\ t \in Listed(poll[p].listing)
    /\ \A j \in Keys \ {k} : rows'[j] = rows[j]
    /\ rows'[k].slice[ServiceOf[t]] = [task |-> t, status |-> poll[p].listing[t].status]
    /\ \A s \in Services \ {ServiceOf[t]} : rows'[k].slice[s] = rows[k].slice[s]
    /\ rows'[k].timeline = rows[k].timeline

LEMMA SnapshotWrites ==
    ASSUME TypeOK, NEW p \in Threads, NEW t \in Tasks, NEW k, k = poll[p].listing[t].key,
           upsert_snapshot(p, t), rows' # rows
    PROVE  Wrote(p, t, k)
<1>1. k \in Keys /\ Snapshot(p, t) \in Row /\ rows[k] \in Row
  BY SnapshotType DEF Task, TypeOK
<1>2. t \in Listed(poll[p].listing)
  BY SoundNow DEF upsert_snapshot, Sound
<1>3. Write(k, Snapshot(p, t))
  BY DEF upsert_snapshot, Snapshot
<1>4. /\ rows'[k] = [Snapshot(p, t) EXCEPT !.exists = TRUE, !.old = FALSE]
      /\ \A j \in Keys \ {k} : rows'[j] = rows[j]
  BY <1>1, <1>3, WriteType
<1>5. rows'[k].slice = Snapshot(p, t).slice /\ rows'[k].timeline = Snapshot(p, t).timeline
  BY <1>1, <1>4 DEF Row
<1>6. /\ Snapshot(p, t).timeline = rows[k].timeline
      /\ Snapshot(p, t).slice = [rows[k].slice EXCEPT ![ServiceOf[t]] =
                                    [task |-> t, status |-> poll[p].listing[t].status]]
  BY <1>1 DEF Snapshot, Row
<1>7. rows[k].slice \in [Services -> Slice] /\ ServiceOf[t] \in Services
  BY <1>1, TaskAssumption DEF Row
<1>8. rows'[k].slice = [rows[k].slice EXCEPT ![ServiceOf[t]] =
                           [task |-> t, status |-> poll[p].listing[t].status]]
  BY <1>5, <1>6
<1>9. /\ rows'[k].slice[ServiceOf[t]] = [task |-> t, status |-> poll[p].listing[t].status]
      /\ \A s \in Services \ {ServiceOf[t]} : rows'[k].slice[s] = rows[k].slice[s]
  BY <1>7, <1>8
<1> QED
  BY <1>1, <1>2, <1>4, <1>5, <1>6, <1>9 DEF Wrote

\* Of the tasks on one key, the one that owns the row is the only one written.
LEMMA OwnerIsAlone ==
    ASSUME NEW l \in [Tasks -> Task], NEW t \in owners(l), NEW u \in owners(l) \cup rest(l),
           l[u].key = l[t].key
    PROVE  u = t
<1>1. t \in Tasks /\ u \in Tasks /\ Tasks \subseteq Nat
  BY TaskAssumption DEF owners, rest, Listed
<1>2. t \in Group(l, l[u].key) /\ u \in Group(l, l[t].key)
  BY <1>1 DEF owners, rest, Group, Listed
<1>3. l[u].stamped /\ u <= t
  BY <1>2 DEF owners
<1>4. CASE u \in owners(l)
  <2>1. t <= u
    BY <1>2, <1>4 DEF owners
  <2> QED
    BY <1>1, <1>3, <2>1
<1>5. CASE u \in rest(l)
  <2>1. PICK v \in Group(l, l[u].key) : ~l[v].stamped
    BY <1>5 DEF rest
  <2>2. v \in Group(l, l[t].key)
    BY <2>1
  <2> QED
    BY <2>1, <2>2 DEF owners
<1> QED
  BY <1>4, <1>5

LEMMA NewestStep ==
    ASSUME TypeOK, MutexInv, ListInv, NewestInv, Serial, [Next]_vars
    PROVE  NewestInv'
<1> DEFINE Owned(q) == \A t \in poll[q].newest :
                          LET k == poll[q].listing[t].key
                          IN  /\ \A u \in poll[q].live : poll[q].listing[u].key = k => u = t
                              /\ _current_task(t, k) <= t
<1> SUFFICES ASSUME NEW q \in Threads, At(q, "hydrate")'
             PROVE  Owned(q)'
  BY DEF NewestInv
<1>1. /\ poll \in [Threads -> Thread] /\ rows \in [Keys -> Row]
      /\ poll[q].newest \subseteq poll[q].live /\ poll[q].live \subseteq Listed(poll[q].listing)
      /\ poll[q].listing \in [Tasks -> Task]
  BY SoundNow DEF TypeOK, Sound, Thread
<1>2. \A t \in poll[q].newest : /\ t \in Nat /\ t \in Tasks /\ ServiceOf[t] \in Services
                                /\ poll[q].listing[t].key \in Keys
  BY <1>1, TaskAssumption DEF Listed, Task
<1>3. CASE UNCHANGED <<rows, poll>>
  BY <1>3 DEF NewestInv, At, _current_task
<1>4. ASSUME NEW k \in Keys, delete(k) \/ Age(k)
      PROVE  Owned(q)'
  <2>1. poll' = poll /\ Owned(q)
    BY <1>4 DEF delete, Age, NewestInv, At
  <2>2. \A j \in Keys, s \in Services : rows'[j].slice[s].task \in {rows[j].slice[s].task, NoTask}
    BY <1>1, <1>4 DEF delete, Age, NoRow, Blank, Row
  <2>3. ASSUME NEW t \in poll[q].newest
        PROVE  _current_task(t, poll[q].listing[t].key)' <= t
    <3> DEFINE j == poll[q].listing[t].key
    <3>1. rows[j].slice[ServiceOf[t]].task <= t
      BY <2>1, <2>3 DEF _current_task
    <3>2. t \in Nat /\ rows'[j].slice[ServiceOf[t]].task \in {rows[j].slice[ServiceOf[t]].task, 0}
      BY <1>2, <2>2, <2>3 DEF NoTask
    <3> HIDE DEF j
    <3>3. rows'[j].slice[ServiceOf[t]].task <= t
      BY <3>1, <3>2
    <3> QED
      BY <2>1, <3>3 DEF _current_task, j
  <2> QED
    BY <2>1, <2>3
<1>5. ASSUME NEW e \in net, Apply(e)
      PROVE  Owned(q)'
  BY <1>5 DEF Apply, Serial, At
<1>6. ASSUME NEW p \in Threads, Proceed(p) \/ ListFails(p) \/ Crash(p)
      PROVE  Owned(q)'
  <2>1. ~At(p, "idle")
    BY <1>6 DEF Proceed, ListFails, Crash, list_items, ChooseOwners, upsert_snapshot,
                reconcile_snapshot, prune_duplicate_stages, prune_dead, At
  <2>2. poll' = [poll EXCEPT ![p] = poll'[p]]
    BY <1>1, <1>6 DEF Proceed, ListFails, Crash, list_items, ChooseOwners, upsert_snapshot,
                reconcile_snapshot, prune_duplicate_stages, prune_dead, Becomes
  <2>3. p = q
    <3> SUFFICES ASSUME p # q
                 PROVE  FALSE
      OBVIOUS
    <3>1. poll'[q] = poll[q] /\ poll'[q].pc = "hydrate"
      BY <1>1, <2>2 DEF At
    <3>2. ~At(q, "idle")
      BY <3>1 DEF At
    <3> QED
      BY <2>1, <3>2 DEF MutexInv
  <2>4. CASE list_items(p)
    <3>1. poll'[q].newest = poll[q].newest /\ poll[q].live = {}
      BY <1>1, <2>3, <2>4, SoundNow DEF list_items, Becomes, Thread, Sound, At
    <3> QED
      BY <1>1, <3>1
  <2>5. CASE ChooseOwners(p)
    <3> DEFINE l == poll[q].listing
    <3>1. /\ poll'[q].listing = l /\ rows' = rows
          /\ poll'[q].live = owners(l) \cup rest(l)
          /\ poll'[q].newest = {t \in owners(l) : _current_task(t, l[t].key) \in Group(l, l[t].key)}
      BY <1>1, <2>3, <2>5 DEF ChooseOwners, Becomes, Thread
    <3> HIDE DEF l
    <3>2. ASSUME NEW t \in poll'[q].newest
          PROVE  /\ \A u \in poll'[q].live : l[u].key = l[t].key => u = t
                 /\ _current_task(t, l[t].key) <= t
      <4>1. l \in [Tasks -> Task]
        BY <1>1 DEF l
      <4>2. t \in owners(l) /\ _current_task(t, l[t].key) \in Group(l, l[t].key)
        BY <3>1, <3>2
      <4> QED
        BY <3>1, <4>1, <4>2, OwnerIsAlone DEF owners
    <3> QED
      BY <3>1, <3>2 DEF _current_task
  <2>6. ASSUME NEW t \in Tasks, upsert_snapshot(p, t)
        PROVE  Owned(q)'
    <3>1. /\ poll'[q].listing = poll[q].listing /\ poll'[q].live = poll[q].live
          /\ poll'[q].newest = poll[q].newest /\ At(q, "hydrate") /\ t \in poll[q].live
      BY <1>1, <2>3, <2>6, SoundNow DEF upsert_snapshot, Becomes, Thread, Sound
    <3>2. Owned(q)
      BY <3>1 DEF NewestInv
    <3> DEFINE k == poll[q].listing[t].key
    <3>3. CASE rows' # rows
      <4> k = poll[q].listing[t].key
        OBVIOUS
      <4> HIDE DEF k
      <4>2. /\ \A j \in Keys \ {k} : rows'[j] = rows[j]
            /\ rows'[k].slice[ServiceOf[t]] = [task |-> t, status |-> poll[q].listing[t].status]
        <5>1. Wrote(q, t, k)
          BY <2>3, <2>6, <3>3, SnapshotWrites
        <5> QED
          BY <5>1 DEF Wrote
      <4>1. ASSUME NEW u \in poll[q].newest
            PROVE  _current_task(u, poll[q].listing[u].key)' <= u
        <5>1. CASE poll[q].listing[u].key = k
          <6>1. u = t
            BY <3>1, <3>2, <5>1
          <6>2. rows'[k].slice[ServiceOf[t]].task = t
            BY <4>2
          <6> QED
            BY <1>2, <3>1, <5>1, <6>1, <6>2 DEF _current_task
        <5>2. CASE poll[q].listing[u].key # k
          <6>1. rows'[poll[q].listing[u].key] = rows[poll[q].listing[u].key]
            BY <1>2, <4>2, <5>2
          <6> QED
            BY <3>1, <3>2, <6>1 DEF _current_task
        <5> QED
          BY <5>1, <5>2
      <4> QED
        BY <3>1, <3>2, <4>1
    <3> QED
      BY <3>1, <3>2, <3>3 DEF _current_task
  <2>7. CASE \/ reconcile_snapshot(p) \/ prune_duplicate_stages(p) \/ prune_dead(p)
             \/ ListFails(p) \/ Crash(p)
    <3>1. poll'[p].pc # "hydrate"
      <4>1. NextService(p).pc # "hydrate" /\ Idle.pc # "hydrate"
        BY NextServiceType DEF Idle
      <4>2. CASE reconcile_snapshot(p) /\ p \in Pollers
        BY <1>1, <4>2 DEF reconcile_snapshot, Becomes, Thread
      <4>3. CASE Becomes(p, NextService(p)) \/ Becomes(p, Idle)
        <5> HIDE DEF Owned
        <5> QED
          BY <1>1, <4>1, <4>3 DEF Becomes
      <4> QED
        BY <2>7, <4>2, <4>3 DEF reconcile_snapshot, prune_duplicate_stages, prune_dead,
                               ListFails, Crash
    <3> QED
      BY <2>3, <3>1 DEF At
  <2> QED
    BY <1>6, <2>4, <2>5, <2>6, <2>7 DEF Proceed
<1>7. ASSUME NEW p \in Threads, poll_progress_once(p) \/ refresh(p)
      PROVE  Owned(q)'
  <2>1. /\ poll' = [poll EXCEPT ![p] = [Idle EXCEPT !.pc = "fetch"]] /\ rows' = rows
        /\ \A r \in Threads \ {p} : At(r, "idle")
    BY <1>7 DEF poll_progress_once, refresh, Becomes, Quiet, Serial
  <2> QED
    BY <1>1, <2>1 DEF At, Idle
<1> QED
  BY <1>3, <1>4, <1>5, <1>6, <1>7
     DEF Next, vars, upsert_from_event, Redelivered, Upstream, Start, Advance, Resume,
         Unlist, Rekey, Threads

\* Without a re-run on its key, a task is the only one that can be written there.
LEMMA OnlyTask ==
    ASSUME KeyInv, NEW k \in Keys, NEW t \in Tasks, up[t].key = k, ~Rerun(t, k),
           NEW u \in Tasks, ServiceOf[u] = ServiceOf[t], up[u].status # "none",
           k \in {up[u].key, Fallback[u]}
    PROVE  u = t
<1>1. up[u].key # k \/ u = t
  BY DEF Rerun
<1>2. k \in IssueKeys \/ k = Fallback[t]
  BY DEF KeyInv
<1>3. Fallback[u] = Fallback[t] => u = t
  BY TaskAssumption
<1> QED
  BY <1>1, <1>2, <1>3 DEF IssueKeys

\* Whether a completion on record is to be kept was so before the step.
LEMMA KeptBefore ==
    ASSUME TypeOK, KeyInv, EventInv, [Next]_vars, NEW k \in Keys, NEW e \in rows[k].timeline,
           up'[e.task].key = k, ~Rerun(e.task, k)'
    PROVE  e.task \in Tasks /\ up[e.task].key = k /\ ~Rerun(e.task, k)
<1>1. e.task \in Tasks /\ Past(e) /\ e.key = k
  BY DEF TypeOK, Row, Event, EventInv
<1>2. \A t \in Tasks : Evolves(t) /\ up[t].key \in IssueKeys \cup {Fallback[t]}
  BY TasksEvolve DEF KeyInv
<1>3. up[e.task].key = k
  BY <1>1, <1>2 DEF Evolves, Past, is_terminal, IssueKeys
<1>4. ASSUME Rerun(e.task, k)
      PROVE  FALSE
  <2>1. PICK u \in Tasks \ {e.task} : /\ ServiceOf[u] = ServiceOf[e.task]
                                     /\ up[u].status # "none" /\ up[u].key = k
    BY <1>4 DEF Rerun
  <2>2. k # Fallback[u]
    BY <1>1, <1>2, <1>3, <2>1, TaskAssumption DEF IssueKeys
  <2>3. up'[u].status # "none" /\ up'[u].key = k
    BY <1>2, <2>1, <2>2 DEF Evolves
  <2> QED
    BY <2>1, <2>3 DEF Rerun
<1> QED
  BY <1>1, <1>3, <1>4

LEMMA HistoryStep ==
    ASSUME IInv, Serial, [Next]_vars
    PROVE  HistoryInv'
<1> USE DEF IInv
<1> SUFFICES ASSUME NEW k \in Keys, NEW e \in rows'[k].timeline,
                    up'[e.task].key = k, ~Rerun(e.task, k)'
             PROVE  /\ rows'[k].slice[ServiceOf[e.task]].task = e.task
                    /\ is_terminal(rows'[k].slice[ServiceOf[e.task]].status)
  BY DEF HistoryInv
<1> DEFINE Shown == /\ rows'[k].slice[ServiceOf[e.task]].task = e.task
                    /\ is_terminal(rows'[k].slice[ServiceOf[e.task]].status)
           slice == rows[k].slice[ServiceOf[e.task]]
<1>1. rows \in [Keys -> Row] /\ net \subseteq Event
  BY DEF TypeOK
<1>2. e \in rows[k].timeline => /\ e.task \in Tasks /\ up[e.task].key = k /\ ~Rerun(e.task, k)
                               /\ slice.task = e.task /\ is_terminal(slice.status)
  BY KeptBefore DEF HistoryInv
<1>3. ASSUME NEW f \in net, Apply(f)
      PROVE  Shown
  <2>1. f \in Event /\ f.key \in Keys /\ f.task \in Tasks /\ is_terminal(f.status) /\ Past(f)
    BY <1>1 DEF Event, EventInv
  <2>2. ServiceOf[f.task] \in Services /\ UNCHANGED up
    BY <1>3, <2>1, TaskAssumption DEF Apply
  <2>3. CASE rows' = rows
    BY <1>2, <2>3
  <2>4. CASE rows' # rows
    <3>1. /\ rows'[f.key].slice = [rows[f.key].slice EXCEPT
                 ![ServiceOf[f.task]] = [task |-> f.task, status |-> f.status]]
          /\ rows'[f.key].timeline = rows[f.key].timeline \cup {f}
          /\ \A j \in Keys \ {f.key} : rows'[j] = rows[j]
      BY <1>3, <2>4, ApplyWrites
    <3>2. rows[f.key].slice \in [Services -> Slice]
      BY <1>1, <2>1 DEF Row
    <3>3. CASE f.key # k
      BY <1>2, <3>1, <3>3
    <3>4. CASE f.key = k /\ e = f
      BY <2>1, <2>2, <3>1, <3>2, <3>4
    <3>5. CASE f.key = k /\ e # f
      <4>1. e \in rows[k].timeline
        BY <3>1, <3>5
      <4>2. CASE ServiceOf[f.task] = ServiceOf[e.task]
        <5>1. f.task = e.task
          BY <1>2, <2>1, <3>5, <4>1, <4>2, OnlyTask DEF Past, is_terminal
        <5> QED
          BY <2>1, <2>2, <3>1, <3>2, <3>5, <5>1
      <4>3. CASE ServiceOf[f.task] # ServiceOf[e.task]
        <5>1. ServiceOf[e.task] \in Services
          BY <1>2, <4>1, TaskAssumption
        <5> QED
          BY <1>2, <3>1, <3>2, <3>5, <4>1, <4>3, <5>1
      <4> QED
        BY <4>2, <4>3
    <3> QED
      BY <3>3, <3>4, <3>5
  <2> QED
    BY <2>3, <2>4
<1>4. ASSUME \A j \in Keys : rows'[j].timeline \subseteq rows[j].timeline
      PROVE  Shown
  <2>1. /\ e \in rows[k].timeline /\ e.task \in Tasks /\ up[e.task].key = k /\ ~Rerun(e.task, k)
        /\ slice.task = e.task /\ is_terminal(slice.status)
        /\ ServiceOf[e.task] \in Services
    BY <1>2, <1>4, TaskAssumption
  <2>2. CASE rows'[k] = rows[k]
    BY <2>1, <2>2
  <2>3. rows'[k] # NoRow
    BY DEF NoRow
  <2>4. ASSUME NEW p \in Threads, NEW t \in Tasks, upsert_snapshot(p, t)
        PROVE  Shown
    <3>0. PICK j : j = poll[p].listing[t].key
      OBVIOUS
    <3>1. CASE rows' = rows
      BY <2>1, <3>1
    <3>2. CASE rows' # rows
      <4>1. /\ j \in Keys /\ t \in Listed(poll[p].listing)
            /\ \A i \in Keys \ {j} : rows'[i] = rows[i]
            /\ rows'[j].slice[ServiceOf[t]] = [task |-> t, status |-> poll[p].listing[t].status]
            /\ \A s \in Services \ {ServiceOf[t]} : rows'[j].slice[s] = rows[j].slice[s]
        <5>1. Wrote(p, t, j)
          BY <2>4, <3>0, <3>2, SnapshotWrites
        <5> QED
          BY <5>1 DEF Wrote
      <4>2. CASE j # k
        BY <2>2, <4>1, <4>2
      <4>4. CASE j = k /\ ServiceOf[t] # ServiceOf[e.task]
        <5>1. rows'[k].slice[ServiceOf[e.task]] = slice
          BY <2>1, <4>1, <4>4
        <5> QED
          BY <2>1, <5>1
      <4>3. CASE j = k /\ ServiceOf[t] = ServiceOf[e.task]
        <5>1. t = e.task
          <6>1. t \in Tasks /\ up[t].status # "none" /\ k \in {up[t].key, Fallback[t]}
            BY <3>0, <4>1, <4>3 DEF ListInv
          <6> QED
            BY <2>1, <4>3, <6>1, OnlyTask
        <5>2. is_terminal(poll[p].listing[t].status)
          BY <2>1, <4>1, <5>1 DEF ListInv
        <5> QED
          BY <4>1, <4>3, <5>1, <5>2
      <4> QED
        BY <4>2, <4>3, <4>4
    <3> QED
      BY <3>1, <3>2
  <2>5. ASSUME NEW p \in Threads, reconcile_snapshot(p)
        PROVE  Shown
    <3>1. poll[p].service \in Services
      BY SoundNow DEF Thread
    <3>2. rows'[k] = IF ghost(p, k) THEN Cleared(k, poll[p].service) ELSE rows[k]
      BY <2>5, ReconcileType
    <3>3. CASE poll[p].service = ServiceOf[e.task]
      BY <2>1, <3>2, <3>3 DEF ghost, Running, is_terminal
    <3>4. CASE poll[p].service # ServiceOf[e.task]
      BY <2>1, <3>1, <3>2, <3>4, ClearedType
    <3> QED
      BY <3>3, <3>4
  <2>6. ASSUME NEW p \in Threads, prune_duplicate_stages(p)
        PROVE  Shown
    <3>1. poll[p].service \in Services /\ poll[p].live \subseteq Listed(poll[p].listing)
      BY SoundNow DEF Thread, Sound
    <3>2. rows'[k] \in {rows[k], Cleared(k, poll[p].service)}
      BY <2>3, <2>6, DuplicatesType
    <3>3. CASE poll[p].service = ServiceOf[e.task]
      <4>1. ASSUME orphaned(p, k)
            PROVE  FALSE
        <5>1. e.task \in poll[p].live /\ poll[p].listing[e.task].key # k
          BY <2>1, <3>3, <4>1 DEF orphaned
        <5>2. poll[p].listing[e.task].key = k
          BY <2>1, <3>1, <5>1 DEF ListInv
        <5> QED
          BY <5>1, <5>2
      <4>2. rows'[k] = rows[k]
        BY <2>6, <4>1, DuplicatesType
      <4> QED
        BY <2>2, <4>2
    <3>4. CASE poll[p].service # ServiceOf[e.task]
      BY <2>1, <3>1, <3>2, <3>4, ClearedType
    <3> QED
      BY <3>3, <3>4
  <2>7. ASSUME NEW p \in Threads, prune_dead(p)
        PROVE  Shown
    BY <2>2, <2>3, <2>7, PruneType
  <2>8. ASSUME NEW j \in Keys, delete(j)
        PROVE  Shown
    BY <1>1, <2>2, <2>3, <2>8 DEF delete
  <2>9. ASSUME NEW j \in Keys, Age(j)
        PROVE  Shown
    <3>1. rows'[k].slice = rows[k].slice
      BY <1>1, <2>9 DEF Age, Row
    <3> QED
      BY <2>1, <3>1
  <2>10. ASSUME NEW f \in net, Apply(f)
         PROVE  Shown
    BY <1>3, <2>10
  <2> HIDE DEF Shown
  <2> QED
    BY <2>2, <2>4, <2>5, <2>6, <2>7, <2>8, <2>9, <2>10
       DEF Next, vars, Proceed, poll_progress_once, refresh, list_items, ChooseOwners,
           ListFails, Crash, upsert_from_event, Redelivered, Upstream, Start, Advance,
           Resume, Unlist, Rekey, Threads
<1> QED
  BY <1>3, <1>4, TimelinesGrow

LEMMA InvInit ==
    ASSUME Init
    PROVE  IInv
<1>1. TypeOK
  BY TypeInit
<1>2. \A k \in Keys : rows[k].timeline = {}
  BY DEF Init, NoRow
<1>3. \A p \in Threads : poll[p] = Idle /\ Listed(poll[p].listing) = {} /\ ~At(p, "hydrate")
  BY IdleType DEF Init, Idle, At
<1>4. \A t \in Tasks : up[t].key = Fallback[t] /\ ~up[t].listed
  BY DEF Init, Nobody, Unborn
<1>5. net = {}
  BY DEF Init
<1>6. MutexInv
  BY <1>3 DEF MutexInv, At, Idle
<1>7. KeyInv
  BY <1>4 DEF KeyInv
<1>8. EventInv /\ HistoryInv
  BY <1>2, <1>5 DEF EventInv, HistoryInv
<1>9. ListInv
  BY <1>3, <1>4 DEF ListInv
<1>10. NewestInv
  BY <1>3 DEF NewestInv
<1> QED
  BY <1>1, <1>6, <1>7, <1>8, <1>9, <1>10 DEF IInv

LEMMA InvStep ==
    ASSUME IInv, Serial, [Next]_vars
    PROVE  IInv'
<1>1. TypeOK' /\ MutexInv' /\ KeyInv'
  BY TypeStep, MutexStep, KeyStep DEF IInv
<1>2. EventInv' /\ ListInv' /\ NewestInv' /\ HistoryInv'
  BY EventStep, ListStep, NewestStep, HistoryStep DEF IInv
<1> QED
  BY <1>1, <1>2 DEF IInv

\* What is written at a poll was listed under the key it is written to and is
\* the newest there, and a completion on record is still shown.
THEOREM Inductive ==
    ASSUME Serial
    PROVE  Spec => []IInv
<1>1. Init => IInv
  BY InvInit
<1>2. IInv /\ [Next]_vars => IInv'
  BY InvStep
<1> QED
  BY <1>1, <1>2, PTL DEF Spec

\* While no event arrives inside a poll, the completion of a task stays on the
\* board, unless the task or its key was given away.
THEOREM HistoryIsKept ==
    ASSUME Serial
    PROVE  Spec => []HistoryKept
<1>1. IInv => HistoryKept
  BY DEF IInv, HistoryInv, HistoryKept, Blank, is_terminal
<1> QED
  BY <1>1, Inductive, PTL

LEMMA DeadStep ==
    ASSUME IInv, [Next]_vars, NEW k \in Keys, NEW s \in Services,
           is_done(rows[k].slice[s].status), is_dead_stage(rows'[k].slice[s].status)
    PROVE  rows'[k].slice[s].task >= rows[k].slice[s].task
<1> USE DEF IInv
<1> DEFINE old == rows[k].slice[s]
           new == rows'[k].slice[s]
<1>1. rows \in [Keys -> Row] /\ net \subseteq Event
  BY DEF TypeOK
<1>2. new # old /\ new # Blank
  BY DEF is_done, is_dead_stage, Blank
<1>3. ASSUME NEW p \in Threads, NEW t \in Tasks, upsert_snapshot(p, t)
      PROVE  new.task >= old.task
  <2> DEFINE written == [task |-> t, status |-> poll[p].listing[t].status]
  <2>0. PICK j : j = poll[p].listing[t].key
    OBVIOUS
  <2>1. rows' # rows
    BY <1>2
  <2>2. /\ j \in Keys
        /\ \A i \in Keys \ {j} : rows'[i] = rows[i]
        /\ rows'[j].slice[ServiceOf[t]] = [task |-> t, status |-> poll[p].listing[t].status]
        /\ \A r \in Services \ {ServiceOf[t]} : rows'[j].slice[r] = rows[j].slice[r]
    <3>1. Wrote(p, t, j)
      BY <1>3, <2>0, <2>1, SnapshotWrites
    <3> QED
      BY <3>1 DEF Wrote
  <2>3. j = k /\ s = ServiceOf[t] /\ new = written
    BY <1>2, <2>2
  <2>4. t \in poll[p].newest \/ old.task = t
    <3>1. ~superseded(p, k, written)
      BY <1>3, <2>0, <2>1, <2>3 DEF upsert_snapshot
    <3> QED
      BY <2>3, <3>1 DEF superseded
  <2>5. ASSUME t \in poll[p].newest
        PROVE  old.task <= t
    <3>1. At(p, "hydrate")
      BY <1>3 DEF upsert_snapshot
    <3>2. _current_task(t, poll[p].listing[t].key) <= t
      BY <2>5, <3>1 DEF NewestInv
    <3>3. _current_task(t, k) = old.task
      BY <2>3 DEF _current_task
    <3>4. k = poll[p].listing[t].key
      BY <2>0, <2>3
    <3> QED
      BY <3>2, <3>3, <3>4
  <2>6. old.task \in Nat /\ t \in Nat
    <3>1. rows[k].slice \in [Services -> Slice]
      BY <1>1 DEF Row
    <3>2. old \in Slice
      BY <3>1
    <3> HIDE DEF old
    <3>3. old.task \in Tasks \cup {NoTask}
      BY <3>2 DEF Slice
    <3>4. \A u \in Tasks : u \in Nat
      BY TaskAssumption
    <3>5. old.task \in Tasks \/ old.task = 0
      BY <3>3 DEF NoTask
    <3>6. t \in Nat
      BY <3>4
    <3>7. old.task \in Nat
      BY <3>4, <3>5
    <3> QED
      BY <3>6, <3>7
  <2> HIDE DEF old
  <2>7. new.task = t
    BY <2>3
  <2> HIDE DEF new
  <2> QED
    BY <2>4, <2>5, <2>6, <2>7
<1>4. ASSUME NEW f \in net, Apply(f)
      PROVE  FALSE
  <2>1. f.key \in Keys /\ is_terminal(f.status)
    BY <1>1 DEF Event
  <2> DEFINE shown == [task |-> f.task, status |-> f.status]
  <2>2. new = old \/ new = shown
    <3>1. rows' # rows
      BY <1>2
    <3>2. CASE f.key # k
      BY <1>4, <3>1, <3>2, ApplyWrites
    <3>3. CASE f.key = k
      <4>1. /\ rows'[k].slice = [rows[k].slice EXCEPT ![ServiceOf[f.task]] = shown]
            /\ rows[k].slice \in [Services -> Slice]
        BY <1>4, <3>1, <3>3, ApplyWrites
      <4> QED
        BY <4>1
    <3> QED
      BY <3>2, <3>3
  <2> QED
    BY <1>2, <2>1, <2>2 DEF is_terminal, is_dead_stage
<1>5. ASSUME NEW p \in Threads, reconcile_snapshot(p) \/ prune_duplicate_stages(p)
      PROVE  FALSE
  <2>1. poll[p].service \in Services
    BY SoundNow DEF Thread
  <2>2. rows'[k] \in {rows[k], Cleared(k, poll[p].service), NoRow}
    BY <1>5, ReconcileType, DuplicatesType
  <2>3. new \in {old, Blank}
    BY <2>1, <2>2, ClearedType DEF NoRow
  <2> QED
    BY <1>2, <2>3
<1>6. ASSUME NEW p \in Threads, prune_dead(p)
      PROVE  FALSE
  BY <1>2, <1>6, PruneType DEF NoRow
<1>7. ASSUME NEW j \in Keys, delete(j) \/ Age(j)
      PROVE  FALSE
  BY <1>1, <1>2, <1>7 DEF delete, Age, NoRow, Row
<1>8. rows' # rows
  BY <1>2
<1> HIDE DEF old, new
<1> QED
  BY <1>3, <1>4, <1>5, <1>6, <1>7, <1>8
     DEF Next, vars, Proceed, poll_progress_once, refresh, list_items, ChooseOwners,
         ListFails, Crash, upsert_from_event, Redelivered, Upstream, Start, Advance,
         Resume, Unlist, Rekey, Threads, old, new

\* While no event arrives inside a poll, a stalled task takes no row back from
\* a newer one that is done.
THEOREM DeadTasksYield ==
    ASSUME Serial
    PROVE  Spec => DeadTakesNothing
<1>1. IInv /\ [Next]_vars =>
        [\A k \in Keys, s \in Services :
            LET old == rows[k].slice[s]
                new == rows'[k].slice[s]
            IN  is_done(old.status) /\ is_dead_stage(new.status) => new.task >= old.task]_vars
  BY DeadStep
<1> QED
  BY <1>1, Inductive, PTL DEF Spec, DeadTakesNothing

=============================================================================
