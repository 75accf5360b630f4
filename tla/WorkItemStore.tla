--------------------------- MODULE WorkItemStore ---------------------------
(***************************************************************************)
(* The work items (store.py), and who writes them: the completion events   *)
(* (routes_events.py), the poll loop (progress.py) and the refresh button. *)
(*                                                                         *)
(* A row has a slice for each service.  A slice shows one task.  A poll    *)
(* reads a service's listing, writes what it found, one row at a time, and *)
(* then clears what the listing no longer has.  The listing was read       *)
(* before all of that, and events arrive meanwhile.                        *)
(***************************************************************************)
EXTENDS Integers

CONSTANTS
    Tasks,          \* tasks of the upstream services, numbered as created
    ServiceCount,   \* how many services _PIPELINE_ORDER has
    ServiceOf,      \* the service of each task
    Place,          \* the place of each task in its service's listing
    Statuses,       \* the statuses that tasks can have
    Keys,           \* correlation keys
    Fallback,       \* the key a task has before its issue is known
    Pollers,        \* threads that run the poll loop
    Refreshers,     \* threads that serve POST /api/refresh
    Overlaps,       \* may events and other polls arrive during a poll?
    MaxIncidents    \* bound: outages, restarts, removals, re-keyings and
                    \* tasks that resume or leave the listing

Threads == Pollers \cup Refreshers
Services == 1 .. ServiceCount

ASSUME TaskAssumption ==
    /\ Tasks \subseteq Nat \ {0}
    /\ ServiceCount \in Nat \ {0}
    /\ ServiceOf \in [Tasks -> Services]
    /\ Place \in [Tasks -> Nat]
    /\ \A t, u \in Tasks : Place[t] = Place[u] => t = u
    /\ Fallback \in [Tasks -> Keys]
    /\ \A t, u \in Tasks : Fallback[t] = Fallback[u] => t = u
    /\ Statuses \subseteq {"coding", "review", "stalled", "done", "failed"}
    /\ "coding" \in Statuses

ASSUME BoundAssumption ==
    /\ Pollers \cap Refreshers = {}
    /\ Overlaps \in BOOLEAN
    /\ MaxIncidents \in Nat

VARIABLES
    up,         \* the tasks, as the services have them
    net,        \* events sent and not known to have been applied
    rows,       \* the table work_items
    poll,       \* what each thread is doing
    incidents   \* how many incidents there were

vars == <<up, net, rows, poll, incidents>>

-----------------------------------------------------------------------------
(* Vocabulary.                                                             *)

Running == {"coding", "review"}
is_done(status) == status = "done"
is_terminal(status) == status \in {"done", "failed"}
is_dead_stage(status) == status = "stalled"

IssueKeys == Keys \ {Fallback[t] : t \in Tasks}

NoTask == 0
Blank == [task |-> NoTask, status |-> "none"]
Slice == [task: Tasks \cup {NoTask}, status: Statuses \cup {"none"}]

Task == [status: Statuses \cup {"none"}, listed: BOOLEAN, stamped: BOOLEAN, key: Keys]
Unborn(t) == [status |-> "none", listed |-> FALSE, stamped |-> FALSE, key |-> Fallback[t]]

\* A completion event; its id stands for these three.
Event == {e \in [task: Tasks, key: Keys, status: Statuses] : is_terminal(e.status)}

\* titled: only a poll knows the title.  old: has the row been unchanged for
\* longer than every time limit?
Row == [exists: BOOLEAN, slice: [Services -> Slice], timeline: SUBSET Event,
        titled: BOOLEAN, old: BOOLEAN]
NoRow == [exists |-> FALSE, slice |-> [s \in Services |-> Blank], timeline |-> {},
          titled |-> FALSE, old |-> FALSE]

\* A thread's step, the service it polls, the listing it read, the tasks of it
\* that are still to be written, those that count as live, and those that are
\* known to be the newest on their keys.
Steps == {"idle", "fetch", "owners", "hydrate", "reconcile", "duplicates", "prune"}
Thread == [pc: Steps, service: Services, listing: [Tasks -> Task],
           todo: SUBSET Tasks, live: SUBSET Tasks, newest: SUBSET Tasks]

Nobody == [t \in Tasks |-> Unborn(t)]
Idle == [pc |-> "idle", service |-> 1, listing |-> Nobody,
         todo |-> {}, live |-> {}, newest |-> {}]

At(p, step) == poll[p].pc = step
Becomes(p, r) == poll' = [poll EXCEPT ![p] = r]
Incident == incidents < MaxIncidents /\ incidents' = incidents + 1
Quiet(p) == Overlaps \/ \A q \in Threads \ {p} : At(q, "idle")

\* A write renews updated_at.
Write(k, row) == rows' = [rows EXCEPT ![k] = [row EXCEPT !.exists = TRUE, !.old = FALSE]]

-----------------------------------------------------------------------------
(* Events.                                                                 *)

\* An event of the row's timeline is a duplicate and changes nothing.
Apply(e) ==
    /\ e \in net
    /\ Overlaps \/ \A p \in Threads : At(p, "idle")
    /\ IF e \in rows[e.key].timeline
       THEN UNCHANGED rows
       ELSE Write(e.key, [rows[e.key] EXCEPT
                !.slice[ServiceOf[e.task]] = [task |-> e.task, status |-> e.status],
                !.timeline = @ \cup {e}])
    /\ UNCHANGED <<up, poll>>

upsert_from_event(e) == Apply(e) /\ net' = net \ {e} /\ UNCHANGED incidents

\* The sender does not see the answer, and sends again.
Redelivered(e) == Apply(e) /\ Incident /\ UNCHANGED net

-----------------------------------------------------------------------------
(* The poll.                                                               *)

poll_progress_once(p) ==
    /\ At(p, "idle")
    /\ Quiet(p)
    /\ Becomes(p, [Idle EXCEPT !.pc = "fetch"])
    /\ UNCHANGED <<up, net, rows, incidents>>

\* POST /api/refresh begins in the same way.
refresh(p) ==
    /\ p \in Refreshers
    /\ Incident
    /\ At(p, "idle")
    /\ Quiet(p)
    /\ Becomes(p, [Idle EXCEPT !.pc = "fetch"])
    /\ UNCHANGED <<up, net, rows>>

\* The next service; after the last one the poll loop prunes.
NextService(p) ==
    IF poll[p].service < ServiceCount
    THEN [Idle EXCEPT !.pc = "fetch", !.service = poll[p].service + 1]
    ELSE IF p \in Pollers THEN [Idle EXCEPT !.pc = "prune"] ELSE Idle

Listed(listing) == {t \in Tasks : listing[t].listed}
Group(listing, k) == {t \in Listed(listing) : listing[t].key = k}

list_items(p) ==
    /\ At(p, "fetch")
    /\ LET listing == [t \in Tasks |->
                          IF ServiceOf[t] = poll[p].service /\ up[t].listed
                          THEN up[t] ELSE Unborn(t)]
           all == Listed(listing)
       IN  Becomes(p, IF p \in Pollers
                      THEN [poll[p] EXCEPT !.pc = "owners", !.listing = listing]
                      ELSE [poll[p] EXCEPT !.pc = "hydrate", !.listing = listing,
                                           !.todo = all, !.live = all])
    /\ UNCHANGED <<up, net, rows, incidents>>

\* An unreachable service is left out of this poll.
ListFails(p) ==
    /\ At(p, "fetch")
    /\ Incident
    /\ Becomes(p, NextService(p))
    /\ UNCHANGED <<up, net, rows>>

\* Where every task on a key has a creation time, the newest one owns the row.
owners(listing) ==
    {t \in Listed(listing) : \A u \in Group(listing, listing[t].key) :
                                 listing[u].stamped /\ u <= t}

\* Elsewhere a dead task counts only where no task is alive, and of several
\* dead ones the last one listed.
rest(listing) ==
    {t \in Listed(listing) :
        LET group == Group(listing, listing[t].key)
        IN  /\ \E u \in group : ~listing[u].stamped
            /\ is_dead_stage(listing[t].status) =>
                  \A u \in group : is_dead_stage(listing[u].status) /\ Place[u] <= Place[t]}

\* Defect: what the row shows is not asked for.
current_task_any(t, k) == t

\* The task that the row for t's key shows.
_current_task(t, k) == rows[k].slice[ServiceOf[t]].task

ChooseOwners(p) ==
    /\ At(p, "owners")
    /\ LET l == poll[p].listing
           live == owners(l) \cup rest(l)
       IN  Becomes(p, [poll[p] EXCEPT
              !.pc = "hydrate", !.todo = live, !.live = live,
              !.newest = {t \in owners(l) : _current_task(t, l[t].key) \in Group(l, l[t].key)}])
    /\ UNCHANGED <<up, net, rows, incidents>>

\* A poll that finds nothing new leaves the row, and its age, alone.
unchanged(k, new) ==
    /\ rows[k].titled
    /\ rows[k].slice[ServiceOf[new.task]].status = new.status

\* A dead task takes nothing from another task that is done, unless it is newer.
superseded(p, k, new) ==
    LET existing == rows[k].slice[ServiceOf[new.task]]
    IN  /\ new.task \notin poll[p].newest
        /\ is_done(existing.status)
        /\ existing.task # new.task
        /\ is_dead_stage(new.status)

\* One item of hydrate(), in the order of the listing.
upsert_snapshot(p, t) ==
    LET k == poll[p].listing[t].key
        new == [task |-> t, status |-> poll[p].listing[t].status]
    IN  /\ At(p, "hydrate")
        /\ t \in poll[p].todo
        /\ \A u \in poll[p].todo : Place[t] <= Place[u]
        /\ IF unchanged(k, new) \/ superseded(p, k, new)
           THEN UNCHANGED rows
           ELSE Write(k, [rows[k] EXCEPT !.slice[ServiceOf[t]] = new, !.titled = TRUE])
        /\ Becomes(p, [poll[p] EXCEPT !.todo = @ \ {t}])
        /\ UNCHANGED <<up, net, incidents>>

\* Defects: a finished stage is cleared too; nothing is cleared.
ghost_any(p, k) ==
    LET slice == rows[k].slice[poll[p].service]
    IN  slice # Blank /\ ~is_dead_stage(slice.status) /\ slice.task \notin poll[p].live
ghost_never(p, k) == FALSE

\* A stage that runs in the table but not in the listing.
ghost(p, k) ==
    LET slice == rows[k].slice[poll[p].service]
    IN  slice.status \in Running /\ slice.task \notin poll[p].live

reconcile_snapshot(p) ==
    /\ At(p, "hydrate")
    /\ poll[p].todo = {}
    /\ rows' = [k \in Keys |->
                   IF ghost(p, k)
                   THEN [rows[k] EXCEPT !.slice[poll[p].service] = Blank, !.old = FALSE]
                   ELSE rows[k]]
    /\ Becomes(p, IF p \in Pollers THEN [poll[p] EXCEPT !.pc = "duplicates"]
                  ELSE NextService(p))
    /\ UNCHANGED <<up, net, incidents>>

_row_has_stage_data(row) == \E s \in Services : row.slice[s] # Blank

\* The row shows a task that is now listed under another key.
orphaned(p, k) ==
    LET t == rows[k].slice[poll[p].service].task
    IN  t \in poll[p].live /\ poll[p].listing[t].key # k

prune_duplicate_stages(p) ==
    LET cleared(k) == [rows[k] EXCEPT !.slice[poll[p].service] = Blank, !.old = FALSE]
    IN  /\ At(p, "duplicates")
        /\ rows' = [k \in Keys |->
                       IF ~orphaned(p, k) THEN rows[k]
                       ELSE IF _row_has_stage_data(cleared(k)) THEN cleared(k)
                       ELSE NoRow]
        /\ Becomes(p, NextService(p))
        /\ UNCHANGED <<up, net, incidents>>

\* The furthest stage with a status.
Frontier(row) ==
    LET with == {s \in Services : row.slice[s].status # "none"}
    IN  IF with = {} THEN Blank
        ELSE row.slice[CHOOSE s \in with : \A r \in with : r <= s]

\* Once a poll: rows whose furthest stage is dead and that are old.
prune_dead(p) ==
    /\ At(p, "prune")
    /\ rows' = [k \in Keys |-> IF rows[k].old /\ is_dead_stage(Frontier(rows[k]).status)
                               THEN NoRow ELSE rows[k]]
    /\ Becomes(p, Idle)
    /\ UNCHANGED <<up, net, incidents>>

-----------------------------------------------------------------------------
(* The services, people and time.                                          *)

Send(t, status, key) ==
    net' = IF is_terminal(status)
           THEN net \cup {[task |-> t, key |-> key, status |-> status]} ELSE net

\* A task is created, with an issue or not, with a creation time or not.
Start(t, k, stamped) ==
    /\ up[t].status = "none"
    /\ \A u \in Tasks : u < t => up[u].status # "none"
    /\ up' = [up EXCEPT ![t] = [status |-> "coding", listed |-> TRUE,
                                stamped |-> stamped, key |-> k]]
    /\ UNCHANGED <<net, rows, poll, incidents>>

\* A running task goes on, ends, or hangs.
Advance(t, status) ==
    /\ up[t].status \in Running
    /\ status \notin {"coding", up[t].status}
    /\ up' = [up EXCEPT ![t].status = status]
    /\ Send(t, status, up[t].key)
    /\ UNCHANGED <<rows, poll, incidents>>

\* A task that hung goes on, leaves the listing, or gets its issue's key.
Resume(t) ==
    /\ is_dead_stage(up[t].status)
    /\ Incident
    /\ up' = [up EXCEPT ![t].status = "coding"]
    /\ UNCHANGED <<net, rows, poll>>

Unlist(t) ==
    /\ up[t].listed
    /\ Incident
    /\ up' = [up EXCEPT ![t].listed = FALSE]
    /\ UNCHANGED <<net, rows, poll>>

Rekey(t, k) ==
    /\ up[t].status # "none"
    /\ up[t].key = Fallback[t]
    /\ Incident
    /\ up' = [up EXCEPT ![t].key = k]
    /\ UNCHANGED <<net, rows, poll>>

\* Remove, on the board.
delete(k) ==
    /\ rows[k].exists
    /\ Incident
    /\ rows' = [rows EXCEPT ![k] = NoRow]
    /\ UNCHANGED <<up, net, poll>>

Crash(p) ==
    /\ ~At(p, "idle")
    /\ Incident
    /\ Becomes(p, Idle)
    /\ UNCHANGED <<up, net, rows>>

\* Time passes over a row.
Age(k) ==
    /\ rows[k].exists
    /\ ~rows[k].old
    /\ rows' = [rows EXCEPT ![k].old = TRUE]
    /\ UNCHANGED <<up, net, poll, incidents>>

-----------------------------------------------------------------------------
(* Specification.                                                          *)

Init ==
    /\ up = Nobody
    /\ net = {}
    /\ rows = [k \in Keys |-> NoRow]
    /\ poll = [p \in Threads |-> Idle]
    /\ incidents = 0

Proceed(p) ==
    \/ list_items(p) \/ ChooseOwners(p)
    \/ \E t \in Tasks : upsert_snapshot(p, t)
    \/ reconcile_snapshot(p) \/ prune_duplicate_stages(p) \/ prune_dead(p)

Upstream ==
    \E t \in Tasks :
        \/ \E k \in IssueKeys \cup {Fallback[t]}, stamped \in BOOLEAN : Start(t, k, stamped)
        \/ \E status \in Statuses : Advance(t, status)
        \/ Resume(t) \/ Unlist(t)
        \/ \E k \in IssueKeys : Rekey(t, k)

Next ==
    \/ \E p \in Pollers : poll_progress_once(p)
    \/ \E p \in Refreshers : refresh(p)
    \/ \E p \in Threads : Proceed(p) \/ ListFails(p) \/ Crash(p)
    \/ \E e \in net : upsert_from_event(e) \/ Redelivered(e)
    \/ \E k \in Keys : delete(k) \/ Age(k)
    \/ Upstream

Spec == Init /\ [][Next]_vars

\* The poll loop sleeps and goes on, senders repeat an event until it is
\* answered, and time passes.
FairSpec ==
    /\ Spec
    /\ \A p \in Pollers : WF_vars(poll_progress_once(p)) /\ WF_vars(ListFails(p) \/ Proceed(p))
    /\ \A p \in Refreshers : WF_vars(ListFails(p) \/ Proceed(p))
    /\ WF_vars(\E e \in net : upsert_from_event(e))
    /\ \A k \in Keys : WF_vars(Age(k))

-----------------------------------------------------------------------------
(* Properties.                                                             *)

\* Types; a row that does not exist holds nothing; a thread writes what it read.
TypeOK ==
    /\ up \in [Tasks -> Task]
    /\ net \subseteq Event
    /\ rows \in [Keys -> Row]
    /\ \A k \in Keys : ~rows[k].exists => rows[k] = NoRow
    /\ poll \in [Threads -> Thread]
    /\ \A p \in Threads :
          /\ poll[p].todo \subseteq poll[p].live
          /\ poll[p].newest \subseteq poll[p].live
          /\ poll[p].live \subseteq Listed(poll[p].listing)
          /\ poll[p].pc \in {"fetch", "owners"} => poll[p].live = {}
    /\ incidents \in 0..MaxIncidents

\* Has another task of its service, a re-run, the same key?
Rerun(t, k) == \E u \in Tasks \ {t} :
    ServiceOf[u] = ServiceOf[t] /\ up[u].status # "none" /\ up[u].key = k

\* Completed history persists (reconcile_snapshot's docstring): while a row
\* holds the completion event of a task, the stage is not blank, unless the
\* service gave the task another key or this key to another task.
HistoryKept ==
    \A k \in Keys : \A e \in rows[k].timeline :
        \/ rows[k].slice[ServiceOf[e.task]] # Blank
        \/ up[e.task].key # k
        \/ Rerun(e.task, k)

\* A stalled task takes a row back from a finished one only if it is the newer
\* of the two (#479, #484).
DeadTakesNothing ==
    [][\A k \in Keys, s \in Services :
          LET old == rows[k].slice[s]
              new == rows'[k].slice[s]
          IN  is_done(old.status) /\ is_dead_stage(new.status) => new.task >= old.task]_vars

\* The only task that ever had its key.
Alone(t) == \A u \in Tasks \ {t} : up[u].status = "none" \/ up[u].key # up[t].key

\* The board heals itself (poll_progress_once): in the end a listed task that
\* has its key to itself is shown as it is, and nothing runs on the board that
\* does not run upstream.
BoardHeals ==
    <>[]/\ \A t \in Tasks :
             up[t].listed /\ Alone(t) /\ ~is_dead_stage(up[t].status) =>
                 rows[up[t].key].slice[ServiceOf[t]] = [task |-> t, status |-> up[t].status]
        /\ \A k \in Keys, s \in Services :
             rows[k].slice[s].status \in Running =>
                 LET t == rows[k].slice[s].task
                 IN  up[t].listed /\ up[t].key = k /\ up[t].status \in Running

=============================================================================
