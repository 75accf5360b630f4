# A TLA+ model of the CFactory cockpit

CFactory is the cockpit of three services, called factories here: PFactory
plans, AIFactory builds and TFactory verifies. The backend
(`src/apps/backend/cfactory`) keeps a planning board of cards, sends cards to
the factories, shows the work items the factories report on, imports issues
from git hosts, mirrors cards back to them, and records every action in a
tamper-evident audit chain. This directory holds TLA+ models of that backend,
the TLC configurations that check them, and theorems checked by TLAPS.

Paths below are relative to `src/apps/backend/cfactory` unless they start with
`docs/` or `tests/`.

## 1. How the program runs

* Request handlers are plain `def` functions, so the web framework runs them in
  a thread pool: two requests, or a request and an event, run at the same time.
* There is no lock around a card. Every store method opens a session, reads or
  writes, and commits: a handler is a sequence of short transactions with HTTP
  calls between them, and what it writes is often computed from what it read
  some transactions ago.
* The database is SQLite or PostgreSQL. With PostgreSQL there may be several
  replicas of the backend; the import lease and the audit chain's lock are
  written for that case.
* The factories answer a dispatch over HTTP, and report progress and completion
  later by `POST /api/events`, over WebSockets the backend holds open, and
  through listings that poll loops read.

So the unit of atomicity in the models is the store method, and the unit of
interleaving is the handler.

## 2. Inventory

| Component | State | Operations | Hard behaviour | What makes it correct | Model |
|---|---|---|---|---|---|
| Card intake (`card_intake.py`, `card_ops.py`) | a card's `status`, `tier`, `correlation_key`, `stage_runs` | PATCH with the promotion hook, the stage buttons, the run button, `apply_status` after an event | check, call and record are three steps; events interleave with them; a restart between any two | a verification follows a finished build; `done` is real; a sequence advances by itself | `CardIntake`, `StageLedger` |
| Work-item store (`store.py`, `progress.py`) | work items, a slice per stage, the ids of events seen | upsert from event, snapshot, reconcile, prune, hydrate | a listing is older than the event that overtook it; rows pruned and shown again | finished history stays; the board ends up as the services list it | `WorkItemStore`; seen from the card in `CardIntake` |
| Event ingress (`routes_events.py`, `upstream_ws.py`) | none of its own | ingest an event, then update the card | the same event by POST and by relay, the relay's copy without an id; two transactions | an event counts once | `CardIntake`, `WorkItemStore`, `CockpitFeed` |
| Issue import (`issue_import.py`, part of `cards.py`) | per project: watermark, lease; per process: back-off; the comments of a card and their marker | claim, list, upsert cards, read comments, move the watermark | overlapping passes, edits during a pass, pages that shift under the reader, deleted cards | nothing on the host falls behind the watermark or a marker unseen; a deleted card stays deleted | `IssueImport`, `IssueListing`, `CommentSync` |
| GitHub sync (`github_sync.py`) | a card's issue number and error | open, adopt, mirror | the issue exists on the host before the card knows its number | one card per issue, one issue per card | `GitHubSync` |
| Audit chain (`audit.py`) | the rows: fields, `prev_hash`, `entry_hash` | record, list, check, report | several threads and replicas append; the tail read and the insert are two steps | one chain, in id order; a change is reported | `AuditChain`, `AuditTrail` |
| Connections, repositories, adoption (`cards.py`, `git_connections.py`, `git_config_ops.py`) | connections, repositories, the default, credentials, the phase-2 rows | create, update, delete, set default, verify, the phase-2 shim, adoption and seed at boot | a request is several transactions; deleting the default and promoting another are two | a default while there is a repository; a verification is of the host that stands in the row | `GitConnections` |
| Installs and credentials (`git_install.py`, `credentials.py`) | the install row, sealed secrets, install links, the token cache | start, callback, mint, refresh, reconnect, disconnect, key rotation | the host rotates the refresh token at every use; a mint is in flight while the install goes | the stored token is the last one issued; a link installs once | `GitInstalls` |
| Prepared actions (`actions.py`, `routes_actions.py`) | none of their own | propose, execute a chain of calls, prune, record | a chain stops in the middle; an answer is lost | what had an effect is in the trail | `PreparedActions` |
| REST and MCP surfaces, authentication, tenancy (`routes_*.py`, `mcp.py`, `auth.py`, `enterprise.py`, `api_deps.py`) | none | the board's operations, twice | two paths to one seam; a failure after the write | nobody touches another tenant's board; every write is in the trail, under the caller's name | `Surfaces` |
| Cockpit feed (`ws.py`, `routes_ws.py`, the frontend's socket) | the manager's set of sockets; the rows a browser shows | connect, snapshot, broadcast, poll, reload | copies of rows overtake each other; a socket drops | no change falls between the snapshot and the broadcasts | `CockpitFeed` |
| Database bootstrap (`db.py`, `migrations/`, the guards in `cards.py` and `store.py`) | the schema, `alembic_version` | upgrade, stamp, create_all, late columns and indexes | databases of every older release; a boot that is killed; DDL without transactions | a service that serves has its schema | `SchemaBoot` |
| Live agents (`live_agents.py`, `live_agent_proxy.py`) | one bridge per console | list, resolve, dial, pump, tear down | two tasks, the first to end cancels the other | a visit follows one session, to its end | `LiveConsole`, `ConsoleView` |
| Status taxonomy (`status_taxonomy.py`, `_contracts`) | none | classify a status | the order of the token sets | failure before done before active | the classes in `CardIntake`, `WorkItemStore` |
| Adapters, copilot, search, tracing, configuration, presentation | – | conversions, prompts, pass-through | – | – | not modelled |

PROJECT.json lists the same components with their files, and under `hazards`
the places found that a test would hardly reach.

Parts that share no state are checked by one run, as a disjoint sum: an MC
module extends both, a variable `part` says which of them a behaviour moves,
and the other stays at one state of rest. What such a run shows of a part is
what a run of its own would.

| Run | Configuration | Parts |
|---|---|---|
| `serial`, `threads`, `noise`, `live` | `CardIntake_*.cfg` | `CardIntake` with `StageLedger` |
| `import` | `IssueImport.cfg` | `IssueImport` |
| `sync` | `GitHubSync.cfg` | `GitHubSync`, `CommentSync` |
| `installs` | `GitInstalls.cfg` | `GitInstalls` |
| `paging` | `Paging.cfg` | `AuditChain` with `AuditTrail`, `IssueListing` |
| `requests` | `Requests.cfg` | `WorkItemStore`, `GitConnections` |
| `polling` | `Polling.cfg` | `WorkItemStore` |
| `surfaces` | `Surfaces.cfg` | `Surfaces`, `PreparedActions` |
| `cockpit` | `Cockpit.cfg` | `CockpitFeed`, `SchemaBoot`, `LiveConsole` with `ConsoleView` |

The definitions named `TypeOK`, `FeedTypeOK` and so on declare what the
variables range over. `noise` checks the one of `CardIntake`; those of
`CardIntake`, `WorkItemStore` and `AuditChain` are proved with the theorems
below, and the others serve as documentation of the variables.

## 3. Card intake

### What is modelled

`CardIntake` is one card, the worker threads, and the factories.

| Model | Code |
|---|---|
| `card` | the row of the card: `status`, `tier`, `correlation_key` (`key`), `stage_runs` (`runs`), and whether it was deleted (`live`) |
| `runs` | what the factories have accepted: external, a sequence of stage, key and state |
| `net` | completion and progress events not yet ingested |
| `slices` | the work items: the status of each stage under each correlation key |
| `worker[w]` | one thread: the next step (`pc`), the copy of the card it read (`snap`), the stage it is sending, the verdict and the key of the HTTP answer, and for an event the key and the item `upsert_from_event` returned |
| `update_card`, `run_card_stage`, `run_card_sequence`, `delete_card` | the entry points of `card_ops.py` and the refusals and early returns that precede the first write |
| `start_sequence`, `Accept`/`Reject`, `Record`, `BlockForNoProject` | the writes of `start_sequence`; the HTTP call of `_send`; the record it writes |
| `ingest`, `apply_status`, `_settle`, `BlockSequence`, `Reread`, `WriteStatus` | the ingress, and the transactions of `apply_status` and `_advance` in their order |
| `Progress`, `Finish`, `Poll`, `SetProject`, `Crash` | the factories, the poll loops, the settings page and a restart |

Every HTTP call and every transaction is a step of its own, so that all the
interleavings the thread pool allows are there. `written(c, snap)` is what
`_write_runs` answers: the row, or the caller's copy when the card was deleted
meanwhile. `settled` and `_send` write all records from the copy the handler
holds, as the code does, and that is where updates can be lost.

An event that is lost is one that stays in `net`. A redelivery with the same id
changes nothing in the code and has no action; the relay's copy of an event has
no id, and is a second message.

### Runs

| Run | Question | Instance | Result |
|---|---|---|---|
| `serial` | Do the records, the key and the board column keep their promises over any sequence of legal calls, when handlers do not overlap? | one worker, three runs, all tiers, project set and cleared, restarts | `StageJoined`, `KeepsLedger`, `NeverDoneWhileOwed` hold |
| `threads` | Which promises survive overlapping handlers? | two workers, two runs, restarts, threads symmetric | `TestHasBuild`, `DoneIsReal`, `JoinIsReal`, `DoneIsAVerdict` hold |
| `noise` | Do stale listings, "stuck" reports and blanked slices break anything? | one worker, two runs, polls, restarts | `TypeOK`, `KeepsLedger` hold |
| `live` | Does a sequence, once started, finish with no further press? | one worker, three runs, no restart | `StageSettles`, `SequenceAdvances` hold |

Why the bounds are enough. Three runs are a whole sequence, or a failure and
its retry followed by one more stage. Two overlapping handlers are enough for
every race found: each race is between one read-then-write and one other
writer. `threads` cannot afford three runs; the properties it checks are the
ones that are also proved, for any number of threads and runs. One card is
enough because handlers of different cards share only the intake project,
which every handler reads and none writes. `serial` uses every tier, because
the first stage depends on it.

Deadlock is not checked: a deleted card, or a run list that has reached its
bound, legitimately stops the system.

### Fairness

`live` assumes that a started handler goes on (no step waits for another
handler), that an event which keeps finding threads free is served (the pool is
a queue), and that a factory ends what it accepted. Nothing is assumed of
people: no press is fair. Restarts are switched off there, because a restart
between the work-item write and `apply_status` loses the completion (see below).

### Where the code differs from what is said of it

The model shows these traces; none has a run of its own.

* Two presses that overlap both pass the guard of `dispatch_stage`
  (`card_intake.py:679`) and both start a build, though
  `docs/guides/planning-board.md:330` rules out exactly that.
* `card_intake.py:365` says of a refusal that "the card is left exactly as it
  was". `start_sequence` has written the queue (`card_intake.py:736`) before
  `dispatch_stage` refuses for want of a project: the stages stay queued.
* `card_intake.py:36` says that a dispatch that fails blocks the card. When it is
  the dispatch a completion event triggers, the write-back at the end of the
  same event (`card_intake.py:848`) takes the card off `blocked` again.
* After a failed stage is sent again on the same key, the work item still shows
  the old failure (`card_intake.py:757`), and an event of another stage settles
  the new run from it: the stage may then be started once more while it runs.
  One worker and four runs are enough for that.
* Two first dispatches that overlap both find no key (`card_intake.py:566`), and
  the second overwrites the key of the first: the first run's events then find
  no card. `StageLedger` writes the key once, so `KeepsLedger` fails with two
  workers.
* A handler that read the card before a completion was settled writes the old
  records back over it (`card_intake.py:481`): a stage goes from `done` to
  `dispatched`. No completion is ever made up by this (`DoneIsReal`).
* A factory that finishes before the dispatch is recorded: the event is
  ingested, finds no card on its key, and the stage stays `dispatched` until
  a poll-independent press is made, which the guard then refuses.
* A restart between `upsert_from_event` and `apply_status`: the event counts as
  seen, its redelivery is dropped, and the card waits for another event.
* A door that answers a later stage under another key (`StageJoined` with two
  keys): `join_key` keeps the first key, and that stage's events find no card.
* A promotion to `ready` while the stage is in flight or done dispatches
  nothing and leaves the card in `ready` until the next event.

### What is proved

`CardIntakeProofs`, for every set of threads, every bound and every setting of
the switches:

* `TypeCorrect`: `Spec => []TypeOK`.
* `TestsFollowBuilds`: `Spec => []TestHasBuild`.
* `CompletionsAreReal`: `Spec => []DoneIsReal`.
* `DoneNeedsAVerdict`: `Spec => DoneIsAVerdict`.

None of the three safety properties is inductive: the card is written from
copies that threads hold, and the copies from work items that were written from
messages. The invariant `IInv` follows the evidence along that path: a message
that says "done" comes from a run that is done (`EventsTrue`), so does a slice
(`SlicesTrue`), so does a record on the card (`CardTrue`), and so do the copies
of card and work item in every thread, and a thread about to send a test holds
a copy in which the build is done (`WorkersTrue`). A run that is done stays
done, which is what makes stale copies harmless here. `TInv` adds to the type
invariant that a handler at the queue step owes a stage, which `First` needs.

Its second half has the promises of the records and the key:

* `JoinsAreReal`: `Spec => []JoinIsReal`, whatever overlaps. The invariant `JInv`
  follows a key from the factory's answer to the card: an answer a thread is
  about to record is that of an accepted run (`AnswersARun`), every copy of the
  card is joined only on such a key (`Joined`), and a thread that goes on does
  so with such a copy (`Honest`).
* `StagesAreJoined`: `Spec => []StageJoined`, whatever overlaps, where the doors
  answer one key (`OneAnswer`). With two keys it is false, see above.
* `CardKeepsLedger`: `Spec => KeepsLedger`, the refinement of `StageLedger`, for
  one handler (`OneHandler`) that may be restarted anywhere. Every step of the
  card is a step of the ledger or a stutter, because the copy a handler writes
  from is still the card (`Current`), and what its guard found is still so
  (`Sends`, `Queues`). Two overlapping presses refute it, see above.
* `DoneOwesNothing`: `Spec => NeverDoneWhileOwed`, from the same invariant and
  under the same assumption.

Liveness (`StageSettles`, `SequenceAdvances`) is model-checked.

## 4. Audit chain

### What is modelled

`AuditChain` is the table `audit_log`, its appenders and an auditor. An append
is the transaction of `AuditStore.record`: wait for the lock, read the tail's
hash, flush (the row gets its id), commit. A rollback may end it anywhere, and
an id that was given out is then not given out again. `list` is the auditor's
page by `after_id`. `Edit`, `Copy` and `Erase` are changes made to the table
behind the store. `_classify`, `check` and `report` are the verification, as
operators on the table. A hash is the pair of what it is taken over: two hashes
are equal exactly when their inputs are, which is what HMAC-SHA256 is used for.

`AuditTrail` is what the docstrings promise of it: a table that grows by one
entry at a time, each chained to the newest and beyond every other, and that is
read on from an id without a gap. It has no lock, no transaction and no id
sequence: an append is one step. `KeepsTheTrail` is that `AuditChain` implements
it, with `rows` for its table; of a change behind the store it says only that it
is counted as one.

The table starts empty, or with a fork of the kind older builds left behind,
which is the reason `CFACTORY_AUDIT_ACKNOWLEDGED_FORKS` exists.

### The run

The audit part of `paging` has two appenders, three appended rows, two field
values, both initial tables and one change. A verdict on a row depends on the row, on its twins and
siblings, and on the row before it; three appended rows on top of three forked
ones hold every combination of these. `TheFork` acknowledges one forked row and
one row that is not forked, so that an acknowledgement can be seen to forgive a
fork and nothing else. One change, because two may cancel out.

It checks `HonestChainIsSound`, `ChangeIsReported`, `PagesMissNothing` and
`KeepsTheTrail`.

### What is proved

The first part of `PagingProofs`, for any set of appenders, page size and bounds:

* `PagesAreComplete`: `Spec => []PagesMissNothing`. An id becomes visible before
  any larger one, because an appender that has an id not yet visible holds the
  lock (`LockInv`), its id is the last given out (`Drafts`), and every visible
  id is smaller.
* `AppendsAreAtomic`: `Spec => AppendsLink`, from the same invariant: the tail
  that was read is still the tail at the commit.
* `AppendsKeepTheTrail`: `Spec => KeepsTheTrail`, the refinement of `AuditTrail`.
  A commit is its one append, since the tail that was read is still a tail
  (`TailIsATail`) and the id lies beyond every row and beyond the auditor; a page
  is its reading on, since a page has no gap; every other step of a transaction
  is a stutter, and so is a rollback.
* `HonestTablesAreClean`: `Spec => []HonestChainIsSound`. Every row is the hash of
  what it says, no two hashes are equal, and every row is chained to the one
  before it or belongs to a fork the table started with (`Honest`). A new row
  keeps this because no row can already have its hash: that row would be chained
  to the newest, and come after it (`NextHashIsNew`).
* `ChangesAreReported`: `Spec => []ChangeIsReported`. A single change leaves one of
  three kinds of `Evidence`: a row that does not hash to its hash, a row with a
  twin, or a row whose predecessor is gone. Each of them outlives every append;
  for the third, `Orphan` says why no later row can take the place of the one
  erased. Whatever is acknowledged, `_classify` calls each of them tampering.

They assume that the table to start from is one of the older builds' making:
its rows are chained or belong to a fork, its hashes are those of its rows and
differ (`ForkAssumption`, which TLC evaluates on the two tables of `paging`).

### Not modelled

The 30-second cache of `report`, the redaction of actors, the rendering of
timestamps, and the deletion of the newest row, which leaves a sound chain: the
code does not claim to see it.

## 5. Issue import

### What is modelled

`IssueImport` is one repository: its issues, the cards imported from them, and
the importers, which are the poll loop of each replica (`Pollers`) and the
threads that serve "Sync now" (`Manual`).

| Model | Code |
|---|---|
| `host`, `shown` | external: the issues, and what the host's listing shows of them, at most `Lag` ticks behind |
| `card[i]` | the card of issue `i`: absent, on the board or deleted; its column; whether it entered the factory (`_entered_the_factory`); which version of the issue its columns come from, with the two columns a create does not take (`labels`, `issue_state`) apart |
| `watermark`, `lease` | the row of `card_import_state`: `last_synced_at`, and whether `poll_leased_until` lies in the future |
| `pass[p]` | one importer: the next step, whether the lease it read is still the one in the row (`fresh`), `since`, the issues still to be upserted, the newest update seen, the row it looked up |
| `failures`, `skip` | `PollBackoff` of each replica |
| `due`, `claim_import_lease`, `import_cards` | how a pass begins |
| `get_watermark`, `fetch_issues`, `get_by_issue_ref`, `create`, `WriteLabels`, `WriteChanges`, `SkipIssue`, `set_watermark` | the transactions and the call of `import_issues` and `_import_one`, in their order |
| `Crash`, `FetchFails` | a restart, an outage or a refusal |
| `Touch`, `Show`, `Tick`, `Dispatch`, `delete` | the host, and people on the board |

Mirrored content is the time stamp of the version it comes from: two versions
of an issue differ exactly when their stamps do. The lease is a compare-and-set
on a time stamp; the model keeps what the comparison is about, whether the row
was claimed since it was read. A lease expires at any moment, but where passes
may not overlap not under its holder: a pass then fits into half a cadence.

### The run

`import` has two replicas, one person, two issues, three ticks and one incident,
and checks `NothingFallsBehind` (the watermark leaves no change behind),
`OnePollerPerLease`, `DeletedStays` and `BoardConverges` (polling alone brings the
board up to date, after an outage or a restart).

The bounds. Two issues: one whose change is missed and one that moves the
watermark past it. `Overlap` and `Lag` are both one tick, the least with which
the overlap matters, and as large a lag as the overlap can make up for
(`LagAssumption`). The first tick is `Overlap + 1`, so that watermarks stay
positive; three ticks let a change be older than a watermark, with two ticks
every change is asked for again. An
incident is a restart, an outage, a failed upsert, a dispatch or a deletion.
The back-off has its real numbers. A listing is never cut off in these runs;
when one is, the pass reports it, and `NothingFallsBehind` excepts it.

The run leaves two things out, by switches of the model:
`Overlaps = FALSE` (a press of "Sync now" does not overlap a poll, and a pass
ends before its lease does) and `Interrupts = FALSE` (a restart does not hit the
first read of a repository in the middle). What happens otherwise is below.

Fairness in `import`: every replica keeps polling, which `poll_forever`
does whatever a cycle raises; a pass that has begun goes on; a lease runs out;
the listing catches up. The claim needs strong fairness, because a manual import
may hold it up again and again. Outages are finite in number.

### Where the code differs from what is said of it

* A full re-import. `_filters` asks for open issues only when there is no `since`, and a
  full re-import has none. It moves the watermark to the newest open issue it
  saw. An issue that was closed since the last pass, and before that, is never
  asked for again: its card stays open. The docstring calls a full re-import
  "safe at any time".
* A dispatch during a pass. `_changes_for` decides from the row that was looked up whether the
  card is in the factory, and the update is another transaction. A dispatch
  recorded between the two is overwritten with `backlog` or `done`.

* With `Interrupts = TRUE` the same happens without `full`: the first import
  creates cards and dies before it sets the watermark, some of the issues are
  closed, and the next import is again one of open issues only.
* With `Overlaps = TRUE` two passes at a time can leave a card on an old version
  for good: the slower one writes what it listed before the change, and the
  watermark of the faster one, set last, is past the change. `cards.py:2474`
  puts the cost of a lost lease at "one duplicate READ, never a duplicate card".

### What is proved

`IssueImportProofs`, for any number of replicas, threads, issues, ticks and
incidents, any listing limit and any lag within the overlap:

* `NothingIsMissed`: `Spec => []NothingFallsBehind`.
* `OnePollerAtATime`: `Spec => []OnePollerPerLease`.
* `DeletedIsFinal`: `Spec => DeletedStays`, here without any assumption about
  overlaps, full imports and interruptions.

The first two assume `Serial`: passes do not overlap, no import is full, no
first import is interrupted. The traces above are why. The invariant `IInv`
follows a pass through its steps. What is listed is at least as new as the
watermark, and where the host has moved on by now, it has done so recently
enough to be asked for again (`ListedInv`). What is not listed, or has been
dealt with, is shown on the board, or will be asked for again, or was reported
as left out (`DoneInv`): at the listing this takes the bound on the lag
(`HostInv`), the old watermark's promise for what was not asked for, and, where
there is no watermark, that the board is still empty (`FirstInv`), since only
open issues are asked for then. The row that is written is the row that was
looked up (`RowInv`), which needs that there is one pass at a time (`LeaseInv`).
`IInv` was checked by TLC on the instance of `import` before it was proved.

Convergence is model-checked.

### Not modelled

Label filters, several projects of one tenant, and `last_polled_at` (only the
staleness display reads it). The pages of one listing are one step here: a
listing is as a whole at most `Lag` behind. `IssueListing` shows the pages, and
`CommentSync` the comment threads (section 8).

## 6. Work items

### What is modelled

`WorkItemStore` is the table of work items, the threads that poll the services
into it, and the tasks of the services.

| Model | Code |
|---|---|
| `rows[k]` | the row of a correlation key: a slice (task and status) for each service, the events of its `timeline`, whether it has a title, and whether `updated_at` lies further back than the stall deadline and the pruning age (`old`) |
| `up`, `net` | external: the tasks with their status, key and creation time, whether they are listed; completion events under way |
| `poll[p]` | a thread of the poll loop or of the refresh button: the step, the service, the listing it read, what is still to be written, what counts as live and what as newest on its key |
| `upsert_from_event`, `Redelivered` | `ingest_event` and `upsert_from_event`: an event of the timeline changes nothing |
| `list_items`, `ChooseOwners`, `upsert_snapshot`, `reconcile_snapshot`, `prune_duplicate_stages`, `prune_dead` | the steps of `poll_progress_once`: the call, the choice of the tasks that own a row (with the read of what the row shows), one transaction per listed task, and three over the table |
| `refresh` | `POST /api/refresh`, which writes and reconciles what is listed, without owners and without pruning |
| `ListFails`, `Crash` | a service that does not answer; a cycle that fails |
| `Start`, `Advance`, `Resume`, `Unlist`, `Rekey`, `delete`, `Age` | the services, a person on the board, and time |

Statuses are one of each class that the classifiers tell apart: `coding` and
`review` run, `stalled` is dead, `done` and `failed` are terminal. Tasks are
numbered in the order of their creation times, which some listings lack
(`stamped`); their order in a listing is `Place`. A transaction is one step.

### Runs

| Run | Question | Instance | Result |
|---|---|---|---|
| `requests` | Does finished history stay? Does a dead task take a row from a finished one? | two tasks of one service, the newer listed first, poll loop and refresh one at a time, events between polls, one incident | `HistoryKept`, `DeadTakesNothing` hold |
| `polling` | Whatever arrives in the middle of a poll, does polling bring the board back to what the services list? | two tasks of one service, the older listed first, events and changes at any point, one incident | `BoardHeals` holds |

Two tasks are an original and its re-run, which is what the rules about dead
and newest tasks are about. There are three keys, the issue's and a fallback
key for each task, so that tasks may share a row or move between rows, and two
services, so that a poll goes on after the first. `HistoryKept` excepts a task
that was given another key and a key that was given to another task of the
service. An incident is an outage, a
failed cycle, a press of Refresh, a removal, a redelivery, a re-keying, or a
task that resumes or leaves the listing.

Fairness in `polling`: the loop starts the next cycle whatever the last one
raised, and a cycle that has begun goes on; senders repeat an event until it is
answered; a row ages. Nothing is assumed of tasks and people.

### Where the code differs from what is said of it

With `Overlaps = TRUE`, which lets an event arrive inside a poll, both properties
of `requests` are violated:

* `HistoryKept`: the poll has listed a task as running, its completion event is
  written, and the poll writes the listing over it. If the service drops the
  task before the next poll, the stage reads as running and unlisted, and
  `reconcile_snapshot` blanks it: the completion is in the timeline only.
  `store.py:615` says that "completed history must persist".
* `DeadTakesNothing`: the poll finds that the row shows the stalled task it
  listed, or an older one, and so calls that task the newest; then the
  completion of a re-run created since is written, and then the stalled task
  over it. `progress.py:163` names this outcome, "a lone dead task would beat an
  unlisted (event-only) re-run", as what the check prevents.

`BoardHeals` says that what a poll overwrites is repaired while the task stays
listed and has its key to itself; the re-run of the second trace is not listed.

### What is proved

`WorkItemStoreProofs` proves, for any number of tasks, services, threads, keys
and incidents, and any order of the listing:

* `TypeCorrect`: `Spec => []TypeOK`, whatever overlaps.
* `HistoryIsKept` and `DeadTasksYield`: `Spec => []HistoryKept` and
  `Spec => DeadTakesNothing`, if no event and no other poll arrives inside a
  poll (`Serial`). The traces above show that the assumption is needed.

Both rest on `Inductive`, `Spec => []IInv`, where `IInv` is `TypeOK` and six
conjuncts that TLC checked first on an instance like that of `requests`:

| Conjunct | Why the invariant needs it |
|---|---|
| `MutexInv` | at most one thread is inside a poll, so that nothing is written between its steps |
| `KeyInv` | a task has the key of an issue or its own fallback, so two tasks share a key only if it is an issue's |
| `EventInv` | an event, under way or on record, is of a task that has ended, under a key that it has or had |
| `ListInv` | a listed task that has its completion on record was listed as ended and under that key: writing what was listed restores what the event said |
| `NewestInv` | the newest task on a key is the only one of the poll to write there, and the row shows nothing newer until it does |
| `HistoryInv` | a completion on record is shown as such, which is more than `HistoryKept` says |

`HistoryInv` is lost if the slice is blanked or given to another task.
`ghost` spares what is terminal, `orphaned` would need the task listed under
another key (`ListInv`), and the writer of the slice could only be a re-run,
which `HistoryKept` excepts. `KeptBefore` is the lemma that a task with a
completion on record and with no re-run now had none before. A dead task that
takes a row from a finished one passed `superseded`: it is the same task, or the
newest, and `NewestInv` compares the two.

`BoardHeals` is a liveness property and model-checked only.

### Not modelled

Usage and the rule that a poll never blanks it, worker sub-events and
heartbeats, annotation blocks, phases, tenants, the live-progress hub and the
broadcasts; the retry after two inserts of the same key.

## 7. Git hosts: connections, installs, the sync of cards

### What is modelled

`GitConnections` is the git configuration of one tenant: its connections with
their credentials, its repositories and the default, the phase-2 row it may come
from, and the project name that old cards carry. A request is a sequence of
store transactions; the boot (adoption of the phase-2 row, the seed from the
environment) is a handler like the others.

`GitInstalls` is the install flow of one connection: the install row, the sealed
secret, the links handed out, the token cache of each thread, and, external,
the grants of the host, which on GitLab rotates the refresh token at every use.
Key rotation and the re-sealing of a record that is read are included.

`GitHubSync` is the way from a card to its issue: `sync_card` opens, adopts or
mirrors an issue in calls and transactions of their own, while imports make
cards out of issues and people edit both sides.

### Runs

| Run | Instance | Result |
|---|---|---|
| `requests` (its second part) | two threads, two hosts, one project, two connections, two repositories, a fresh tenant or one with a phase-2 row, one overlap or crash | `ProofIsCurrent` (a verification on record is of the host and project that stand in the row), `LeavesDefault` (no request by itself leaves repositories without a default) hold |
| `installs` | two threads, GitHub and GitLab, two grants, two links, two keys, one fault | `RefreshSurvives`, `OneInstallPerLink`, `DisconnectForgets`, `InstallRecovers` hold |
| `sync` (its first part) | two threads, two cards, three issues, four requests, one edit, one mishap | `OneCardPerIssue`, `ExtraIssuesNeedMishaps`, `EntersAsTheHostHasIt` hold |

`requests` explores the tenant with nothing to adopt without overlaps (`Calm`),
because adoption is where its handlers interact; verifications that fail are
left out. In `installs` a fault is a crash, a lost answer of the host, or a call
to it that fails; its fairness is that a handler goes on, that a token runs out,
and that somebody asks for a token again and again. `sync` leaves out the issue
state and the marking of issues that are gone; a title stands for all mirrored
fields.

### Where the code differs from what one would expect

* `verify_git_config` for a tenant with a connection and no repository probes
  the host of the environment, and records the verdict on the default
  connection.
* When all connections are deleted, the next boot adopts the phase-2 row again,
  without its credential. An adoption that is interrupted after
  `create_connection` is never resumed.
* Of two replicas that boot at once, the loser's `create_connection` raises, and
  its boot fails. Two overlapping updates of a connection lose one of them;
  overlapping creation and deletion of repositories can leave no default.
* A reconnect that overlaps a mint in flight can have its token overwritten, or
  the old token cached again. The loser of two refreshes marks the install as
  degraded while the winner's token works. Key rotation re-wraps the record it
  read over a newer refresh token (`cards.py:1814`), where the docstring
  (`cards.py:1787`) calls the migrations "both lazy and both invisible".
* `set_connection_credential` looks for the connection and stores the secret in
  two transactions (`cards.py:1855`, `cards.py:1860`), and `delete_connection`
  may run between them: the secret then stands for a connection that is gone,
  and for the next one that gets its id. With four requests that costs an
  install: a refresh stores its new token after the deletion; a mint in flight
  reads that token, the host rotates it, and the check refuses to store the
  next one, since the connection is gone; an install in flight, which had found
  the connection, then records itself over the spent token. TLC finds this with
  four threads; with the two of `installs` it does not happen.
* `delete_install` also removes a credential that was pasted on a GitHub
  install; pasting one on a GitLab install overwrites its refresh token. A
  failure between `store_install_secret` and `record_install` leaves a secret
  without an install, though the page of the callback says that nothing was
  stored.
* Two overlapping writes that make a card ready open two issues, and one of them
  is left without a card. An import between `create_issue` and the update makes
  a second card, and the first loses its issue with an error
  (`ExtraIssuesNeedMishaps` counts overlaps as mishaps). A card deleted while it
  is synced lets its issue be imported again.
* A card whose repository is gone makes `maybe_sync`, `sync_card` and
  `import_issues` raise after the write is stored (`cards.py:1314`, outside the
  `try` of `github_sync.py:290`), where `cards.py:1135` and
  `docs/guides/planning-board.md` speak of a fallback to the default, and
  `issue_import.py:472` of never raising.

### What is proved

The first part of `GitHubSyncProofs`, for any number of threads, cards, issues,
requests and edits:

* `OneCardEach`: `Spec => []OneCardPerIssue`, whatever fails, restarts or overlaps.
  The invariant says besides that only a card that carries an issue has it
  fetched, so that what a thread writes back never gives a card an issue it did
  not have; a number comes new from the host, or is adopted after the look at
  all rows in the same transaction.
* `EntersAsAnswered`: `Spec => EntersAsTheHostHasIt`. The property speaks of the
  behaviours without a mishap. There requests do not overlap (`Alone`), so the
  copy a hook works from is the card (`Current`), and what the host answered is
  on it when the intake begins (`Answered`).
* `IssuesArePaidFor`: `Spec => []ExtraIssuesNeedMishaps`. The invariant is an
  account of each card (`Paid`): the issues that were opened for it and the hooks
  that are about to open one (`Openers`) are at most the mishaps and the one issue
  that a card may have for nothing. That one is not counted while the next request
  would open another (`Bare`): the card has no issue, nobody is about to open one,
  and no hook brings it one that nothing keeps from getting there (`Settles`). So
  a request that runs alone finds the account balanced for its issue, and whatever
  leaves a card without the issue that was opened for it was a mishap's step.
  `Sound` says what a hook knows: an issue it opened is nobody else's
  (`OpenedOnce`), and a new card's key is free (`MadeInOrder`).

`GitInstallsProofs`, for any number of threads, links, consents and keys:

* `LinksInstallOnce`: `InstallSpec => []OneInstallPerLink`. A link that was
  accepted is spent (`LinkInv`), and nothing makes a spent link pending again.
* `NothingIsRemembered`: `InstallSpec => DisconnectForgets`. A disconnect that
  no other request overlaps finds the cache empty and the install gone at its
  last step, because nothing ran since it emptied them (`AloneInv`).
* `RefreshIsKept`: `InstallSpec /\ [][StoredInPlace]_installVars => []RefreshSurvives`,
  however the calls overlap. `StoredInPlace` says that no secret is stored for a
  connection that is gone; without it the trace above refutes the property. The
  invariant `Tokens` says who has the newest refresh token of a grant: at most
  one thread that is about to store it, and then the row and every other thread
  have another one (`Newest`). So what a thread stores is never a spent token,
  and a spent token in the row always has a thread on its way to replace it.

The first part of `RequestsProofs` is about `GitConnections`, for any number of
threads, hosts, projects, rows and mishaps:

* `ProofsAreCurrent`: `ConnSpec => []ProofIsCurrent`. A verify is recorded, and a
  moved connection is unverified, on the strength of what an earlier transaction
  of the same request read. The invariant says that this is still so when it is
  used: a request that nothing overlapped and that is about to move a row,
  to record a verdict or to carry one over from the phase-2 row has just read
  that row (`Ready`), since beside a request that is alone there is none
  (`AloneInv`). `HandedIsReady` carries it through the lists of transactions,
  whatever detour a step puts before the rest.
* `DefaultsAreLeft`: `ConnSpec => LeavesDefault`. A request that may take the
  default away is on its way to name one or to look whether there is one
  (`Tidy`). That the row it names stands, and that an insert never lands on a
  row that is in use (`NextIdIsNew`, although an id may come back), is what the
  proof needs besides. Nothing is assumed of the state it begins in: a crash or
  an overlap before it may have left any.

`InstallRecovers` is a liveness property and is model-checked.

### Not modelled

Several connections of one tenant in the install flow, branches and paths of a
repository, rate limits, and the providers' REST clients. The manifest pins the
replica count to one, so `installs` has threads and not replicas.

## 8. Listings and comment threads

`IssueListing` is how `list_issues` of each provider walks the pages of a
repository's issues while issues are opened, edited and closed. `CommentSync` is
how the comments of imported cards are read: per card by a marker, in bulk for a
group of cards, with the order in which each provider lists and the number of
pages it is asked for.

`paging` (its second part) has three issues of which one is a pull request, a
page size of one, ceilings that cut the listing off or not, two changes and one
mishap: `IncrementalReadsMissNothing` holds, which is what `IssueImport` assumes
of a listing. `sync` (its second part) has two cards, three comments, two of
them on the host from the start and two of the first card, pages of one comment,
an overlap of two ticks, one change and one mishap, for each provider:
`ThreadsAreWhole` holds, with the exceptions its text names. An overlap of two
ticks is the least with which time passes while a group is read.

`PagingProofs` proves `IncrementalReadsMissNothing` for any number of issues, any
page size and any changes (`IncrementalPassesAreWhole`). A pass with a watermark
asks for issues of every state, so what is filed or changed can only join its
listing or stay in it (`ListingGrows`: a change is made now, and no watermark
lies in the future, `ListingInv`); and an issue that joins a listing pushes
others down it and none up (`NothingMovesUp`, by the pigeonhole principle). That
every set of numbers has a listing at all is shown by its smallest
counterexample (`ListingExists`).

`GitHubSyncProofs` proves `ThreadsAreWhole` for any number of cards, comments,
passes, pages and failures (`ThreadsStayWhole`). The invariant `ThreadInv` says of
a comment that was there when a pass began to read its group, and has not changed
since, that it is out of the window, was read as it is, or is ahead of the walk
(`Sees`); and of one that the window leaves out, that the card has it (`Keeps`).
`PageDecides` is the step from page to page: a comment that is left is kept by the
page, is out of the window, or stands on a later page. For counted pages that
follows from the order of the listing (`PlaceIs`); for a walk that stops early,
from what it stopped at being no older (`StopsAt`), which on Azure DevOps is the
order of creation and needs that no newer comment hides an edit (`AgeInv`). A
store that overlaps another pass does not undo `Keeps`, because the bound on a
group leaves no room for the two: what one has read since it began is newer than
the window of the other. TLC checked the invariant on the instance of `sync`
before it was proved.

What the models show besides:

* The first read of a repository, of open issues only, can lose an issue when
  another is closed between two pages. GitLab and Azure DevOps ignore `since`.
  On GitLab a listing that is cut off is not reported, though
  `issue_import.py:551` says "A truncated import is REPORTED, never silent".
* A comment can shift to a page already read and be out of reach for good (the
  history `skipped`). On Azure DevOps the newest are asked for first, by
  creation, so that an edit of an older comment is not seen. A thread of exactly
  as many comments as the pages hold counts as cut off.
* An issue that can never be read blocks its cold group for ever, though
  `issue_import.py:340` and `docs/guides/github-card-sync.md:514` say that "the
  rest arrive on later passes".

Bounds: reading a listing takes less time than its overlap; a group of comments
takes less than the overlap, the five minutes of `_COMMENT_OVERLAP`, from its
first page to its last store; deleted comments stay stored; there is one clock.

The bound on a group is needed. Without it TLC refutes `ThreadsAreWhole`, with two
overlaps: a pass reads a comment and stalls before it stores it; the comment is
edited; a second pass stores the edit; then the first one writes the old version
back, with the old marker; and a third pass, which read the markers before that,
has asked for what is newer than the edit only, and moves the marker past it. A
pass that is stuck in its stores for five minutes can so lose an edit, and nothing
in the code (`issue_import.py:383-424`) stops it: the lease covers the poll, and
not a press of "Sync now".

## 9. The two surfaces and the prepared actions

`Surfaces` is one request to the board, over REST or over MCP, from the caller's
credentials to the audit row: authentication, the tenant, the role or scope, the
seam, the write, the trail, and the answer. A client that gets no answer may
retry. The configuration of the service (`Deployments`) is chosen at the start.
`PreparedActions` is the chain of calls an approved action makes: the removal of
a work item from every factory, with the pruning of the row, the polls that may
bring it back, and the audit row at the end.

`surfaces` has six deployments, seven kinds of caller, two tenants and one
mishap, and in its second part two callers, two stages, and one move of a factory
or one mishap. `OwnTenantOnly`, `EveryWriteIsTold` and `EffectsAreRecorded` hold.

What the models show besides: a key with the write scope only may write over MCP
and not over REST. `set_git_credential` with a credential that cannot be sealed
leaves an empty connection behind. A write to a card that names a deleted
repository is answered with an error (500 over REST) after it was stored. A
caller with the legacy MCP secret is the actor `local`. A card with a key chosen
by the server is made twice when the request is repeated. A poll that listed a
task before its removal makes the row again; `remove` deletes the furthest stage
only, and prunes the row even if the factory refused; a crash between the effect
and the audit row leaves the effect without one (a mishap in
`EffectsAreRecorded`).

`RequestsProofs` proves all three, for any deployments, tenants and operations, and
any number of callers, factories and mishaps:

* `OwnRowsOnly` and `WritesAreTold`: `Spec => []OwnTenantOnly` and
  `Spec => []EveryWriteIsTold`. `RInv` adds to them where the request under way
  stands (`Standing`): past the tenant check before it can write, written once
  before it is told, and told once. Over REST the tenant is that of the path,
  checked against the caller's; over MCP it is the caller's own, which
  `StoreTenant` settles for both, with and without multi-tenancy.
* `ActionsAreRecorded`: `ActionSpec => []EffectsAreRecorded`. From the confirmation
  until the trail has it, an action's caller holds its id (`Numbered`); a caller
  loses it by a crash only, which the property excepts.

Not modelled: the work-item tools over MCP, which read the store without a
tenant, and the settings tools, which write no audit row.

## 10. The cockpit: feed, schema and consoles

`CockpitFeed` is `/api/ws`: the set of sockets, the snapshot that a handler
reads after it joined the set, broadcasts that await one send after another, and
browsers that reload and reconnect. `SchemaBoot` is the start of the service on
a database of any release: `bootstrap_schema`, the revisions, `create_all` and
the guards of the stores, statement by statement, with and without transactional
DDL. `LiveConsole` is one console: the list of live agents, the resolution of a
key to a session, the dial, the two tasks of the bridge and its teardown.
`ConsoleView` is what a console promises its viewer: a visit follows one session
from the moment it is chosen, the screen shows what that session writes, in order
and to its end unless the connection breaks, and a visit that is over leaves no
socket open and says why. `FollowsOneSession` is that `LiveConsole` implements it:
a visit that has resolved its key and not dialled yet follows nothing, whatever
`session` holds, and the frames under way on the factory's socket are not shown.

`cockpit` has one row, one browser, one writer and one mishap; all releases with
the hash chain, the revisions a managed database may be at, and two stops of the
service; two sessions with two frames each and one failure. It checks
`NothingFallsBetween`, `ServesItsSchema`, `PolledBoardsCatchUp` and
`FollowsOneSession`. One row is enough for the feed because a property of a row
speaks of the copies of that row only, and one browser because browsers share
only the set of sockets. Its fairness is that the event loop runs what can run,
that the poll loop starts its next cycle, and that a browser reads and
reconnects; nobody has to send an event.

What the models show besides:

* Copies of a row race to a browser. Without the poll loop a stale row stays
  there until it is reloaded, although `routes_ws.py:30` says "up to date at
  once". A row whose `apply_status` fails is stored and never broadcast
  (`untold`).
* On SQLite a boot that is killed in the middle of a revision, or between the
  making of `alembic_version` and the stamp, leaves a database on which every
  later boot fails; one killed between a table and its indexes leaves out the
  index for good (`torn`). A database of the release before the hash chain that
  was made by `create_all` is not healed, and is left out of the run.
* `resolve_spec_id` takes the first listed task of the key, active or not, where
  `discover_live_agents` lists active ones. An error of the factory in the
  middle of a stream closes the cockpit's socket with 1000, not 1011.

`CockpitProofs` proves, for any number of rows, browsers, broadcasters, sessions,
frames and failures:

* `NothingIsMissed`: `FeedSpec => []NothingFallsBetween`. A browser whose handler
  has read its snapshot is owed the newest version of every row: the version is
  in that snapshot, has gone out to the browser, or is with a broadcaster that
  has the browser's socket to send to or will still read the set of sockets
  (`Reached`). That set holds every open socket, and no broadcast gives up one
  that is still open (`Held`): the handler joins the set before it reads.
* `ConsolesFollowOneSession`: `ConsoleSpec => FollowsOneSession`, the refinement of
  `ConsoleView`. While the viewer stays, the screen, the frames in the bridge and
  nothing else make up what the session has written (`Continued`), so a frame
  that is pumped is the session's next, and a bridge that ends because the
  session did has none left; after a failure nothing is pumped (`Quiet`). Each
  action maps to one step of `ConsoleView` or to a stutter, and every way out of
  `proxy_agent_console` to `Over`. Two things it implies have theorems of their
  own, `OneSessionShown` (`ShowsOneSession`) and `SessionsAreShownToTheirEnd`
  (`LastFramesArrive`).

* `EveryBootServesItsSchema`: `BootSpec => []ServesItsSchema`, for a database that
  `create_all` made at any release with the hash chain or that any revision left
  (`BootAssumption`), on either kind of database, with any number of stops.
  `BootInv` says what each stage of a boot has in hand. A database at rest is
  `Finishable`: it is at a revision exactly, or it is `Repairable`, which means
  that what its tables lack is no more than the guards add. In a revision the
  schema is what the statements so far leave (`Midway`); during `create_all` the
  tables taken are there; during the guards the statements run are answered.
  `Repairable` is where the lists of late columns and indexes have to be
  complete, for every release at once: `ReleasesAreRepairable` is the fact that a
  column added to a model and not to `_LATE_COLUMNS` refutes. The schema of a
  release is a set expression over the statements of its revisions, so that the
  prover can reason about it; `MCCockpit` has TLC compare it with running the
  statements one by one (`SchemaIsRun`).

`PolledBoardsCatchUp` is a liveness property and stays with TLC.

Bounds: the page loads with an empty board; one refresh at a time, where no loop
runs; a send waits where a socket has `Buffer` frames. Progress frames, and the
close code of an unauthorized socket, are not modelled. One replica boots.

## 11. What is proved

Each theorem is about every value of the constants its module declares, within
the assumptions named there; "assumes" lists what a theorem adds to those.

| Theorem | Module | Property | Assumes |
|---|---|---|---|
| `TypeCorrect` | `CardIntakeProofs` | `TypeOK` | – |
| `TestsFollowBuilds` | `CardIntakeProofs` | `TestHasBuild` | – |
| `CompletionsAreReal` | `CardIntakeProofs` | `DoneIsReal` | – |
| `DoneNeedsAVerdict` | `CardIntakeProofs` | `DoneIsAVerdict` | – |
| `JoinsAreReal` | `CardIntakeProofs` | `JoinIsReal` | – |
| `StagesAreJoined` | `CardIntakeProofs` | `StageJoined` | the doors answer one key |
| `CardKeepsLedger` | `CardIntakeProofs` | `KeepsLedger` | one handler at a time |
| `DoneOwesNothing` | `CardIntakeProofs` | `NeverDoneWhileOwed` | one handler at a time |
| `PagesAreComplete` | `PagingProofs` | `PagesMissNothing` | – |
| `AppendsAreAtomic` | `PagingProofs` | `AppendsLink` | – |
| `AppendsKeepTheTrail` | `PagingProofs` | `KeepsTheTrail` | – |
| `HonestTablesAreClean` | `PagingProofs` | `HonestChainIsSound` | – |
| `ChangesAreReported` | `PagingProofs` | `ChangeIsReported` | – |
| `IncrementalPassesAreWhole` | `PagingProofs` | `IncrementalReadsMissNothing` | – |
| `NothingIsMissed` | `IssueImportProofs` | `NothingFallsBehind` | passes do not overlap, none is full or interrupted |
| `OnePollerAtATime` | `IssueImportProofs` | `OnePollerPerLease` | the same |
| `DeletedIsFinal` | `IssueImportProofs` | `DeletedStays` | – |
| `TypeCorrect` | `WorkItemStoreProofs` | its `TypeOK` | – |
| `HistoryIsKept` | `WorkItemStoreProofs` | `HistoryKept` | nothing arrives inside a poll |
| `DeadTasksYield` | `WorkItemStoreProofs` | `DeadTakesNothing` | nothing arrives inside a poll |
| `OneCardEach` | `GitHubSyncProofs` | `OneCardPerIssue` | – |
| `EntersAsAnswered` | `GitHubSyncProofs` | `EntersAsTheHostHasIt` | – |
| `IssuesArePaidFor` | `GitHubSyncProofs` | `ExtraIssuesNeedMishaps` | – |
| `ThreadsStayWhole` | `GitHubSyncProofs` | `ThreadsAreWhole` | a group takes less than the overlap |
| `LinksInstallOnce` | `GitInstallsProofs` | `OneInstallPerLink` | – |
| `NothingIsRemembered` | `GitInstallsProofs` | `DisconnectForgets` | – |
| `RefreshIsKept` | `GitInstallsProofs` | `RefreshSurvives` | no secret is stored for a connection that is gone |
| `ProofsAreCurrent` | `RequestsProofs` | `ProofIsCurrent` | – |
| `DefaultsAreLeft` | `RequestsProofs` | `LeavesDefault` | – |
| `OwnRowsOnly` | `RequestsProofs` | `OwnTenantOnly` | – |
| `WritesAreTold` | `RequestsProofs` | `EveryWriteIsTold` | – |
| `ActionsAreRecorded` | `RequestsProofs` | `EffectsAreRecorded` | – |
| `NothingIsMissed` | `CockpitProofs` | `NothingFallsBetween` | – |
| `SessionsAreShownToTheirEnd` | `CockpitProofs` | `LastFramesArrive` | – |
| `ConsolesFollowOneSession` | `CockpitProofs` | `FollowsOneSession` | – |
| `OneSessionShown` | `CockpitProofs` | `ShowsOneSession` | – |
| `EveryBootServesItsSchema` | `CockpitProofs` | `ServesItsSchema` | – |

Where a theorem assumes something, the section of its component shows the trace
that refutes the property without it: the assumption is not for the proof's
convenience but says how far the code keeps the promise.

The proofs have one shape. A property that is not inductive, because it is
written from copies, messages or answers of a while ago, gets an invariant that
says the same of the copies, messages and answers. Each such invariant was an
invariant of a run of TLC before it was proved. Then there is one lemma for
each action, or each handler, and the temporal step combines them.

## 12. What is left

* What stays with TLC. Liveness, since ENABLED is out of the prover's reach:
  `StageSettles`, `SequenceAdvances`, `BoardConverges`, `BoardHeals`,
  `InstallRecovers` and `PolledBoardsCatchUp`. And that `SchemaAt` is what
  running the statements leaves, since a fold needs induction over data. Every
  safety property that a run checks is proved.
* Modules not written: the adapters' conversions, the copilot's tool loop, and
  the frontend's own state beyond the rows of the board.

## 13. How to run

    tlasany CardIntake.tla
    tlc -workers 2 -config CardIntake_serial.cfg MCCardIntake
    tlapm CardIntakeProofs.tla

`PROJECT.json` lists every run with its module, its configuration and what it
checks; for each property a mutant, a variant of a definition with which TLC
finds the property violated; and for each definition the lines it models. The
variants stand in the modules beside the definition they vary.
