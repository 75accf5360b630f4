---------------------------- MODULE IssueImport ----------------------------
(***************************************************************************)
(* The import of one repository's issues as cards (issue_import.py, and    *)
(* the import state kept by cards.py).                                     *)
(*                                                                         *)
(* Replicas poll, people press "Sync now".  A pass claims the lease (a     *)
(* poll only), reads the watermark, asks the host for what was updated     *)
(* since, upserts the issues one by one, and moves the watermark.  Each of *)
(* these is a transaction or a call of its own.                            *)
(*                                                                         *)
(* The mirrored content of an issue is the time stamp of the version it    *)
(* comes from: a card mirrors an issue when it holds the same stamp.       *)
(***************************************************************************)
EXTENDS Integers, FiniteSets

CONSTANTS
    Issues,         \* numbers of issues of the repository
    Pollers,        \* the replicas that poll
    Manual,         \* the threads that serve "Sync now"
    FullChoices,    \* may a manual import ask for everything? TRUE, FALSE
    Limits,         \* the values import_max may have
    Overlap,        \* _OVERLAP, in ticks
    Lag,            \* how long the host's listing may be behind the host
    MaxBackoff,     \* _MAX_BACKOFF_CYCLES
    RateLimited,    \* _RATE_LIMIT_FAILURES
    Overlaps,       \* may two passes run at the same time?
    MaxTime,        \* bound: the last tick
    Interrupts,     \* may a restart interrupt a read of open issues only?
    MaxIncidents    \* bound: restarts, outages, failed upserts, and cards
                    \* that people dispatch or delete

Importers == Pollers \cup Manual

ASSUME NumberAssumption ==
    /\ Issues \subseteq Nat \ {0}
    /\ IsFiniteSet(Issues)
    /\ Limits \subseteq Nat \ {0}
    /\ {Overlap, Lag, MaxTime, MaxIncidents} \subseteq Nat
    /\ Overlap < MaxTime
    /\ {MaxBackoff, RateLimited} \subseteq Nat \ {0}

\* The listing is behind by less than the watermark is rewound.
ASSUME LagAssumption == Lag <= Overlap

ASSUME RoleAssumption ==
    /\ Pollers \cap Manual = {}
    /\ FullChoices \subseteq BOOLEAN
    /\ {Overlaps, Interrupts} \subseteq BOOLEAN

VARIABLES
    now,        \* the host's clock
    host,       \* the issues on the host
    shown,      \* the issues as the host's listing shows them
    card,       \* the card of each issue
    watermark,  \* card_import_state.last_synced_at
    lease,      \* is poll_leased_until in the future?
    pass,       \* what each importer is doing
    failures,   \* PollBackoff._failures of each poller
    skip,       \* PollBackoff._skip of each poller
    reported,   \* has a pass reported that it left something out?
    incidents   \* how many incidents there were

external == <<now, host, shown>>
state == <<watermark, lease>>
backoff == <<failures, skip>>
vars == <<external, card, state, pass, backoff, reported, incidents>>

-----------------------------------------------------------------------------
(* Vocabulary.                                                             *)

Never == 0
NotFiled == [updated |-> Never, open |-> FALSE]
FirstTick == Overlap + 1
Stamps == FirstTick .. MaxTime

Issue == [updated: Stamps \cup {Never}, open: BOOLEAN]

Statuses == {"backlog", "in_progress", "done"}

\* fields are the columns a create writes, labels the two it does not.
Card == [row: {"none", "live", "deleted"}, status: Statuses,
         entered: BOOLEAN, fields: Stamps \cup {Never},
         labels: Stamps \cup {Never}]

NoCard == [row |-> "none", status |-> "backlog", entered |-> FALSE,
           fields |-> Never, labels |-> Never]

Steps == {"idle", "claim", "start", "fetch", "next", "create", "labels", "update"}

Nothing == [i \in Issues |-> NotFiled]

Idle == [pc |-> "idle", fresh |-> FALSE, full |-> FALSE, since |-> Never,
         listed |-> Nothing, newest |-> Never, issue |-> 0, snap |-> NoCard]

Watermarks == {Never} \cup 1 .. MaxTime

Pass == [pc: Steps, fresh: BOOLEAN, full: BOOLEAN, since: Watermarks,
         listed: [Issues -> Issue], newest: Stamps \cup {Never},
         issue: Issues \cup {0}, snap: Card]

At(p, step) == pass[p].pc = step
InPass(p) == pass[p].pc \notin {"idle", "claim"}
Becomes(p, r) == pass' = [pass EXCEPT ![p] = r]
Incident == incidents < MaxIncidents /\ incidents' = incidents + 1

\* What is left of the listing.
Listed(p) == {i \in Issues : pass[p].listed[i] # NotFiled}

-----------------------------------------------------------------------------
(* The lease and the back-off.                                             *)

\* Where overlapping passes are left out: nobody presses "Sync now" during a
\* poll, and no poll starts while such a press is served.
Quiet(p) ==
    \/ Overlaps
    \/ IF p \in Manual THEN \A q \in Importers \ {p} : At(q, "idle")
       ELSE \A q \in Manual : At(q, "idle")

\* Mutant: a repository that has been imported is not polled again.
due_once(p) ==
    /\ At(p, "idle")
    /\ IF skip[p] > 0
       THEN skip' = [skip EXCEPT ![p] = @ - 1] /\ UNCHANGED pass
       ELSE /\ UNCHANGED skip /\ ~lease /\ watermark = Never
            /\ Becomes(p, [Idle EXCEPT !.pc = "claim", !.fresh = TRUE])
    /\ UNCHANGED <<external, card, state, failures, reported, incidents>>

\* A poll cycle: sit it out, or read the lease that nobody holds.
due(p) ==
    /\ At(p, "idle")
    /\ IF skip[p] > 0
       THEN skip' = [skip EXCEPT ![p] = @ - 1] /\ UNCHANGED pass
       ELSE UNCHANGED skip /\ ~lease /\ Becomes(p, [Idle EXCEPT !.pc = "claim",
                                                             !.fresh = TRUE])
    /\ UNCHANGED <<external, card, state, failures, reported, incidents>>

\* Mutant: the update does not compare the lease with the one it read.
claim_unconditionally(p) ==
    /\ At(p, "claim")
    /\ Quiet(p)
    /\ lease' = TRUE
    /\ Becomes(p, [Idle EXCEPT !.pc = "start"])
    /\ UNCHANGED <<external, card, watermark, backoff, reported, incidents>>

\* The lease is written where it is still the one that was read; a claim
\* makes every other reading stale.
claim_import_lease(p) ==
    /\ At(p, "claim")
    /\ Quiet(p)
    /\ IF pass[p].fresh
       THEN /\ lease' = TRUE
            /\ pass' = [q \in Importers |->
                           IF q = p THEN [Idle EXCEPT !.pc = "start"]
                           ELSE [pass[q] EXCEPT !.fresh = FALSE]]
       ELSE UNCHANGED lease /\ Becomes(p, Idle)
    /\ UNCHANGED <<external, card, watermark, backoff, reported, incidents>>

\* The lease runs out: under its holder only where passes may overlap.
LeaseExpires ==
    /\ lease
    /\ Overlaps \/ \A p \in Pollers : ~InPass(p)
    /\ lease' = FALSE
    /\ UNCHANGED <<external, card, watermark, pass, backoff, reported, incidents>>

record_ok(p) ==
    IF p \in Pollers
    THEN /\ failures' = [failures EXCEPT ![p] = 0]
         /\ skip' = [skip EXCEPT ![p] = 0]
    ELSE UNCHANGED backoff

\* 2 ^ (n - 1) cycles after the n-th failure in a row, MaxBackoff at most.
record_failure(p, refused) ==
    LET n == IF refused /\ failures[p] + 1 < RateLimited
             THEN RateLimited ELSE failures[p] + 1
        cycles == 2 ^ (n - 1)
    IN  IF p \in Pollers
        THEN /\ failures' = [failures EXCEPT ![p] = n]
             /\ skip' = [skip EXCEPT ![p] =
                            IF cycles < MaxBackoff THEN cycles ELSE MaxBackoff]
        ELSE UNCHANGED backoff

-----------------------------------------------------------------------------
(* import_issues().                                                        *)

\* POST /api/cards/import.
import_cards(p, full) ==
    /\ At(p, "idle")
    /\ Quiet(p)
    /\ Becomes(p, [Idle EXCEPT !.pc = "start", !.full = full])
    /\ UNCHANGED <<external, card, state, backoff, reported, incidents>>

get_watermark(p) ==
    /\ At(p, "start")
    /\ Becomes(p, [pass[p] EXCEPT !.pc = "fetch",
                                  !.since = IF pass[p].full THEN Never ELSE watermark])
    /\ UNCHANGED <<external, card, state, backoff, reported, incidents>>

\* A first or a full read asks for open issues, a later one for all of them
\* that were updated at or after the watermark.
_filters(since) ==
    {i \in Issues :
        /\ shown[i] # NotFiled
        /\ IF since = Never THEN shown[i].open ELSE shown[i].updated >= since}

\* The host answers with at most limit issues, highest number first.
IsPage(page, wanted, limit) ==
    IF Cardinality(wanted) <= limit THEN page = wanted
    ELSE Cardinality(page) = limit /\ \A i \in page, j \in wanted \ page : j < i

fetch_issues(p, limit) ==
    /\ At(p, "fetch")
    /\ \E page \in SUBSET _filters(pass[p].since) :
          LET stamps == {shown[i].updated : i \in page} \cup {Never}
          IN  /\ IsPage(page, _filters(pass[p].since), limit)
              /\ \E newest \in stamps :
                    /\ \A t \in stamps : t <= newest
                    /\ Becomes(p, [pass[p] EXCEPT
                          !.pc = "next", !.newest = newest,
                          !.listed = [i \in Issues |->
                                         IF i \in page THEN shown[i] ELSE NotFiled]])
              /\ reported' = (reported \/ Cardinality(page) >= limit)
    /\ UNCHANGED <<external, card, state, backoff, incidents>>

\* The host answers an error, or asks for fewer requests.
FetchFails(p, refused) ==
    /\ At(p, "fetch")
    /\ Incident
    /\ Becomes(p, Idle)
    /\ record_failure(p, refused)
    /\ UNCHANGED <<external, card, state, reported>>

-----------------------------------------------------------------------------
(* _import_one().                                                          *)

_status_for(issue) == IF issue.open THEN "backlog" ELSE "done"

\* What the update writes on the row c, given the copy that was looked up:
\* the fields in which the copy differs from the issue, and the status unless
\* the copy shows that the card has entered the factory.
_changes_for(c, snap, issue) ==
    [c EXCEPT
        !.fields = IF snap.fields # issue.updated THEN issue.updated ELSE @,
        !.labels = IF snap.labels # issue.updated THEN issue.updated ELSE @,
        !.status = IF ~snap.entered /\ snap.status # _status_for(issue)
                   THEN _status_for(issue) ELSE @]

\* The pass is done with issue i.
Over(p, i) ==
    [pass[p] EXCEPT !.pc = "next", !.issue = 0, !.snap = NoCard,
                    !.listed[i] = NotFiled]

\* The issues are taken in the order of the listing.
get_by_issue_ref(p, i) ==
    /\ At(p, "next")
    /\ i \in Listed(p)
    /\ \A j \in Listed(p) : j <= i
    /\ LET c == card[i]
           to == [pass[p] EXCEPT !.issue = i]
       IN  \/ /\ c.row = "none"
              /\ Becomes(p, [to EXCEPT !.pc = "create"])
           \/ /\ c.row = "deleted"
              /\ Becomes(p, Over(p, i))
           \/ /\ c.row = "live"
              /\ Becomes(p, IF _changes_for(c, c, pass[p].listed[i]) = c
                            THEN Over(p, i)
                            ELSE [to EXCEPT !.pc = "update", !.snap = c])
    /\ UNCHANGED <<external, card, state, backoff, reported, incidents>>

\* The unique index refuses a second row: the pass looks the card up again.
create(p) ==
    /\ At(p, "create")
    /\ LET i == pass[p].issue
           issue == pass[p].listed[i]
       IN  IF card[i].row = "none"
           THEN /\ card' = [card EXCEPT ![i] =
                       [row |-> "live", status |-> _status_for(issue),
                        entered |-> FALSE, fields |-> issue.updated,
                        labels |-> Never]]
                /\ Becomes(p, [pass[p] EXCEPT !.pc = "labels"])
           ELSE UNCHANGED card /\ Becomes(p, [pass[p] EXCEPT !.pc = "next"])
    /\ UNCHANGED <<external, state, backoff, reported, incidents>>

\* Mutant: a deleted card is updated like one on the board.
update_any_row(i, c) == card' = [card EXCEPT ![i] = c]

\* CardStore.update finds no deleted card.
update(i, c) ==
    IF card[i].row = "live" THEN card' = [card EXCEPT ![i] = c]
    ELSE UNCHANGED card

\* The columns a create does not take.
WriteLabels(p) ==
    /\ At(p, "labels")
    /\ LET i == pass[p].issue
       IN  update(i, [card[i] EXCEPT !.labels = pass[p].listed[i].updated])
    /\ Becomes(p, Over(p, pass[p].issue))
    /\ UNCHANGED <<external, state, backoff, reported, incidents>>

WriteChanges(p) ==
    /\ At(p, "update")
    /\ LET i == pass[p].issue
       IN  update(i, _changes_for(card[i], pass[p].snap, pass[p].listed[i]))
    /\ Becomes(p, Over(p, pass[p].issue))
    /\ UNCHANGED <<external, state, backoff, reported, incidents>>

\* One issue cannot be written: it is skipped, and counted as skipped.
SkipIssue(p) ==
    /\ pass[p].pc \in {"create", "labels", "update"}
    /\ Incident
    /\ Becomes(p, Over(p, pass[p].issue))
    /\ reported' = TRUE
    /\ UNCHANGED <<external, card, state, backoff>>

\* Mutant: the watermark is the newest update seen, with no overlap.
watermark_at_newest(me) == IF me.newest # Never THEN me.newest ELSE me.since

_next_watermark(me) == IF me.newest # Never THEN me.newest - Overlap ELSE me.since

set_watermark(p) ==
    /\ At(p, "next")
    /\ Listed(p) = {}
    /\ watermark' = IF _next_watermark(pass[p]) = Never THEN watermark
                    ELSE _next_watermark(pass[p])
    /\ Becomes(p, Idle)
    /\ record_ok(p)
    /\ UNCHANGED <<external, card, lease, reported, incidents>>

\* A restart forgets the pass and, in a poller, the back-off.
Crash(p) ==
    /\ ~At(p, "idle")
    /\ Interrupts \/ pass[p].since # Never \/ pass[p].pc \in {"claim", "start", "fetch"}
    /\ Incident
    /\ Becomes(p, Idle)
    /\ record_ok(p)
    /\ UNCHANGED <<external, card, state, reported>>

-----------------------------------------------------------------------------
(* The host and the board.                                                 *)

\* An issue is filed, edited, closed or reopened.
Touch(i, open) ==
    /\ host[i].updated < now
    /\ host' = [host EXCEPT ![i] = [updated |-> now, open |-> open]]
    /\ UNCHANGED <<now, shown, card, state, pass, backoff, reported, incidents>>

\* The host's listing catches up.
Show(i) ==
    /\ shown[i] # host[i]
    /\ shown' = [shown EXCEPT ![i] = host[i]]
    /\ UNCHANGED <<now, host, card, state, pass, backoff, reported, incidents>>

Tick ==
    /\ now < MaxTime
    /\ \A i \in Issues : shown[i] # host[i] => now < host[i].updated + Lag
    /\ now' = now + 1
    /\ UNCHANGED <<host, shown, card, state, pass, backoff, reported, incidents>>

\* A dispatch puts the card into the factory.
Dispatch(i) ==
    /\ card[i].row = "live"
    /\ Incident
    /\ ~card[i].entered
    /\ card' = [card EXCEPT ![i].entered = TRUE, ![i].status = "in_progress"]
    /\ UNCHANGED <<external, state, pass, backoff, reported>>

\* A soft delete.
delete(i) ==
    /\ card[i].row = "live"
    /\ Incident
    /\ card' = [card EXCEPT ![i].row = "deleted"]
    /\ UNCHANGED <<external, state, pass, backoff, reported>>

-----------------------------------------------------------------------------
(* Specification.                                                          *)

Init ==
    /\ now = FirstTick
    /\ host = Nothing
    /\ shown = Nothing
    /\ card = [i \in Issues |-> NoCard]
    /\ watermark = Never
    /\ lease = FALSE
    /\ pass = [p \in Importers |-> Idle]
    /\ failures = [p \in Pollers |-> 0]
    /\ skip = [p \in Pollers |-> 0]
    /\ reported = FALSE
    /\ incidents = 0

\* The steps of an importer that is neither idle nor failing.
Proceed(p) ==
    \/ claim_import_lease(p) \/ get_watermark(p)
    \/ \E limit \in Limits : fetch_issues(p, limit)
    \/ (\E i \in Issues : get_by_issue_ref(p, i)) \/ create(p) \/ WriteLabels(p) \/ WriteChanges(p)
    \/ set_watermark(p)

Fail(p) ==
    \/ \E refused \in BOOLEAN : FetchFails(p, refused)
    \/ SkipIssue(p)
    \/ Crash(p)

Environment ==
    \/ \E i \in Issues :
          (\E open \in BOOLEAN : Touch(i, open)) \/ Show(i) \/ Dispatch(i) \/ delete(i)
    \/ Tick

Next ==
    \/ \E p \in Pollers : due(p)
    \/ \E p \in Manual, full \in FullChoices : import_cards(p, full)
    \/ \E p \in Importers : Proceed(p) \/ Fail(p)
    \/ LeaseExpires
    \/ Environment

Spec == Init /\ [][Next]_vars

\* Every replica keeps polling, a pass that has begun goes on, a lease runs
\* out, and the listing catches up.  Nobody has to press "Sync now".
FairSpec ==
    /\ Spec
    /\ \A p \in Pollers : WF_vars(due(p)) /\ SF_vars(claim_import_lease(p))
    /\ \A p \in Importers : WF_vars(Proceed(p))
    /\ WF_vars(LeaseExpires)
    /\ \A i \in Issues : WF_vars(Show(i))

-----------------------------------------------------------------------------
(* Properties.                                                             *)

TypeOK ==
    /\ now \in Stamps
    /\ host \in [Issues -> Issue]
    /\ shown \in [Issues -> Issue]
    /\ card \in [Issues -> Card]
    /\ watermark \in Watermarks
    /\ watermark < now
    /\ lease \in BOOLEAN
    /\ pass \in [Importers -> Pass]
    /\ failures \in [Pollers -> Nat]
    /\ skip \in [Pollers -> 0 .. MaxBackoff]
    /\ reported \in BOOLEAN
    /\ incidents \in 0 .. MaxIncidents

\* The board shows issue i as it is, or rightly does not show it: its card
\* was deleted, or it was closed before it was ever read.
UpToDate(i) ==
    \/ host[i] = NotFiled
    \/ card[i].row = "deleted"
    \/ card[i].row = "none" /\ ~host[i].open
    \/ /\ card[i].row = "live"
       /\ card[i].fields = host[i].updated
       /\ card[i].labels = host[i].updated

\* What the board does not show, the next pass asks for: no change of an
\* issue is left behind by the watermark, unless a pass said that it left
\* something out.
NothingFallsBehind ==
    reported \/ watermark = Never
        \/ \A i \in Issues : UpToDate(i) \/ host[i].updated >= watermark

\* A lease is held by one poller at a time (claim_import_lease compares).
OnePollerPerLease ==
    \A p, q \in Pollers : InPass(p) /\ InPass(q) => p = q

\* A card taken off the board stays off and is not written again, whatever
\* passes are under way.
DeletedStays ==
    [][\A i \in Issues : card[i].row = "deleted" => card'[i] = card[i]]_vars

\* Once the host is quiet, polling alone brings the board up to date.
BoardConverges == <>[](reported \/ \A i \in Issues : UpToDate(i))

=============================================================================
