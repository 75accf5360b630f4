----------------------------- MODULE CardIntake -----------------------------
(***************************************************************************)
(* One planning card, the threads that handle requests and events about    *)
(* it, and the three factories it is dispatched to (card_intake.py).       *)
(*                                                                         *)
(* Handlers run in a thread pool, and every CardStore method is a short    *)
(* transaction of its own, so a handler is a sequence of atomic steps: it  *)
(* reads the card, calls a factory over HTTP, and writes back fields it    *)
(* computed from the card it read.  A thread is a record: the step it is   *)
(* at (pc), the copy of the card it holds (snap), the stage it is sending, *)
(* the answer it got, and, for an event, the key and the work item that    *)
(* the event ingress handed to apply_status.                               *)
(***************************************************************************)
EXTENDS Naturals, Sequences

CONSTANTS
    Workers,        \* the threads handling requests and events
    Answers,        \* what an intake door may answer as a key; NoKey is none
    StatusChoices,  \* the statuses a PATCH writes
    TierChoices,    \* the tiers a PATCH writes
    Channels,       \* the ways an event arrives: POST /api/events, WS relay
    MaxRuns,        \* bound: how many dispatches the factories accept
    LostAnswers,    \* may a factory accept a dispatch whose answer is lost?
    Reports,        \* what a factory reports of a run it has not finished
    Polls,          \* do the poll loops write work items too?
    Crashes,        \* may the process restart?
    ProjectEdits    \* may the intake project be set and cleared?

ASSUME BoundsAssumption == MaxRuns \in Nat
ASSUME SwitchAssumption ==
    {LostAnswers, Polls, Crashes, ProjectEdits} \subseteq BOOLEAN

VARIABLES
    card,       \* the row of the cards table
    project,    \* is an AIFactory project configured?
    runs,       \* what the factories accepted, in order
    net,        \* events on their way to the cockpit
    slices,     \* the work items: correlation key -> stage -> status
    worker      \* the state of every thread

vars == <<card, project, runs, net, slices, worker>>

-----------------------------------------------------------------------------
(* Vocabulary.                                                             *)

NoKey == "no key"
CardKey == "card key"
NoTier == "no tier"
Absent == "absent"

SEQUENCE == <<"plan", "code", "test">>
Stages == {"plan", "code", "test"}
Tiers == {"low", "medium", "hard", NoTier}
Statuses == {"backlog", "ready", "in_progress", "blocked", "done"}
StageStatus == {Absent, "queued", "dispatched", "done", "failed"}

\* A work item's stage slice, up to what the classifiers tell apart.
SliceStatus == {Absent, "active", "stuck", "failed", "done"}
is_failure_or_stuck == {"failed", "stuck"}

ASSUME ChoicesAssumption ==
    /\ StatusChoices \subseteq Statuses
    /\ TierChoices \subseteq Tiers
    /\ Reports \subseteq {"active", "stuck"}

\* The keys a work item of this card may be threaded on.
Keys == (Answers \ {NoKey}) \cup {CardKey}

Card == [status: Statuses, tier: Tiers, key: Keys \cup {NoKey},
         runs: [Stages -> StageStatus], live: BOOLEAN]

Run == [stage: Stages, key: Keys, state: {"running", "done", "failed"}]

Message == [run: 1 .. MaxRuns, status: SliceStatus \ {Absent},
            channel: Channels]

NoSlices == [s \in Stages |-> Absent]

BlankCard == [status |-> "backlog", tier |-> NoTier, key |-> NoKey,
              runs |-> NoSlices, live |-> TRUE]

Steps == {"idle", "refused", "no project", "queue", "send", "sent", "apply",
          "settle", "block", "reread", "status"}

\* ok is the verdict on the HTTP call, ref the key its body carried.
Worker == [pc: Steps, snap: Card, stage: Stages, ok: BOOLEAN,
           ref: Keys \cup {NoKey}, key: Keys \cup {NoKey},
           item: [Stages -> SliceStatus]]

Idle == [pc |-> "idle", snap |-> BlankCard, stage |-> "plan", ok |-> FALSE,
         ref |-> NoKey, key |-> NoKey, item |-> NoSlices]

TypeOK ==
    /\ card \in Card
    /\ project \in BOOLEAN
    /\ runs \in Seq(Run)
    /\ Len(runs) <= MaxRuns
    /\ net \subseteq Message
    /\ \A m \in net : m.run <= Len(runs)
    /\ slices \in [Keys -> [Stages -> SliceStatus]]
    /\ worker \in [Workers -> Worker]

-----------------------------------------------------------------------------
(* Reading a card.                                                         *)

default_stage(c) == IF c.tier = "hard" THEN "plan" ELSE "code"

InState(c, st) == {s \in Stages : c.runs[s] = st}

\* Mutant: only a queued stage is owed, one in flight is forgotten.
pending_but_running(c) == InState(c, "queued")

pending_stages(c) == InState(c, "queued") \cup InState(c, "dispatched")

\* The first stage of the sequence that is in S.
First(S) == SEQUENCE[CHOOSE i \in 1 .. 3 :
                        /\ SEQUENCE[i] \in S
                        /\ \A j \in 1 .. (i - 1) : SEQUENCE[j] \notin S]

\* Mutant: rule 3 asks for a key but not for a completed code stage.
refuse_without_build(c, s, prj) ==
    \/ c.tier = NoTier
    \/ c.runs[s] = "dispatched"
    \/ s = "test" /\ c.key = NoKey
    \/ s # "plan" /\ ~prj

\* The refusals of an explicit stage action, prj the project it read.
refuse_reason(c, s, prj) ==
    \/ c.tier = NoTier
    \/ c.runs[s] = "dispatched"
    \/ s = "test" /\ (c.key = NoKey \/ c.runs["code"] # "done")
    \/ s # "plan" /\ ~prj

\* prepare_stage builds a payload unless the stage needs a project.
prepare_stage(s, prj) == s = "plan" \/ prj

\* Mutant: the work item's own status is written to the board.
status_uncollapsed(item, remaining) ==
    IF item["code"] # Absent THEN item["code"] ELSE item["plan"]

\* Mutant: a finished plan counts as a verdict.
status_plan_is_verdict(item, remaining) ==
    IF item["plan"] = "done" /\ ~remaining THEN "done" ELSE "in_progress"

\* The board column a work item puts its card in; Absent leaves it.
card_status_for(item, remaining) ==
    LET reported == {s \in Stages : item[s] # Absent}
        furthest == CHOOSE s \in reported :
                        \/ s = "test"
                        \/ s = "code" /\ "test" \notin reported
                        \/ s = "plan" /\ reported = {"plan"}
    IN  IF reported = {} THEN Absent
        ELSE IF item[furthest] \in is_failure_or_stuck THEN "blocked"
        ELSE IF item[furthest] = "done" /\ ~remaining /\ furthest # "plan"
             THEN "done"
        ELSE "in_progress"

\* Mutant: one finished slice settles every stage in flight.
settled_by_any_slice(c, item) ==
    [s \in Stages |->
        IF c.runs[s] = "dispatched" /\ \E t \in Stages : item[t] = "done"
        THEN "done" ELSE c.runs[s]]

\* Mutant: a queued stage is settled like one in flight.
settled_when_queued(c, item) ==
    [s \in Stages |->
        IF c.runs[s] \in {"queued", "dispatched"} /\ item[s] = "done"
        THEN "done" ELSE c.runs[s]]

\* Mutant: only failures are settled.
settled_failures_only(c, item) ==
    [s \in Stages |->
        IF c.runs[s] = "dispatched" /\ item[s] \in is_failure_or_stuck
        THEN "failed" ELSE c.runs[s]]

\* What _settle makes of the in-flight records, given the work item.
settled(c, item) ==
    [s \in Stages |->
        IF c.runs[s] # "dispatched" THEN c.runs[s]
        ELSE IF item[s] \in is_failure_or_stuck THEN "failed"
        ELSE IF item[s] = "done" THEN "done"
        ELSE "dispatched"]

-----------------------------------------------------------------------------
(* Writing a card: CardStore.update touches the named fields of a card     *)
(* that is still on the board, and nothing of a deleted one.               *)

update(c) == card' = IF card.live THEN c ELSE card

\* _write_runs answers the row as written, or the copy the caller had.
written(c, snap) == IF card.live THEN c ELSE snap

At(w, step) == worker[w].pc = step

Becomes(w, record) == worker' = [worker EXCEPT ![w] = record]

-----------------------------------------------------------------------------
(* Where a handler goes next.                                              *)

IsEvent(me) == me.key # NoKey

\* A dispatch that ends without a call: a request answers, an event goes on.
Ended(me, c) ==
    IF IsEvent(me) THEN [me EXCEPT !.pc = "reread", !.snap = c] ELSE Idle

dispatch_stage(me, c, s) ==
    IF c.runs[s] = "done" THEN Ended(me, c)
    ELSE IF refuse_reason(c, s, project) THEN
        IF IsEvent(me) THEN Ended(me, c) ELSE [Idle EXCEPT !.pc = "refused"]
    ELSE [me EXCEPT !.pc = "send", !.snap = c, !.stage = s]

dispatch_card(c) ==
    LET s == default_stage(c)
    IN  IF c.runs[s] \in {"dispatched", "done"} THEN Idle
        ELSE IF ~prepare_stage(s, project) THEN [Idle EXCEPT !.pc = "no project"]
        ELSE [Idle EXCEPT !.pc = "send", !.snap = c, !.stage = s]

maybe_dispatch(c) ==
    IF c.status = "ready" /\ c.tier # NoTier THEN dispatch_card(c) ELSE Idle

\* Mutant: the event settles the stage and leaves the queue to a press.
advance_by_hand(me, c) ==
    [me EXCEPT !.snap = c,
               !.pc = IF InState(c, "failed") # {} THEN "block" ELSE "status"]

_advance(me, c) ==
    LET to == [me EXCEPT !.snap = c]
        queued == InState(c, "queued")
    IN  IF InState(c, "dispatched") # {} THEN [to EXCEPT !.pc = "status"]
        ELSE IF InState(c, "failed") # {} THEN [to EXCEPT !.pc = "block"]
        ELSE IF queued = {} THEN [to EXCEPT !.pc = "status"]
        ELSE dispatch_stage(me, c, First(queued))

-----------------------------------------------------------------------------
(* Requests about the card.                                                *)

\* PATCH: write the columns, then run the intake hook on the row written.
update_card(w, st, tier) ==
    /\ At(w, "idle")
    /\ card.live
    /\ LET c == [card EXCEPT !.status = st, !.tier = tier]
       IN  card' = c /\ Becomes(w, maybe_dispatch(c))
    /\ UNCHANGED <<project, runs, net, slices>>

\* dispatch_card with no project: the card is blocked, nothing is sent.
BlockForNoProject(w) ==
    /\ At(w, "no project")
    /\ update([card EXCEPT !.status = "blocked"])
    /\ Becomes(w, Idle)
    /\ UNCHANGED <<project, runs, net, slices>>

\* The plan, code and test buttons: read the card, check, and go to send.
run_card_stage(w, s) ==
    /\ At(w, "idle")
    /\ card.live
    /\ Becomes(w, dispatch_stage(Idle, card, s))
    /\ UNCHANGED <<card, project, runs, net, slices>>

\* The run button: read the card and decide what the sequence owes.
run_card_sequence(w) ==
    /\ At(w, "idle")
    /\ card.live
    /\ Becomes(w, IF card.tier = NoTier \/ InState(card, "dispatched") # {}
                  THEN [Idle EXCEPT !.pc = "refused"]
                  ELSE IF InState(card, "done") = Stages THEN Idle
                  ELSE [Idle EXCEPT !.pc = "queue", !.snap = card])
    /\ UNCHANGED <<card, project, runs, net, slices>>

\* start_sequence queues every stage that is not done, then sends the first.
start_sequence(w) ==
    /\ At(w, "queue")
    /\ LET snap == worker[w].snap
           todo == Stages \ InState(snap, "done")
           queued == [s \in Stages |->
                         IF s \in todo THEN "queued" ELSE snap.runs[s]]
           c == [card EXCEPT !.runs = queued]
       IN  /\ update(c)
           /\ Becomes(w, dispatch_stage(Idle, written(c, snap), First(todo)))
    /\ UNCHANGED <<project, runs, net, slices>>

\* The 409 of a refused action.
Refuse(w) ==
    /\ At(w, "refused")
    /\ Becomes(w, Idle)
    /\ UNCHANGED <<card, project, runs, net, slices>>

\* DELETE tombstones the row.
delete_card(w) ==
    /\ At(w, "idle")
    /\ card.live
    /\ card' = [card EXCEPT !.live = FALSE]
    /\ UNCHANGED <<project, runs, net, slices, worker>>

-----------------------------------------------------------------------------
(* _send: the HTTP call, then the dispatch record.                         *)

Answered(w, ok, ref) ==
    Becomes(w, [worker[w] EXCEPT !.pc = "sent", !.ok = ok, !.ref = ref])

\* A door accepts the stage.  A body without a key leaves the work item on
\* the card's own key, and the answer itself may time out.
Accept(w, ref) ==
    /\ At(w, "send")
    /\ Len(runs) < MaxRuns
    /\ runs' = Append(runs, [stage |-> worker[w].stage,
                             key |-> IF ref = NoKey THEN CardKey ELSE ref,
                             state |-> "running"])
    /\ \/ Answered(w, TRUE, ref)
       \/ LostAnswers /\ Answered(w, FALSE, NoKey)
    /\ UNCHANGED <<card, project, net, slices>>

\* A door answers an error, or cannot be reached.
Reject(w) ==
    /\ At(w, "send")
    /\ Answered(w, FALSE, NoKey)
    /\ UNCHANGED <<card, project, runs, net, slices>>

\* Mutant: the answer's key is ignored.
join_own_key(snap, ref) == IF snap.key # NoKey THEN snap.key ELSE CardKey

\* The first stage to land names the key, every later one threads it.
join_key(snap, ref) ==
    IF snap.key # NoKey THEN snap.key
    ELSE IF ref # NoKey THEN ref ELSE CardKey

\* Mutant: the dispatch is recorded whatever the door answered.
send_unchecked(me) ==
    [card EXCEPT !.runs = [me.snap.runs EXCEPT ![me.stage] = "dispatched"],
                 !.key = join_key(me.snap, me.ref),
                 !.status = "in_progress"]

\* The record the call leaves: fields of the copy read before it.
_send(me) ==
    IF me.ok
    THEN [card EXCEPT !.runs = [me.snap.runs EXCEPT ![me.stage] = "dispatched"],
                      !.key = join_key(me.snap, me.ref),
                      !.status = "in_progress"]
    ELSE [card EXCEPT !.runs = [me.snap.runs EXCEPT ![me.stage] = "failed"],
                      !.status = "blocked"]

Record(w) ==
    /\ At(w, "sent")
    /\ update(_send(worker[w]))
    /\ Becomes(w, Ended(worker[w], worker[w].snap))
    /\ UNCHANGED <<project, runs, net, slices>>

-----------------------------------------------------------------------------
(* The event ingress: upsert_from_event, then apply_status in a call of    *)
(* its own with the work item the first one returned.                      *)

\* A redelivery of a recorded id changes nothing and has no action here.
ingest(w, m) ==
    /\ At(w, "idle")
    /\ m \in net
    /\ net' = net \ {m}
    /\ LET r == runs[m.run]
           item == [slices[r.key] EXCEPT ![r.stage] = m.status]
       IN  /\ slices' = [slices EXCEPT ![r.key] = item]
           /\ Becomes(w, [Idle EXCEPT !.pc = "apply", !.key = r.key,
                                      !.item = item])
    /\ UNCHANGED <<card, project, runs>>

\* apply_status looks the card up by key and, with nothing to settle, goes
\* straight on to advance the sequence.
apply_status(w) ==
    /\ At(w, "apply")
    /\ LET me == worker[w]
       IN  Becomes(w, IF ~card.live \/ card.key # me.key THEN Idle
                      ELSE IF settled(card, me.item) # card.runs
                      THEN [me EXCEPT !.pc = "settle", !.snap = card]
                      ELSE _advance(me, card))
    /\ UNCHANGED <<card, project, runs, net, slices>>

_settle(w) ==
    /\ At(w, "settle")
    /\ LET me == worker[w]
           c == [card EXCEPT !.runs = settled(me.snap, me.item)]
       IN  update(c) /\ Becomes(w, _advance(me, written(c, me.snap)))
    /\ UNCHANGED <<project, runs, net, slices>>

\* _advance on a failed stage.
BlockSequence(w) ==
    /\ At(w, "block")
    /\ LET c == [card EXCEPT !.status = "blocked"]
           me == worker[w]
       IN  /\ update(c)
           /\ Becomes(w, [me EXCEPT !.pc = "status",
                                    !.snap = written(c, me.snap)])
    /\ UNCHANGED <<project, runs, net, slices>>

\* _advance reads the card again after it dispatched.
Reread(w) ==
    /\ At(w, "reread")
    /\ Becomes(w, [worker[w] EXCEPT !.pc = "status",
                                    !.snap = written(card, @)])
    /\ UNCHANGED <<card, project, runs, net, slices>>

WriteStatus(w) ==
    /\ At(w, "status")
    /\ LET me == worker[w]
           st == card_status_for(me.item, pending_stages(me.snap) # {})
       IN  IF st \in {Absent, me.snap.status} THEN UNCHANGED card
           ELSE update([card EXCEPT !.status = st])
    /\ Becomes(w, Idle)
    /\ UNCHANGED <<project, runs, net, slices>>

-----------------------------------------------------------------------------
(* The factories, the poll loops and the host.  An event that is lost is   *)
(* one that stays in net and is never ingested.                            *)

Emit(r, st) ==
    net' = net \cup {[run |-> r, status |-> st, channel |-> ch] : ch \in Channels}

\* A factory reports progress, or that the run looks stuck.
Progress(r, st) ==
    /\ runs[r].state = "running"
    /\ Emit(r, st)
    /\ UNCHANGED <<card, project, runs, slices, worker>>

Finish(r, outcome) ==
    /\ runs[r].state = "running"
    /\ runs' = [runs EXCEPT ![r].state = outcome]
    /\ Emit(r, outcome)
    /\ UNCHANGED <<card, project, slices, worker>>

\* A poll writes the slice from a listing, which may be a step behind, and
\* blanks a live slice the listing no longer names.  It touches no card.
Poll(r, st) ==
    /\ Polls
    /\ st \in {"active", runs[r].state, Absent} \ {"running"}
    /\ st = Absent => slices[runs[r].key][runs[r].stage] \in {"active", Absent}
    /\ slices' = [slices EXCEPT ![runs[r].key][runs[r].stage] = st]
    /\ UNCHANGED <<card, project, runs, net, worker>>

SetProject(b) ==
    /\ ProjectEdits
    /\ project' = b
    /\ UNCHANGED <<card, runs, net, slices, worker>>

\* A restart forgets every handler between two of its steps.
Crash ==
    /\ Crashes
    /\ worker' = [w \in Workers |-> Idle]
    /\ UNCHANGED <<card, project, runs, net, slices>>

-----------------------------------------------------------------------------
(* Specification.                                                          *)

Init ==
    /\ card \in {[BlankCard EXCEPT !.tier = t] : t \in TierChoices}
    /\ project \in IF ProjectEdits THEN BOOLEAN ELSE {TRUE}
    /\ runs = <<>>
    /\ net = {}
    /\ slices = [k \in Keys |-> NoSlices]
    /\ worker = [w \in Workers |-> Idle]

Request(w) ==
    \/ \E st \in StatusChoices, t \in TierChoices : update_card(w, st, t)
    \/ \E s \in Stages : run_card_stage(w, s)
    \/ run_card_sequence(w)
    \/ delete_card(w)

\* The next step of a handler that has started.
Continue(w) ==
    \/ BlockForNoProject(w) \/ start_sequence(w) \/ Refuse(w)
    \/ (\E ref \in Answers : Accept(w, ref)) \/ Reject(w) \/ Record(w)
    \/ apply_status(w) \/ _settle(w) \/ BlockSequence(w)
    \/ Reread(w) \/ WriteStatus(w)

Upstream ==
    \E r \in 1 .. Len(runs) :
        \/ \E st \in Reports : Progress(r, st)
        \/ \E outcome \in {"done", "failed"} : Finish(r, outcome)
        \/ \E st \in SliceStatus : Poll(r, st)

Next ==
    \/ \E w \in Workers : Request(w) \/ Continue(w)
    \/ \E w \in Workers, m \in net : ingest(w, m)
    \/ Upstream
    \/ \E b \in BOOLEAN : SetProject(b)
    \/ Crash

Spec == Init /\ [][Next]_vars

-----------------------------------------------------------------------------
(* Fairness: a started handler runs on (no step of one waits for another), *)
(* the thread pool is a queue, so an event that keeps finding threads free *)
(* is eventually served, and, of the factories, that a run ends.           *)

Fairness ==
    /\ \A w \in Workers : WF_vars(Continue(w))
    /\ \A r \in 1 .. MaxRuns :
          /\ WF_vars(r <= Len(runs) /\ \E o \in {"done", "failed"} : Finish(r, o))
          /\ \A m \in {x \in Message : x.run = r /\ x.status \in {"done", "failed"}} :
                SF_vars(\E w \in Workers : ingest(w, m))

FairSpec == Spec /\ Fairness

-----------------------------------------------------------------------------
(* Properties that hold however handlers, events and restarts interleave.  *)

Completed(s) ==
    \E i \in 1 .. Len(runs) : runs[i].stage = s /\ runs[i].state = "done"

\* TFactory is never asked to verify a card whose build did not complete:
\* every accepted test run comes after a code run that finished (rule 3 of
\* refuse_reason), though the rule is checked on a copy of a record that was
\* settled from a copy of a work item.
TestHasBuild ==
    \A i \in 1 .. Len(runs) : runs[i].stage = "test" =>
        \E j \in 1 .. (i - 1) :
            runs[j].stage = "code" /\ runs[j].state = "done"

\* A stage the board records as done was done by a run of that stage that
\* finished: no stale copy, no other stage's event makes up a completion.
DoneIsReal == \A s \in Stages : card.runs[s] = "done" => Completed(s)

\* A stage recorded in flight was accepted by its factory, and the key the
\* card is joined on is the key of an accepted dispatch.
JoinIsReal ==
    /\ \A s \in Stages : card.runs[s] = "dispatched" =>
          \E i \in 1 .. Len(runs) : runs[i].stage = s
    /\ card.key # NoKey => \E i \in 1 .. Len(runs) : runs[i].key = card.key

\* The write-back at the end of an event is the step a thread takes when it
\* leaves "status".
WritesBack(w) == At(w, "status") /\ worker'[w].pc # "status"

\* The write-back calls a card done only on the verdict of a build or of a
\* verification that finished, never on a finished plan (card_status_for).
DoneIsAVerdict ==
    [][\A w \in Workers :
          (WritesBack(w) /\ card.status # "done" /\ card'.status = "done")
             => Completed("code") \/ Completed("test")]_vars

-----------------------------------------------------------------------------
(* Properties of a board whose handlers do not overlap (one worker).       *)

\* The dispatch records keep the promises of StageLedger.
Ledger == INSTANCE StageLedger WITH record <- card.runs, key <- card.key
KeepsLedger == Ledger!Spec

\* The write-back never shows done while a stage is queued or in flight: a
\* sequenced card is not done before its last stage.
NeverDoneWhileOwed ==
    [][\A w \in Workers :
          (WritesBack(w) /\ card.status # "done" /\ card'.status = "done")
             => \A s \in Stages :
                    card'.runs[s] \notin {"queued", "dispatched"}]_vars

\* A stage in flight can be settled: its factory reports on the key the card
\* is joined on.
StageJoined ==
    \A s \in Stages : card.runs[s] = "dispatched" =>
        \E i \in 1 .. Len(runs) : runs[i].stage = s /\ runs[i].key = card.key

\* A dispatched stage is eventually settled from the event stream.
StageSettles ==
    \A s \in Stages : []<>(~card.live \/ card.runs[s] # "dispatched")

\* A queued stage goes out once the stages before it have landed, unless one
\* of them failed: the sequence needs no press but the first.
SequenceAdvances ==
    \A s \in Stages :
        []<>(\/ ~card.live
             \/ card.runs[s] # "queued"
             \/ InState(card, "failed") # {})

=============================================================================
