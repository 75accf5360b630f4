----------------------------- MODULE GitHubSync -----------------------------
(* The issue hook of a card write (github_sync.py, card_ops.py) beside the    *)
(* import of the same repository (issue_import.py).  A write to a card is a   *)
(* transaction, a call to the host, a second transaction that mirrors the     *)
(* answer, and then the intake; the index that allows one card per issue is   *)
(* all that orders them.                                                      *)
EXTENDS Integers, FiniteSets

CONSTANTS
    Workers,
    MaxCard,      \* cards ever made
    MaxIssue,     \* issues ever opened on the host
    Titles,
    Projects,     \* may the tenant name a project to open issues in?
    MaxMishaps,   \* overlapping requests, restarts and lost answers
    MaxRequests,  \* requests and import passes of a behaviour
    MaxEdits      \* what people and the factory change beside them

ASSUME Bounds == MaxCard \in Nat \ {0} /\ MaxIssue \in Nat /\ {MaxMishaps, MaxRequests, MaxEdits} \subseteq Nat

Cards == 1..MaxCard
Issues == 1..MaxIssue
NoIssue == 0
NoTitle == "no title"

ASSUME TitleChoices == Projects \subseteq BOOLEAN /\ NoTitle \notin Titles

Statuses == {"backlog", "ready", "in_progress", "done"}

VARIABLES
    card,      \* the rows of the board
    issue,     \* the issues of the host
    opened,    \* the issues opened for each card; history
    worker,    \* the requests and passes under way
    project,   \* does the tenant name a project?
    mishaps,
    spent      \* requests and edits so far

vars == <<card, issue, opened, worker, project, mishaps, spent>>

\* title stands for every mirrored field but the state, joined for a correlation
\* key or a stage run, in_progress for blocked too.
Row == [there : {"free", "live", "deleted"}, ref : Issues \cup {NoIssue}, title : Titles \cup {NoTitle},
        status : Statuses, error : BOOLEAN, joined : BOOLEAN]
Issue == [state : {"absent", "open", "closed"}, title : Titles \cup {NoTitle}]

Labels == {"idle", "open", "fetch", "mirror", "failed", "intake", "upsert", "write"}
\* copy is the card a handler holds and seen the host's answer; asked tells the
\* sync somebody asked for, which has no intake behind it.
Worker == [at : Labels, card : Cards, copy : Row, ref : Issues \cup {NoIssue}, seen : Issue,
           asked : BOOLEAN]

Free == [there |-> "free", ref |-> NoIssue, title |-> NoTitle, status |-> "backlog",
         error |-> FALSE, joined |-> FALSE]
Absent == [state |-> "absent", title |-> NoTitle]
Idle == [at |-> "idle", card |-> 1, copy |-> Free, ref |-> NoIssue, seen |-> Absent,
         asked |-> FALSE]

-----------------------------------------------------------------------------
(* Rows and the index on (tenant, issue).                                    *)

Live(c) == card[c].there = "live"

\* Mutant: a deleted card is not looked at.
Holds_live(c, n) == n # NoIssue /\ card[c].there = "live" /\ card[c].ref = n

Holds(c, n) == n # NoIssue /\ card[c].there # "free" /\ card[c].ref = n

get_by_issue_ref(n) == {c \in Cards : Holds(c, n)}
Taken(c, n) == \E d \in Cards \ {c} : Holds(d, n)

\* A deleted card keeps its key too.
_next_card_key == 1 + Cardinality({c \in Cards : card[c].there # "free"})

\* The fields that differ from the copy the caller holds are written.
Changed(c, copy, want) ==
    [f \in DOMAIN want |-> IF copy[f] = want[f] THEN card[c][f] ELSE want[f]]

At(w, label) == worker[w].at = label
Quiet == \A w \in Workers : At(w, "idle")

Go(w, next) == worker' = [worker EXCEPT ![w] = IF next.at = "idle" THEN Idle ELSE next]
GoTo(w, label) == Go(w, [worker[w] EXCEPT !.at = label])

Mishap == mishaps < MaxMishaps /\ mishaps' = mishaps + 1

Begin(w, start) ==
    /\ At(w, "idle")
    /\ spent.requests < MaxRequests
    /\ spent' = [spent EXCEPT !.requests = @ + 1]
    /\ IF Quiet THEN UNCHANGED mishaps ELSE Mishap
    /\ Go(w, start)

Edit == spent.edits < MaxEdits /\ spent' = [spent EXCEPT !.edits = @ + 1]

-----------------------------------------------------------------------------
(* Writing a card, and where its hook goes from there.                       *)

\* Mutant: a card that carries an issue opens another one.
sync_card_anew(copy) == IF project THEN "open" ELSE "failed"

\* A card that carries an issue is never given another one.
sync_card(copy) ==
    IF copy.ref # NoIssue THEN "fetch" ELSE IF project THEN "open" ELSE "failed"

maybe_sync(copy) ==
    IF copy.ref = NoIssue /\ ~(copy.status = "ready" /\ project) THEN "intake"
    ELSE sync_card(copy)

create_card(w, row) ==
    LET c == _next_card_key
    IN  /\ c \in Cards
        /\ ~Taken(c, row.ref)
        /\ card' = [card EXCEPT ![c] = row]
        /\ Begin(w, [Idle EXCEPT !.at = maybe_sync(row), !.card = c, !.copy = row])
        /\ UNCHANGED <<issue, opened, project>>

\* An update that would point two cards at one issue is refused.
update_card(w, c, row) ==
    /\ Live(c)
    /\ ~Taken(c, row.ref)
    /\ card' = [card EXCEPT ![c] = row]
    /\ Begin(w, [Idle EXCEPT !.at = maybe_sync(row), !.card = c, !.copy = row])
    /\ UNCHANGED <<issue, opened, project>>

sync_card_github(w, c) ==
    /\ Live(c)
    /\ Begin(w, [Idle EXCEPT !.at = sync_card(card[c]), !.card = c, !.copy = card[c], !.asked = TRUE])
    /\ UNCHANGED <<card, issue, opened, project>>

\* What is left is its key and its issue.
delete_card(c) ==
    /\ Live(c)
    /\ Edit
    /\ IF Quiet THEN UNCHANGED mishaps ELSE Mishap
    /\ card' = [card EXCEPT ![c] = [Free EXCEPT !.there = "deleted", !.ref = card[c].ref]]
    /\ UNCHANGED <<issue, opened, worker, project>>

-----------------------------------------------------------------------------
(* The hook.                                                                 *)

Failed(w) == Go(w, [worker[w] EXCEPT !.at = "failed", !.ref = NoIssue, !.seen = Absent])

\* The host opens the issue and answers, or opens it and the answer is lost, or
\* does not open it.
_open_issue(w) ==
    /\ At(w, "open")
    /\ \/ \E n \in Issues :
             LET new == [state |-> "open", title |-> worker[w].copy.title]
             IN  /\ issue[n].state = "absent"
                 /\ \A m \in 1..(n - 1) : issue[m].state # "absent"
                 /\ issue' = [issue EXCEPT ![n] = new]
                 /\ opened' = [opened EXCEPT ![worker[w].card] = @ \cup {n}]
                 /\ \/ /\ Go(w, [worker[w] EXCEPT !.at = "mirror", !.ref = n, !.seen = new])
                       /\ UNCHANGED mishaps
                    \/ Failed(w) /\ Mishap
       \/ Failed(w) /\ UNCHANGED <<issue, opened, mishaps>>
    /\ UNCHANGED <<card, project, spent>>

\* A 404 marks the card like any other failure does.
_fetch_issue(w) ==
    /\ At(w, "fetch")
    /\ LET n == worker[w].copy.ref
       IN  \/ /\ issue[n].state # "absent"
              /\ Go(w, [worker[w] EXCEPT !.at = "mirror", !.ref = n, !.seen = issue[n]])
           \/ Failed(w)
    /\ UNCHANGED <<card, issue, opened, project, mishaps, spent>>

_status_for(state, status) ==
    IF state = "closed" THEN "done" ELSE IF status = "done" THEN "in_progress" ELSE status

_mirror(copy, n, seen) ==
    [copy EXCEPT !.ref = n, !.title = seen.title, !.error = FALSE,
                 !.status = _status_for(seen.state, copy.status)]

\* Mutant: what is known from before the sync goes into the intake.
_github_stale(w, row) ==
    IF worker[w].asked THEN GoTo(w, "idle") ELSE GoTo(w, "intake")

\* _github reads the card again, and keeps the one it has when that is gone.
_github(w, row) ==
    IF worker[w].asked THEN GoTo(w, "idle")
    ELSE Go(w, [worker[w] EXCEPT !.at = "intake",
                                 !.copy = IF row.there = "live" THEN row ELSE @])

\* A second card for the issue is refused and the failure marked on this one.
store_mirror(w) ==
    /\ At(w, "mirror")
    /\ LET c == worker[w].card
           n == worker[w].ref
           want == Changed(c, worker[w].copy, _mirror(worker[w].copy, n, worker[w].seen))
       IN  IF Taken(c, want.ref) /\ Live(c)
           THEN Failed(w) /\ UNCHANGED card
           ELSE LET row == IF Live(c) THEN want ELSE card[c]
                IN  card' = [card EXCEPT ![c] = row] /\ _github(w, row)
    /\ UNCHANGED <<issue, opened, project, mishaps, spent>>

mark_failed(w) ==
    /\ At(w, "failed")
    /\ LET c == worker[w].card
           row == [card[c] EXCEPT !.error = Live(c) \/ @]
       IN  card' = [card EXCEPT ![c] = row] /\ _github(w, row)
    /\ UNCHANGED <<issue, opened, project, mishaps, spent>>

\* maybe_dispatch: what a dispatch is made of is in CardIntake.
_intake(w) ==
    /\ At(w, "intake")
    /\ LET c == worker[w].card
           copy == worker[w].copy
       IN  card' = [card EXCEPT ![c] =
                      IF Live(c) /\ copy.status = "ready" /\ ~copy.joined
                      THEN [@ EXCEPT !.status = "in_progress", !.joined = TRUE] ELSE @]
    /\ GoTo(w, "idle")
    /\ UNCHANGED <<issue, opened, project, mishaps, spent>>

-----------------------------------------------------------------------------
(* One issue of an import pass.                                              *)

_import_one(w, n) ==
    /\ issue[n].state # "absent"
    /\ Begin(w, [Idle EXCEPT !.at = "upsert", !.ref = n, !.seen = issue[n]])
    /\ UNCHANGED <<card, issue, opened, project>>

\* An issue that a deleted card holds is left alone.
lookup(w) ==
    /\ At(w, "upsert")
    /\ LET found == get_by_issue_ref(worker[w].ref)
       IN  IF found = {} THEN GoTo(w, "write")
           ELSE LET c == CHOOSE c \in found : TRUE
                IN  IF Live(c) THEN Go(w, [worker[w] EXCEPT !.at = "write", !.card = c,
                                                            !.copy = card[c]])
                    ELSE GoTo(w, "idle")
    /\ UNCHANGED <<card, issue, opened, project, mishaps, spent>>

\* Never ready, whatever the host says.
imported_status(state) == IF state = "closed" THEN "done" ELSE "backlog"

\* A card the factory has touched keeps its status.
_changes_for(copy, seen) ==
    [copy EXCEPT !.title = seen.title, !.error = FALSE,
                 !.status = IF copy.joined THEN @ ELSE imported_status(seen.state)]

\* An insert that lost to another card starts over and finds it.
upsert(w) ==
    /\ At(w, "write")
    /\ LET copy == worker[w].copy
           n == worker[w].ref
           c == IF copy = Free THEN _next_card_key ELSE worker[w].card
           new == [Free EXCEPT !.there = "live", !.ref = n, !.title = worker[w].seen.title,
                               !.status = imported_status(worker[w].seen.state)]
       IN  \/ /\ copy = Free /\ get_by_issue_ref(n) # {}
              /\ GoTo(w, "upsert")
              /\ UNCHANGED card
           \/ /\ copy = Free /\ get_by_issue_ref(n) = {}
              /\ card' = IF c \in Cards THEN [card EXCEPT ![c] = new] ELSE card
              /\ GoTo(w, "idle")
           \/ /\ copy # Free
              /\ card' = [card EXCEPT ![c] =
                             IF Live(c) THEN Changed(c, copy, _changes_for(copy, worker[w].seen))
                             ELSE @]
              /\ GoTo(w, "idle")
    /\ UNCHANGED <<issue, opened, project, mishaps, spent>>

-----------------------------------------------------------------------------
(* Around it.                                                                *)

\* Somebody works on the issue at the host.
EditIssue(n, new) ==
    /\ issue[n].state # "absent"
    /\ new # issue[n]
    /\ Edit
    /\ issue' = [issue EXCEPT ![n] = new]
    /\ UNCHANGED <<card, opened, worker, project, mishaps>>

\* A run of the factory ends; its event is written back.
Finish(c) ==
    /\ Live(c)
    /\ card[c].joined
    /\ card[c].status = "in_progress"
    /\ Edit
    /\ IF Quiet THEN UNCHANGED mishaps ELSE Mishap
    /\ card' = [card EXCEPT ![c].status = "done"]
    /\ UNCHANGED <<issue, opened, worker, project>>

Restart ==
    /\ ~Quiet
    /\ Mishap
    /\ worker' = [w \in Workers |-> Idle]
    /\ UNCHANGED <<card, issue, opened, project, spent>>

Init ==
    /\ card = [c \in Cards |-> Free]
    /\ issue = [n \in Issues |-> Absent]
    /\ opened = [c \in Cards |-> {}]
    /\ worker = [w \in Workers |-> Idle]
    /\ project \in Projects
    /\ mishaps = 0
    /\ spent = [requests |-> 0, edits |-> 0]

Known == {n \in Issues : issue[n].state # "absent"}

\* What a person writes: an issue is adopted by its number and not let go of.
Write(w) ==
    \/ \E x \in Titles, s \in {"backlog", "ready"}, n \in Known \cup {NoIssue} :
          create_card(w, [Free EXCEPT !.there = "live", !.title = x, !.status = s, !.ref = n])
    \/ \E c \in Cards : \E x \in Titles, s \in {card[c].status, "backlog", "ready"}, n \in Known \cup {card[c].ref} :
          update_card(w, c, [card[c] EXCEPT !.title = x, !.status = s, !.ref = n])

Step(w) ==
    \/ _open_issue(w) \/ _fetch_issue(w)
    \/ store_mirror(w) \/ mark_failed(w) \/ _intake(w) \/ lookup(w) \/ upsert(w)

Next ==
    \/ \E w \in Workers :
          \/ Write(w) \/ Step(w)
          \/ \E c \in Cards : sync_card_github(w, c)
          \/ \E n \in Issues : _import_one(w, n)
    \/ \E c \in Cards : delete_card(c) \/ Finish(c)
    \/ \E n \in Issues, new \in [state : {"open", "closed"}, title : Titles] : EditIssue(n, new)
    \/ Restart

Spec == Init /\ [][Next]_vars

-----------------------------------------------------------------------------
(* Properties.                                                               *)

\* Types; a card that is not there yet is blank.
TypeOK ==
    /\ card \in [Cards -> Row]
    /\ issue \in [Issues -> Issue]
    /\ opened \in [Cards -> SUBSET Issues]
    /\ worker \in [Workers -> Worker]
    /\ project \in BOOLEAN
    /\ mishaps \in 0..MaxMishaps
    /\ spent \in [requests : 0..MaxRequests, edits : 0..MaxEdits]
    /\ \A c \in Cards : card[c].there = "free" => card[c] = Free

\* However syncs, imports and adoptions race, no issue has two cards; the card
\* that somebody took off the board counts, so its issue is not imported again.
OneCardPerIssue ==
    \A c, d \in Cards : c # d /\ card[c].ref # NoIssue => card[c].ref # card[d].ref

\* Writing to a card again, or asking for its sync again, opens no second issue:
\* each one too many was paid for by an overlap, a restart or a lost answer.
ExtraIssuesNeedMishaps == \A c \in Cards : Cardinality(opened[c]) <= 1 + mishaps

Enters(w, c) ==
    worker[w].at = "intake" /\ worker[w].card = c /\ card'[c].joined /\ ~card[c].joined

\* When nothing went wrong, a card enters the factory as its issue was answered
\* in the same request, and never when that was closed.
EntersAsTheHostHasIt ==
    [][\A w \in Workers, c \in Cards :
          Enters(w, c) /\ mishaps = 0 /\ ~card[c].error /\ worker[w].seen # Absent =>
              card[c].title = worker[w].seen.title /\ worker[w].seen.state = "open"]_vars

=============================================================================
