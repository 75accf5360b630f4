--------------------------- MODULE GitHubSyncProofs ---------------------------
(***************************************************************************)
(* Cards and their issues, for any number of requests, import passes,      *)
(* cards, issues and mishaps: no issue has two cards, in a run without     *)
(* mishaps a card enters the factory as the host answered for its issue,   *)
(* and the issues that were opened for a card are one and its share of the *)
(* mishaps.  And the comments of imported cards: what a marker has passed  *)
(* is on the card.                                                         *)
(*                                                                         *)
(* The first follows from what each write checks against the other rows,   *)
(* and from a row that is not there holding no issue.  The second needs    *)
(* that a request without mishaps is alone: the copy it decides from is    *)
(* still the card.  The third is an account: a hook that is about to open  *)
(* an issue is counted as if it had, and the one that a card may have for  *)
(* nothing is spent until a request could open another one.  The fourth    *)
(* follows a walk over pages: what was there when it began is out of its   *)
(* window, was read, or is ahead of it.                                    *)
(***************************************************************************)
EXTENDS GitHubSync, CommentSync, FiniteSetTheorems, WellFoundedInduction, TLAPS

Syncing == {"open", "fetch", "mirror", "failed", "intake"}

\* Without a mishap requests do not overlap.
Alone == \A v, w \in Workers : ~At(v, "idle") /\ ~At(w, "idle") => v = w

\* The copy a hook works from is the card.
Current(me) ==
    me.at \in Syncing => card[me.card].there = "live" /\ me.copy = card[me.card]

\* What the host answered, until it is mirrored and after.
Answered(me) ==
    /\ me.at \in {"open", "fetch", "failed"} => me.seen = Absent
    /\ me.at = "mirror" => me.seen.state # "absent"
    /\ me.at = "intake" /\ me.seen # Absent =>
           /\ me.copy.title = me.seen.title
           /\ me.copy.status = "ready" => me.seen.state = "open"

Orderly ==
    mishaps = 0 =>
        Alone /\ \A w \in Workers : Current(worker[w]) /\ Answered(worker[w])

-----------------------------------------------------------------------------
(* Rows and workers.                                                       *)

\* A write back changes only what differs from the copy.
LEMMA ChangedIsRow ==
    ASSUME NEW c \in Cards, card[c] \in Row, NEW own \in Row, NEW want \in Row
    PROVE  /\ Changed(c, own, want) \in Row
           /\ LET new == Changed(c, own, want)
              IN  /\ new.there = IF own.there = want.there THEN card[c].there ELSE want.there
                  /\ new.ref = IF own.ref = want.ref THEN card[c].ref ELSE want.ref
                  /\ new.title = IF own.title = want.title THEN card[c].title ELSE want.title
                  /\ new.status = IF own.status = want.status THEN card[c].status ELSE want.status
                  /\ new.joined = IF own.joined = want.joined THEN card[c].joined ELSE want.joined
<1>1. DOMAIN want = {"there", "ref", "title", "status", "error", "joined"}
  BY DEF Row
<1> DEFINE new == Changed(c, own, want)
<1>2. new = [f \in {"there", "ref", "title", "status", "error", "joined"} |->
                IF own[f] = want[f] THEN card[c][f] ELSE want[f]]
  BY <1>1 DEF Changed
<1>3. \A f \in {"there", "ref", "title", "status", "error", "joined"} :
         new[f] = IF own[f] = want[f] THEN card[c][f] ELSE want[f]
  BY <1>2
<1>4. new = [there |-> new.there, ref |-> new.ref, title |-> new.title,
             status |-> new.status, error |-> new.error, joined |-> new.joined]
  BY <1>2
<1>5. /\ new.there \in {"free", "live", "deleted"}
      /\ new.ref \in Issues \cup {NoIssue}
      /\ new.title \in Titles \cup {NoTitle}
      /\ new.status \in Statuses
      /\ new.error \in BOOLEAN /\ new.joined \in BOOLEAN
  BY <1>3 DEF Row
<1>6. /\ new.there = IF own.there = want.there THEN card[c].there ELSE want.there
      /\ new.ref = IF own.ref = want.ref THEN card[c].ref ELSE want.ref
      /\ new.title = IF own.title = want.title THEN card[c].title ELSE want.title
      /\ new.status = IF own.status = want.status THEN card[c].status ELSE want.status
      /\ new.joined = IF own.joined = want.joined THEN card[c].joined ELSE want.joined
  BY <1>3
<1> HIDE DEF new
<1>7. new \in Row
  BY <1>4, <1>5 DEF Row
<1> QED BY <1>6, <1>7 DEF new

LEMMA Blanks ==
    /\ Free \in Row /\ Free.ref = NoIssue /\ Free.there = "free" /\ ~Free.joined
    /\ Absent \in Issue
    /\ Idle \in Worker /\ Idle.at = "idle" /\ Idle.seen = Absent
BY Bounds DEF Free, Row, NoIssue, Statuses, Absent, Issue, Idle, Worker, Labels, Cards

\* What the rows are, and that no issue has two of them.
CardInv ==
    /\ card \in [Cards -> Row]
    /\ \A c \in Cards : card[c].there = "free" => card[c] = Free
    /\ OneCardPerIssue

\* Only the issue of a card that carries one is fetched.
FetchesIssues == \A w \in Workers : At(w, "fetch") => worker[w].copy.ref # NoIssue

SInv == TypeOK /\ OneCardPerIssue /\ FetchesIssues

\* A row keeps its issue, lets go of it, or takes one that no other row holds.
LEMMA WriteRow ==
    ASSUME CardInv, NEW c \in Cards, NEW row \in Row,
           card' = [card EXCEPT ![c] = row],
           row.there = "free" => row = Free,
           row.ref \in {NoIssue, card[c].ref} \/ ~Taken(c, row.ref)
    PROVE  CardInv'
<1>1. card' \in [Cards -> Row]
  BY DEF CardInv
<1>2. \A d \in Cards : card'[d] = IF d = c THEN row ELSE card[d]
  BY DEF CardInv
<1>3. ASSUME NEW d \in Cards \ {c}, row.ref # NoIssue PROVE row.ref # card[d].ref
  <2>1. CASE row.ref = card[c].ref
    BY <1>3, <2>1 DEF CardInv, OneCardPerIssue
  <2>2. CASE ~Taken(c, row.ref)
    <3>1. card[d].there = "free" => card[d].ref = NoIssue
      BY Blanks DEF CardInv
    <3> QED BY <1>3, <2>2, <3>1 DEF Taken, Holds
  <2> QED BY <1>3, <2>1, <2>2
<1>4. OneCardPerIssue'
  BY <1>2, <1>3 DEF CardInv, OneCardPerIssue
<1> QED BY <1>1, <1>2, <1>4 DEF CardInv

LEMMA GoWorker ==
    ASSUME worker \in [Workers -> Worker], NEW w \in Workers, NEW next \in Worker,
           Go(w, next)
    PROVE  /\ worker' \in [Workers -> Worker]
           /\ \A v \in Workers \ {w} : worker'[v] = worker[v]
           /\ worker'[w] = IF next.at = "idle" THEN Idle ELSE next
BY Blanks DEF Go

LEMMA BeginWorker ==
    ASSUME TypeOK, NEW w \in Workers, NEW start \in Worker, Begin(w, start)
    PROVE  /\ worker' \in [Workers -> Worker]
           /\ \A v \in Workers \ {w} : worker'[v] = worker[v]
           /\ worker'[w] = IF start.at = "idle" THEN Idle ELSE start
           /\ FetchesIssues /\ (start.at = "fetch" => start.copy.ref # NoIssue)
                 => FetchesIssues'
           /\ mishaps' \in 0 .. MaxMishaps
           /\ mishaps' # 0 \/ (mishaps' = mishaps /\ Quiet)
           /\ spent' \in [requests : 0 .. MaxRequests, edits : 0 .. MaxEdits]
<1>1. Go(w, start)
  BY DEF Begin
<1>2. /\ mishaps' \in 0 .. MaxMishaps
      /\ mishaps' # 0 \/ (mishaps' = mishaps /\ Quiet)
  BY Bounds DEF Begin, Mishap, TypeOK
<1>3. spent' \in [requests : 0 .. MaxRequests, edits : 0 .. MaxEdits]
  BY Bounds DEF Begin, TypeOK
<1>4. /\ worker' \in [Workers -> Worker]
      /\ \A v \in Workers \ {w} : worker'[v] = worker[v]
      /\ worker'[w] = IF start.at = "idle" THEN Idle ELSE start
  BY <1>1, GoWorker DEF TypeOK
<1>5. FetchesIssues /\ (start.at = "fetch" => start.copy.ref # NoIssue)
        => FetchesIssues'
  BY <1>4, Blanks DEF FetchesIssues, At
<1> QED BY <1>2, <1>3, <1>4, <1>5

LEMMA EditSpent ==
    ASSUME TypeOK, Edit
    PROVE  spent' \in [requests : 0 .. MaxRequests, edits : 0 .. MaxEdits]
BY Bounds DEF Edit, TypeOK

\* Where a written card's hook goes.
LEMMA Hooks ==
    ASSUME NEW row \in Row, project \in BOOLEAN
    PROVE  /\ maybe_sync(row) \in {"open", "fetch", "failed", "intake"}
           /\ sync_card(row) \in {"open", "fetch", "failed"}
BY DEF maybe_sync, sync_card

LEMMA HookFetches ==
    ASSUME NEW row
    PROVE  /\ maybe_sync(row) = "fetch" => row.ref # NoIssue
           /\ sync_card(row) = "fetch" => row.ref # NoIssue
BY DEF maybe_sync, sync_card

LEMMA StartOf ==
    ASSUME NEW c \in Cards, NEW row \in Row, NEW at \in Labels, NEW asked \in BOOLEAN
    PROVE  /\ [Idle EXCEPT !.at = at, !.card = c, !.copy = row, !.asked = asked] \in Worker
           /\ [Idle EXCEPT !.at = at, !.card = c, !.copy = row] \in Worker
BY Blanks DEF Worker

-----------------------------------------------------------------------------
(* Every step keeps the types and one card per issue.                      *)

\* The row and the request of a write through the surface.
LEMMA WriteInv ==
    ASSUME SInv, NEW w \in Workers, NEW c \in Cards, NEW row \in Row,
           row.there = "live", ~Taken(c, row.ref),
           card' = [card EXCEPT ![c] = row],
           Begin(w, [Idle EXCEPT !.at = maybe_sync(row), !.card = c, !.copy = row]),
           UNCHANGED <<issue, opened, project>>
    PROVE  SInv'
<1>1. CardInv'
  BY WriteRow DEF SInv, TypeOK, CardInv
<1>2. maybe_sync(row) \in Labels
  BY Hooks DEF SInv, TypeOK, Labels
<1> DEFINE start == [Idle EXCEPT !.at = maybe_sync(row), !.card = c, !.copy = row]
<1>3. start \in Worker
  BY <1>2, StartOf
<1>4. start.at = "fetch" => start.copy.ref # NoIssue
  BY HookFetches DEF Idle
<1> HIDE DEF start
<1>5. /\ worker' \in [Workers -> Worker] /\ mishaps' \in 0 .. MaxMishaps
      /\ spent' \in [requests : 0 .. MaxRequests, edits : 0 .. MaxEdits]
      /\ FetchesIssues'
  BY <1>3, <1>4, BeginWorker DEF SInv, start
<1> QED BY <1>1, <1>5 DEF SInv, TypeOK, CardInv

LEMMA PersonInv == ASSUME SInv, NEW w \in Workers, Write(w) PROVE SInv'
<1>1. ASSUME NEW x \in Titles, NEW s \in {"backlog", "ready"},
             NEW n \in Known \cup {NoIssue},
             create_card(w, [Free EXCEPT !.there = "live", !.title = x,
                                         !.status = s, !.ref = n])
      PROVE  SInv'
  <2> DEFINE row == [Free EXCEPT !.there = "live", !.title = x, !.status = s, !.ref = n]
             c == _next_card_key
  <2>1. row \in Row /\ row.there = "live"
    BY Blanks DEF Row, Known, Statuses
  <2>2. /\ c \in Cards /\ ~Taken(c, row.ref) /\ card' = [card EXCEPT ![c] = row]
        /\ Begin(w, [Idle EXCEPT !.at = maybe_sync(row), !.card = c, !.copy = row])
        /\ UNCHANGED <<issue, opened, project>>
    BY <1>1 DEF create_card
  <2> HIDE DEF row, c
  <2> QED BY <2>1, <2>2, WriteInv
<1>2. ASSUME NEW c \in Cards, NEW x \in Titles,
             NEW s \in {card[c].status, "backlog", "ready"},
             NEW n \in Known \cup {card[c].ref},
             update_card(w, c, [card[c] EXCEPT !.title = x, !.status = s, !.ref = n])
      PROVE  SInv'
  <2> DEFINE row == [card[c] EXCEPT !.title = x, !.status = s, !.ref = n]
  <2>1. card[c] \in Row
    BY DEF SInv, TypeOK
  <2>2. /\ ~Taken(c, row.ref) /\ card' = [card EXCEPT ![c] = row] /\ Live(c)
        /\ Begin(w, [Idle EXCEPT !.at = maybe_sync(row), !.card = c, !.copy = row])
        /\ UNCHANGED <<issue, opened, project>>
    BY <1>2 DEF update_card
  <2>3. row \in Row /\ row.there = "live"
    BY <2>1, <2>2 DEF Row, Known, Statuses, Live
  <2> HIDE DEF row
  <2> QED BY <2>2, <2>3, WriteInv
<1> QED BY <1>1, <1>2 DEF Write

LEMMA AskInv ==
    ASSUME SInv, NEW w \in Workers, NEW c \in Cards, sync_card_github(w, c)
    PROVE  SInv'
<1> DEFINE start == [Idle EXCEPT !.at = sync_card(card[c]), !.card = c,
                                 !.copy = card[c], !.asked = TRUE]
<1>1. card[c] \in Row /\ sync_card(card[c]) \in Labels
  BY Hooks DEF SInv, TypeOK, Labels
<1>2. start \in Worker
  BY <1>1, StartOf
<1>3. Begin(w, start) /\ UNCHANGED <<card, issue, opened, project>>
  BY DEF sync_card_github
<1>4. start.at = "fetch" => start.copy.ref # NoIssue
  BY HookFetches DEF Idle
<1> HIDE DEF start
<1>5. /\ worker' \in [Workers -> Worker] /\ mishaps' \in 0 .. MaxMishaps
      /\ spent' \in [requests : 0 .. MaxRequests, edits : 0 .. MaxEdits]
      /\ FetchesIssues'
  BY <1>2, <1>3, <1>4, BeginWorker DEF SInv
<1> QED BY <1>3, <1>5 DEF SInv, TypeOK, OneCardPerIssue

LEMMA ImportInv ==
    ASSUME SInv, NEW w \in Workers, NEW n \in Issues, _import_one(w, n)
    PROVE  SInv'
<1> DEFINE start == [Idle EXCEPT !.at = "upsert", !.ref = n, !.seen = issue[n]]
<1>1. start \in Worker
  BY Blanks DEF Worker, Labels, SInv, TypeOK
<1>2. Begin(w, start) /\ UNCHANGED <<card, issue, opened, project>>
      /\ start.at # "fetch"
  BY DEF _import_one, Idle
<1> HIDE DEF start
<1>3. /\ worker' \in [Workers -> Worker] /\ mishaps' \in 0 .. MaxMishaps
      /\ spent' \in [requests : 0 .. MaxRequests, edits : 0 .. MaxEdits]
      /\ FetchesIssues'
  BY <1>1, <1>2, BeginWorker DEF SInv
<1> QED BY <1>2, <1>3 DEF SInv, TypeOK, OneCardPerIssue

\* A worker moves on.
LEMMA GoInv ==
    ASSUME SInv, NEW w \in Workers, NEW next \in Worker, Go(w, next), CardInv',
           next.at # "fetch", issue' \in [Issues -> Issue], opened' \in [Cards -> SUBSET Issues],
           mishaps' \in 0 .. MaxMishaps, UNCHANGED <<project, spent>>
    PROVE  SInv'
<1>1. /\ worker' \in [Workers -> Worker]
      /\ \A v \in Workers \ {w} : worker'[v] = worker[v]
      /\ worker'[w] = IF next.at = "idle" THEN Idle ELSE next
  BY GoWorker DEF SInv, TypeOK
<1>2. FetchesIssues'
  BY <1>1, Blanks DEF SInv, FetchesIssues, At
<1> QED BY <1>1, <1>2 DEF SInv, TypeOK, CardInv

LEMMA SameCards == ASSUME SInv, UNCHANGED card PROVE CardInv'
BY DEF SInv, TypeOK, CardInv, OneCardPerIssue

\* What a worker may hold next.
LEMMA Nexts ==
    ASSUME TypeOK, NEW w \in Workers, NEW next,
           \/ next = [worker[w] EXCEPT !.at = "failed", !.ref = NoIssue, !.seen = Absent]
           \/ \E label \in Labels \ {"fetch"} : next = [worker[w] EXCEPT !.at = label]
           \/ \E n \in Issues, seen \in Issue :
                 next = [worker[w] EXCEPT !.at = "mirror", !.ref = n, !.seen = seen]
           \/ \E own \in Row :
                 next = [worker[w] EXCEPT !.at = "intake", !.copy = own]
           \/ \E c \in Cards, own \in Row :
                 next = [worker[w] EXCEPT !.at = "write", !.card = c, !.copy = own]
    PROVE  next \in Worker /\ next.at # "fetch"
<1>1. worker[w] \in Worker
  BY DEF TypeOK
<1> QED BY <1>1, Blanks DEF Worker, Labels

\* A failure, and a step that only moves on.
LEMMA FailedInv ==
    ASSUME SInv, NEW w \in Workers, Failed(w), CardInv',
           issue' \in [Issues -> Issue], opened' \in [Cards -> SUBSET Issues],
           mishaps' \in 0 .. MaxMishaps, UNCHANGED <<project, spent>>
    PROVE  SInv'
<1> DEFINE next == [worker[w] EXCEPT !.at = "failed", !.ref = NoIssue, !.seen = Absent]
<1>1. Go(w, next)
  BY DEF Failed
<1>2. next \in Worker /\ next.at # "fetch"
  BY Nexts DEF SInv
<1> HIDE DEF next
<1> QED BY <1>1, <1>2, GoInv

LEMMA OpenInv == ASSUME SInv, NEW w \in Workers, _open_issue(w) PROVE SInv'
<1>1. CardInv' /\ UNCHANGED <<project, spent>>
  BY SameCards DEF _open_issue
<1>2. worker[w] \in Worker /\ mishaps \in 0 .. MaxMishaps
  BY DEF SInv, TypeOK
<1>3. issue \in [Issues -> Issue] /\ opened \in [Cards -> SUBSET Issues]
  BY DEF SInv, TypeOK
<1>4. ASSUME Failed(w), mishaps' \in 0 .. MaxMishaps,
             issue' \in [Issues -> Issue], opened' \in [Cards -> SUBSET Issues]
      PROVE  SInv'
  BY <1>1, <1>4, FailedInv
<1>5. ASSUME Failed(w), UNCHANGED <<issue, opened, mishaps>> PROVE SInv'
  BY <1>2, <1>3, <1>4, <1>5
<1>6. ASSUME NEW n \in Issues,
             LET new == [state |-> "open", title |-> worker[w].copy.title]
             IN  /\ issue' = [issue EXCEPT ![n] = new]
                 /\ opened' = [opened EXCEPT ![worker[w].card] = @ \cup {n}]
                 /\ \/ /\ Go(w, [worker[w] EXCEPT !.at = "mirror", !.ref = n, !.seen = new])
                       /\ UNCHANGED mishaps
                    \/ Failed(w) /\ Mishap
      PROVE  SInv'
  <2> DEFINE new == [state |-> "open", title |-> worker[w].copy.title]
  <2>1. new \in Issue
    BY <1>2 DEF Worker, Row, Issue
  <2>2. issue' \in [Issues -> Issue] /\ opened' \in [Cards -> SUBSET Issues]
    BY <1>2, <1>3, <1>6, <2>1 DEF Worker
  <2>3. CASE Failed(w) /\ Mishap
    BY <1>2, <1>4, <2>2, <2>3, Bounds DEF Mishap
  <2>4. CASE /\ Go(w, [worker[w] EXCEPT !.at = "mirror", !.ref = n, !.seen = new])
             /\ UNCHANGED mishaps
    <3> DEFINE next == [worker[w] EXCEPT !.at = "mirror", !.ref = n, !.seen = new]
    <3>1. Go(w, next)
      BY <2>4
    <3> HIDE DEF new
    <3>2. next \in Worker /\ next.at # "fetch"
      BY <2>1, Nexts DEF SInv
    <3> HIDE DEF next
    <3> QED BY <1>1, <1>2, <2>2, <2>4, <3>1, <3>2, GoInv
  <2> QED BY <1>6, <2>3, <2>4
<1> QED BY <1>5, <1>6 DEF _open_issue

LEMMA FetchInv == ASSUME SInv, NEW w \in Workers, _fetch_issue(w) PROVE SInv'
<1>1. /\ CardInv' /\ UNCHANGED <<project, spent>>
      /\ issue' \in [Issues -> Issue] /\ opened' \in [Cards -> SUBSET Issues]
      /\ mishaps' \in 0 .. MaxMishaps
  BY SameCards DEF _fetch_issue, SInv, TypeOK
<1> DEFINE n == worker[w].copy.ref
<1>2. CASE Failed(w)
  BY <1>1, <1>2, FailedInv
<1>3. CASE /\ issue[n].state # "absent"
           /\ Go(w, [worker[w] EXCEPT !.at = "mirror", !.ref = n, !.seen = issue[n]])
  <2> DEFINE next == [worker[w] EXCEPT !.at = "mirror", !.ref = n, !.seen = issue[n]]
  <2>1. n \in Issues
    <3>1. worker[w].copy \in Row
      BY DEF SInv, TypeOK, Worker
    <3> QED BY <3>1 DEF _fetch_issue, SInv, FetchesIssues, Row
  <2>2. issue[n] \in Issue
    BY <2>1 DEF SInv, TypeOK
  <2>3. Go(w, next)
    BY <1>3
  <2> HIDE DEF n
  <2>4. next \in Worker /\ next.at # "fetch"
    BY <2>1, <2>2, Nexts DEF SInv
  <2> HIDE DEF next
  <2> QED BY <1>1, <2>3, <2>4, GoInv
<1> QED BY <1>2, <1>3 DEF _fetch_issue

LEMMA AfterSync ==
    ASSUME SInv, NEW w \in Workers, NEW row \in Row, _github(w, row)
    PROVE  \E next \in Worker : Go(w, next) /\ next.at # "fetch"
<1>1. CASE worker[w].asked
  <2> DEFINE next == [worker[w] EXCEPT !.at = "idle"]
  <2>1. Go(w, next)
    BY <1>1 DEF _github, GoTo
  <2>2. next \in Worker /\ next.at # "fetch"
    BY Nexts DEF SInv, Labels
  <2> QED BY <2>1, <2>2
<1>2. CASE ~worker[w].asked
  <2> DEFINE own == IF row.there = "live" THEN row ELSE worker[w].copy
             next == [worker[w] EXCEPT !.at = "intake", !.copy = own]
  <2>1. worker[w] \in Worker
    BY DEF SInv, TypeOK
  <2>2. own \in Row
    BY <2>1 DEF Worker
  <2>3. Go(w, next)
    BY <1>2, <2>1 DEF _github, Worker
  <2> HIDE DEF own
  <2>4. next \in Worker /\ next.at # "fetch"
    BY <2>2, Nexts DEF SInv
  <2> QED BY <2>3, <2>4
<1> QED BY <1>1, <1>2

LEMMA StoreInv == ASSUME SInv, NEW w \in Workers, store_mirror(w) PROVE SInv'
<1> DEFINE c == worker[w].card
           n == worker[w].ref
           own == worker[w].copy
           new == _mirror(own, n, worker[w].seen)
           want == Changed(c, own, new)
<1>1. /\ UNCHANGED <<project, spent>> /\ mishaps' \in 0 .. MaxMishaps
      /\ issue' \in [Issues -> Issue] /\ opened' \in [Cards -> SUBSET Issues]
  BY DEF store_mirror, SInv, TypeOK
<1>2. c \in Cards /\ own \in Row /\ n \in Issues \cup {NoIssue} /\ worker[w].seen \in Issue
  BY DEF SInv, TypeOK, Worker
<1>3. card[c] \in Row /\ CardInv
  BY <1>2 DEF SInv, TypeOK, CardInv
<1>4. new \in Row /\ new.there = own.there
  BY <1>2 DEF _mirror, _status_for, Row, Issue, Statuses
<1>5. want \in Row /\ (Live(c) => want.there = "live")
  <2> HIDE DEF new
  <2>1. want \in Row /\ want.there = card[c].there
    BY <1>2, <1>3, <1>4, ChangedIsRow
  <2> QED BY <2>1 DEF Live
<1>6. CASE Taken(c, want.ref) /\ Live(c)
  <2>1. Failed(w) /\ UNCHANGED card
    BY <1>6 DEF store_mirror
  <2> QED BY <1>1, <2>1, SameCards, FailedInv
<1>7. CASE ~(Taken(c, want.ref) /\ Live(c))
  <2> DEFINE row == IF Live(c) THEN want ELSE card[c]
  <2>1. card' = [card EXCEPT ![c] = row] /\ _github(w, row)
    BY <1>7 DEF store_mirror
  <2>2. row \in Row /\ (row.there = "free" => row = Free)
    <3> HIDE DEF c, want
    <3>1. card[c].there = "free" => card[c] = Free
      BY <1>2, <1>3 DEF CardInv
    <3> QED BY <1>3, <1>5, <3>1
  <2>3. row.ref \in {NoIssue, card[c].ref} \/ ~Taken(c, row.ref)
    BY <1>7
  <2> HIDE DEF row
  <2>4. CardInv'
    BY <1>2, <1>3, <2>1, <2>2, <2>3, WriteRow
  <2>5. PICK next \in Worker : Go(w, next) /\ next.at # "fetch"
    BY <2>1, <2>2, AfterSync
  <2> QED BY <1>1, <2>4, <2>5, GoInv
<1> QED BY <1>6, <1>7

LEMMA FailMarkInv == ASSUME SInv, NEW w \in Workers, mark_failed(w) PROVE SInv'
<1> DEFINE c == worker[w].card
           row == [card[c] EXCEPT !.error = Live(c) \/ @]
<1>1. /\ UNCHANGED <<project, spent>> /\ mishaps' \in 0 .. MaxMishaps
      /\ issue' \in [Issues -> Issue] /\ opened' \in [Cards -> SUBSET Issues]
  BY DEF mark_failed, SInv, TypeOK
<1>2. c \in Cards
  BY DEF SInv, TypeOK, Worker
<1>3. card[c] \in Row /\ CardInv
  BY <1>2 DEF SInv, TypeOK, CardInv
<1>4. card' = [card EXCEPT ![c] = row] /\ _github(w, row)
  BY DEF mark_failed
<1>5. row \in Row /\ row.ref = card[c].ref /\ row.there = card[c].there
  BY <1>3 DEF Row
<1>6. row.there = "free" => row = Free
  <2> SUFFICES ASSUME card[c].there = "free" PROVE row = Free
    BY <1>5
  <2>1. card[c] = Free /\ ~Live(c)
    BY <1>2, <1>3 DEF CardInv, Live
  <2>2. card[c].error = FALSE
    BY <2>1 DEF Free
  <2>3. row = [card[c] EXCEPT !.error = @]
    BY <2>1, <2>2
  <2>4. row = card[c]
    BY <1>3, <2>3 DEF Row
  <2> QED BY <2>1, <2>4
<1> HIDE DEF row
<1>7. CardInv'
  BY <1>2, <1>3, <1>4, <1>5, <1>6, WriteRow
<1>8. PICK next \in Worker : Go(w, next) /\ next.at # "fetch"
  BY <1>4, <1>5, AfterSync
<1> QED BY <1>1, <1>7, <1>8, GoInv

LEMMA IdleInv ==
    ASSUME SInv, NEW w \in Workers, NEW label \in Labels \ {"fetch"},
           GoTo(w, label), CardInv', UNCHANGED <<issue, opened, project, mishaps, spent>>
    PROVE  SInv'
<1> DEFINE next == [worker[w] EXCEPT !.at = label]
<1>1. Go(w, next)
  BY DEF GoTo
<1>2. next \in Worker /\ next.at # "fetch"
  BY Nexts DEF SInv
<1> HIDE DEF next
<1> QED BY <1>1, <1>2, GoInv DEF SInv, TypeOK

LEMMA IntakeInv == ASSUME SInv, NEW w \in Workers, _intake(w) PROVE SInv'
<1> DEFINE c == worker[w].card
           own == worker[w].copy
           row == IF Live(c) /\ own.status = "ready" /\ ~own.joined
                  THEN [card[c] EXCEPT !.status = "in_progress", !.joined = TRUE]
                  ELSE card[c]
<1>1. GoTo(w, "idle") /\ UNCHANGED <<issue, opened, project, mishaps, spent>>
  BY DEF _intake
<1>2. c \in Cards
  BY DEF SInv, TypeOK, Worker
<1>3. card[c] \in Row /\ CardInv
  BY <1>2 DEF SInv, TypeOK, CardInv
<1>4. card' = [card EXCEPT ![c] = row]
  BY <1>2 DEF _intake, SInv, TypeOK
<1>5. row \in Row /\ row.ref = card[c].ref
  BY <1>3 DEF Row, Statuses
<1>6. row.there = "free" => row = Free
  BY <1>2, <1>3 DEF CardInv, Live, Row
<1> HIDE DEF row
<1>7. CardInv'
  BY <1>2, <1>3, <1>4, <1>5, <1>6, WriteRow
<1> QED BY <1>1, <1>7, IdleInv DEF Labels

LEMMA LookupInv == ASSUME SInv, NEW w \in Workers, lookup(w) PROVE SInv'
<1> DEFINE found == get_by_issue_ref(worker[w].ref)
<1>1. CardInv' /\ UNCHANGED <<issue, opened, project, mishaps, spent>>
  BY SameCards DEF lookup
<1>2. CASE found = {}
  BY <1>1, <1>2, IdleInv DEF lookup, Labels
<1>3. CASE found # {}
  <2> DEFINE c == CHOOSE c \in found : TRUE
  <2>1. c \in Cards
    BY <1>3 DEF get_by_issue_ref
  <2>2. CASE Live(c)
    <3> DEFINE next == [worker[w] EXCEPT !.at = "write", !.card = c, !.copy = card[c]]
    <3>1. Go(w, next)
      BY <1>3, <2>2 DEF lookup
    <3>2. card[c] \in Row
      BY <2>1 DEF SInv, TypeOK
    <3> HIDE DEF c
    <3>3. next \in Worker /\ next.at # "fetch"
      BY <2>1, <3>2, Nexts DEF SInv
    <3> HIDE DEF next
    <3> QED BY <1>1, <3>1, <3>3, GoInv DEF SInv, TypeOK
  <2>3. CASE ~Live(c)
    BY <1>1, <1>3, <2>3, IdleInv DEF lookup, Labels
  <2> QED BY <2>2, <2>3
<1> QED BY <1>2, <1>3

\* What an import writes over a card.
LEMMA ChangesAreRow ==
    ASSUME NEW own \in Row, NEW seen \in Issue
    PROVE  /\ _changes_for(own, seen) \in Row
           /\ _changes_for(own, seen).ref = own.ref
           /\ _changes_for(own, seen).there = own.there
           /\ _changes_for(own, seen).joined = own.joined
<1> DEFINE status == IF own.joined THEN own.status ELSE imported_status(seen.state)
<1>1. status \in Statuses /\ seen.title \in Titles \cup {NoTitle}
  BY DEF Row, Issue, imported_status, Statuses
<1>2. _changes_for(own, seen) = [own EXCEPT !.title = seen.title, !.error = FALSE, !.status = status]
  BY DEF _changes_for, Row
<1> HIDE DEF status
<1> QED BY <1>1, <1>2 DEF Row

LEMMA UpsertInv == ASSUME SInv, NEW w \in Workers, upsert(w) PROVE SInv'
<1> DEFINE own == worker[w].copy
           n == worker[w].ref
           seen == worker[w].seen
           k == _next_card_key
           c == worker[w].card
           new == [Free EXCEPT !.there = "live", !.ref = n, !.title = seen.title,
                               !.status = imported_status(seen.state)]
<1>0. UNCHANGED <<issue, opened, project, mishaps, spent>>
  BY DEF upsert
<1>1. /\ c \in Cards /\ own \in Row /\ n \in Issues \cup {NoIssue} /\ seen \in Issue
      /\ CardInv /\ card[c] \in Row
  BY DEF SInv, TypeOK, Worker, CardInv
<1>2. CASE own = Free /\ get_by_issue_ref(n) # {}
  BY <1>0, <1>2, IdleInv, SameCards DEF upsert, Labels
<1>3. CASE own = Free /\ get_by_issue_ref(n) = {}
  <2>1. GoTo(w, "idle") /\ card' = IF k \in Cards THEN [card EXCEPT ![k] = new] ELSE card
    BY <1>3 DEF upsert
  <2>2. new \in Row /\ new.there = "live" /\ new.ref = n
    <3>1. imported_status(seen.state) \in Statuses /\ seen.title \in Titles \cup {NoTitle}
      BY <1>1 DEF imported_status, Statuses, Issue
    <3> QED BY <1>1, <3>1, Blanks DEF Row
  <2>3. ~Taken(k, n)
    BY <1>3 DEF get_by_issue_ref, Taken
  <2> HIDE DEF new, k, n
  <2>4. CASE k \in Cards
    <3>1. CardInv'
      BY <1>1, <2>1, <2>2, <2>3, <2>4, WriteRow
    <3> QED BY <1>0, <2>1, <3>1, IdleInv DEF Labels
  <2>5. CASE k \notin Cards
    BY <1>0, <2>1, <2>5, IdleInv, SameCards DEF Labels
  <2> QED BY <2>4, <2>5
<1>4. CASE own # Free
  <2> DEFINE want == _changes_for(own, seen)
             row == IF Live(c) THEN Changed(c, own, want) ELSE card[c]
  <2>1. GoTo(w, "idle") /\ card' = [card EXCEPT ![c] = row]
    BY <1>1, <1>4 DEF upsert, CardInv
  <2>2. want \in Row /\ want.ref = own.ref /\ want.there = own.there
    BY <1>1, ChangesAreRow
  <2> HIDE DEF want
  <2>3. row \in Row /\ row.ref = card[c].ref /\ row.there = card[c].there
    BY <1>1, <2>2, ChangedIsRow
  <2>4. row.there = "free" => row = Free
    BY <1>1, <2>3 DEF CardInv, Live
  <2> HIDE DEF row
  <2>5. CardInv'
    BY <1>1, <2>1, <2>3, <2>4, WriteRow
  <2> QED BY <1>0, <2>1, <2>5, IdleInv DEF Labels
<1> QED BY <1>2, <1>3, <1>4

LEMMA StepInv == ASSUME SInv, NEW w \in Workers, Step(w) PROVE SInv'
BY OpenInv, FetchInv, StoreInv, FailMarkInv, IntakeInv, LookupInv, UpsertInv DEF Step

\* What happens beside the requests.
LEMMA BesideInv ==
    ASSUME SInv, NEW c \in Cards, delete_card(c) \/ Finish(c)
    PROVE  SInv'
<1>1. card[c] \in Row /\ CardInv
  BY DEF SInv, TypeOK, CardInv
<1>2. /\ UNCHANGED <<issue, opened, worker, project>>
      /\ spent' \in [requests : 0 .. MaxRequests, edits : 0 .. MaxEdits]
      /\ mishaps' \in 0 .. MaxMishaps
  <2>1. UNCHANGED <<issue, opened, worker, project>> /\ Edit
    BY DEF delete_card, Finish
  <2>2. UNCHANGED mishaps \/ Mishap
    BY DEF delete_card, Finish
  <2>3. mishaps' \in 0 .. MaxMishaps
    BY <2>2, Bounds DEF Mishap, SInv, TypeOK
  <2> QED BY <2>1, <2>3, EditSpent DEF SInv
<1>3. CardInv'
  <2>1. CASE delete_card(c)
    <3> DEFINE row == [Free EXCEPT !.there = "deleted", !.ref = card[c].ref]
    <3>1. row \in Row /\ row.there = "deleted" /\ row.ref = card[c].ref
      BY <1>1, Blanks DEF Row
    <3>2. card' = [card EXCEPT ![c] = row]
      BY <2>1 DEF delete_card
    <3> HIDE DEF row
    <3> QED BY <1>1, <3>1, <3>2, WriteRow
  <2>2. CASE Finish(c)
    <3> DEFINE row == [card[c] EXCEPT !.status = "done"]
    <3>1. row \in Row /\ row.there = "live" /\ row.ref = card[c].ref
      BY <1>1, <2>2 DEF Row, Statuses, Finish, Live
    <3>2. card' = [card EXCEPT ![c] = row]
      BY <1>1, <2>2 DEF Finish, CardInv
    <3> HIDE DEF row
    <3> QED BY <1>1, <3>1, <3>2, WriteRow
  <2> QED BY <2>1, <2>2
<1> QED BY <1>2, <1>3 DEF SInv, TypeOK, CardInv, FetchesIssues, At

LEMMA HostInv ==
    ASSUME SInv, NEW n \in Issues, NEW new \in [state : {"open", "closed"}, title : Titles],
           EditIssue(n, new)
    PROVE  SInv'
<1>1. /\ UNCHANGED <<card, opened, worker, project, mishaps>>
      /\ spent' \in [requests : 0 .. MaxRequests, edits : 0 .. MaxEdits]
  BY EditSpent DEF EditIssue, SInv
<1>2. issue' \in [Issues -> Issue]
  BY DEF EditIssue, SInv, TypeOK, Issue
<1> QED BY <1>1, <1>2 DEF SInv, TypeOK, FetchesIssues, At, OneCardPerIssue

LEMMA RestartInv == ASSUME SInv, Restart PROVE SInv'
<1>1. /\ UNCHANGED <<card, issue, opened, project, spent>>
      /\ worker' \in [Workers -> Worker] /\ FetchesIssues'
  BY Blanks DEF Restart, FetchesIssues, At
<1>2. mishaps' \in 0 .. MaxMishaps
  BY Bounds DEF Restart, Mishap, SInv, TypeOK
<1> QED BY <1>1, <1>2 DEF SInv, TypeOK, OneCardPerIssue

LEMMA InitInv == Init => SInv
<1> SUFFICES ASSUME Init PROVE SInv
  OBVIOUS
<1>1. card \in [Cards -> Row] /\ \A c \in Cards : card[c] = Free
  BY Blanks DEF Init
<1>2. worker \in [Workers -> Worker] /\ FetchesIssues
  BY Blanks DEF Init, FetchesIssues, At
<1>3. spent \in [requests : 0 .. MaxRequests, edits : 0 .. MaxEdits] /\ mishaps \in 0 .. MaxMishaps
  BY Bounds DEF Init
<1>4. /\ issue \in [Issues -> Issue] /\ opened \in [Cards -> SUBSET Issues]
      /\ project \in BOOLEAN
  BY Blanks, TitleChoices DEF Init
<1> QED BY <1>1, <1>2, <1>3, <1>4, Blanks DEF SInv, TypeOK, OneCardPerIssue

LEMMA NextInv == SInv /\ [Next]_vars => SInv'
<1> SUFFICES ASSUME SInv, [Next]_vars PROVE SInv'
  OBVIOUS
<1>1. CASE UNCHANGED vars
  BY <1>1 DEF vars, SInv, TypeOK, FetchesIssues, At, OneCardPerIssue
<1> QED BY <1>1, PersonInv, StepInv, AskInv, ImportInv, BesideInv, HostInv, RestartInv
        DEF Next

THEOREM Inductive == Spec => []SInv
BY InitInv, NextInv, PTL DEF Spec

\* However syncs, imports, adoptions, deletions and restarts overlap, an issue
\* has one card at most.
THEOREM OneCardEach == Spec => []OneCardPerIssue
<1>1. SInv => OneCardPerIssue
  BY DEF SInv
<1> QED BY <1>1, Inductive, PTL

-----------------------------------------------------------------------------
(* A request that nothing disturbs.                                        *)

\* One worker moves, and the others are idle.
LEMMA OneMoves ==
    ASSUME SInv, NEW w \in Workers, NEW me,
           \A v \in Workers \ {w} : worker'[v].at = "idle",
           worker'[w] = IF me.at = "idle" THEN Idle ELSE me,
           me.at \in Syncing =>
               card'[me.card].there = "live" /\ me.copy = card'[me.card],
           Answered(me)
    PROVE  Orderly'
<1>1. ASSUME NEW v \in Workers PROVE Current(worker[v])' /\ Answered(worker[v])'
  <2>1. CASE v # w \/ me.at = "idle"
    <3>1. worker'[v].at = "idle"
      BY <2>1, Blanks
    <3> QED BY <3>1 DEF Current, Answered, Syncing
  <2>2. CASE v = w /\ me.at # "idle"
    BY <2>2 DEF Current, Answered
  <2> QED BY <2>1, <2>2
<1>2. Alone'
  BY DEF Alone, At
<1> QED BY <1>1, <1>2 DEF Orderly

LEMMA GoOrderly ==
    ASSUME SInv, Orderly, mishaps = 0, NEW w \in Workers, ~At(w, "idle"), NEW next,
           Go(w, next),
           next.at \in Syncing =>
               card'[next.card].there = "live" /\ next.copy = card'[next.card],
           Answered(next)
    PROVE  Orderly'
<1>1. \A v \in Workers \ {w} : worker[v].at = "idle"
  BY DEF Orderly, Alone, At
<1>2. /\ \A v \in Workers \ {w} : worker'[v] = worker[v]
      /\ worker'[w] = IF next.at = "idle" THEN Idle ELSE next
  BY DEF Go, SInv, TypeOK
<1> QED BY <1>1, <1>2, OneMoves

LEMMA BeginOrderly ==
    ASSUME SInv, mishaps' = 0, NEW w \in Workers, NEW start \in Worker, Begin(w, start),
           start.at \in Syncing =>
               card'[start.card].there = "live" /\ start.copy = card'[start.card],
           Answered(start)
    PROVE  Orderly'
<1>1. Quiet
  BY BeginWorker DEF SInv
<1>2. /\ \A v \in Workers \ {w} : worker'[v] = worker[v]
      /\ worker'[w] = IF start.at = "idle" THEN Idle ELSE start
  BY BeginWorker DEF SInv
<1> QED BY <1>1, <1>2, OneMoves DEF Quiet, At

LEMMA WriteOrderly ==
    ASSUME SInv, mishaps' = 0, NEW w \in Workers, NEW c \in Cards, NEW row \in Row,
           row.there = "live", card' = [card EXCEPT ![c] = row],
           Begin(w, [Idle EXCEPT !.at = maybe_sync(row), !.card = c, !.copy = row])
    PROVE  Orderly'
<1> DEFINE start == [Idle EXCEPT !.at = maybe_sync(row), !.card = c, !.copy = row]
<1>1. maybe_sync(row) \in {"open", "fetch", "failed", "intake"}
  BY Hooks DEF SInv, TypeOK
<1>2. start \in Worker
  BY <1>1, StartOf DEF Labels
<1>3. start.card = c /\ start.copy = row /\ start.at # "mirror" /\ start.seen = Absent
  BY <1>1 DEF Idle
<1>4. card'[c] = row
  BY DEF SInv, TypeOK
<1>5. Begin(w, start)
  OBVIOUS
<1> HIDE DEF start
<1> QED BY <1>2, <1>3, <1>4, <1>5, BeginOrderly DEF Answered

LEMMA PersonOrderly ==
    ASSUME SInv, mishaps' = 0, NEW w \in Workers, Write(w)
    PROVE  Orderly'
<1>1. ASSUME NEW x \in Titles, NEW s \in {"backlog", "ready"},
             NEW n \in Known \cup {NoIssue},
             create_card(w, [Free EXCEPT !.there = "live", !.title = x,
                                         !.status = s, !.ref = n])
      PROVE  Orderly'
  <2> DEFINE row == [Free EXCEPT !.there = "live", !.title = x, !.status = s, !.ref = n]
             c == _next_card_key
  <2>1. row \in Row /\ row.there = "live"
    BY Blanks DEF Row, Known, Statuses
  <2>2. /\ c \in Cards /\ card' = [card EXCEPT ![c] = row]
        /\ Begin(w, [Idle EXCEPT !.at = maybe_sync(row), !.card = c, !.copy = row])
    BY <1>1 DEF create_card
  <2> HIDE DEF row, c
  <2> QED BY <2>1, <2>2, WriteOrderly
<1>2. ASSUME NEW c \in Cards, NEW x \in Titles,
             NEW s \in {card[c].status, "backlog", "ready"},
             NEW n \in Known \cup {card[c].ref},
             update_card(w, c, [card[c] EXCEPT !.title = x, !.status = s, !.ref = n])
      PROVE  Orderly'
  <2> DEFINE row == [card[c] EXCEPT !.title = x, !.status = s, !.ref = n]
  <2>1. card[c] \in Row
    BY DEF SInv, TypeOK
  <2>2. /\ card' = [card EXCEPT ![c] = row] /\ Live(c)
        /\ Begin(w, [Idle EXCEPT !.at = maybe_sync(row), !.card = c, !.copy = row])
    BY <1>2 DEF update_card
  <2>3. row \in Row /\ row.there = "live"
    BY <2>1, <2>2 DEF Row, Known, Statuses, Live
  <2> HIDE DEF row
  <2> QED BY <2>2, <2>3, WriteOrderly
<1> QED BY <1>1, <1>2 DEF Write

LEMMA AskOrderly ==
    ASSUME SInv, mishaps' = 0, NEW w \in Workers, NEW c \in Cards, sync_card_github(w, c)
    PROVE  Orderly'
<1> DEFINE start == [Idle EXCEPT !.at = sync_card(card[c]), !.card = c,
                                 !.copy = card[c], !.asked = TRUE]
<1>1. card[c] \in Row /\ sync_card(card[c]) \in {"open", "fetch", "failed"}
  BY Hooks DEF SInv, TypeOK
<1>2. start \in Worker
  BY <1>1, StartOf DEF Labels
<1>3. Begin(w, start) /\ UNCHANGED card /\ Live(c)
  BY DEF sync_card_github
<1>4. /\ start.card = c /\ start.copy = card[c] /\ start.seen = Absent
      /\ start.at # "mirror"
  BY <1>1 DEF Idle
<1> HIDE DEF start
<1> QED BY <1>2, <1>3, <1>4, BeginOrderly DEF Answered, Live

LEMMA ImportOrderly ==
    ASSUME SInv, mishaps' = 0, NEW w \in Workers, NEW n \in Issues, _import_one(w, n)
    PROVE  Orderly'
<1> DEFINE start == [Idle EXCEPT !.at = "upsert", !.ref = n, !.seen = issue[n]]
<1>1. start \in Worker /\ start.at = "upsert"
  BY Blanks DEF Worker, Labels, SInv, TypeOK
<1>2. Begin(w, start)
  BY DEF _import_one
<1> HIDE DEF start
<1> QED BY <1>1, <1>2, BeginOrderly DEF Syncing, Answered

LEMMA FailedOrderly ==
    ASSUME SInv, Orderly, mishaps = 0, NEW w \in Workers,
           worker[w].at \in Syncing, Failed(w), UNCHANGED card
    PROVE  Orderly'
<1> DEFINE next == [worker[w] EXCEPT !.at = "failed", !.ref = NoIssue, !.seen = Absent]
<1>1. worker[w] \in Worker /\ Current(worker[w])
  BY DEF SInv, TypeOK, Orderly
<1>2. Go(w, next) /\ ~At(w, "idle")
  BY DEF Failed, At, Syncing
<1>3. /\ next.at = "failed" /\ next.seen = Absent
      /\ next.card = worker[w].card /\ next.copy = worker[w].copy
  BY <1>1 DEF Worker
<1>4. card'[next.card].there = "live" /\ next.copy = card'[next.card]
  BY <1>1, <1>3 DEF Current
<1> HIDE DEF next
<1> QED BY <1>2, <1>3, <1>4, GoOrderly DEF Answered

LEMMA OpenOrderly ==
    ASSUME SInv, Orderly, mishaps' = 0, mishaps = 0, NEW w \in Workers, _open_issue(w)
    PROVE  Orderly'
<1>1. UNCHANGED card /\ At(w, "open") /\ worker[w].at \in Syncing
  BY DEF _open_issue, At, Syncing
<1>2. worker[w] \in Worker /\ Current(worker[w])
  BY DEF SInv, TypeOK, Orderly
<1>3. CASE Failed(w)
  BY <1>1, <1>3, FailedOrderly
<1>4. ASSUME NEW n \in Issues,
             LET new == [state |-> "open", title |-> worker[w].copy.title]
             IN  Go(w, [worker[w] EXCEPT !.at = "mirror", !.ref = n, !.seen = new])
      PROVE  Orderly'
  <2> DEFINE new == [state |-> "open", title |-> worker[w].copy.title]
             next == [worker[w] EXCEPT !.at = "mirror", !.ref = n, !.seen = new]
  <2>1. /\ next.at = "mirror" /\ next.seen.state # "absent"
        /\ next.card = worker[w].card /\ next.copy = worker[w].copy
    BY <1>2 DEF Worker
  <2>2. card'[next.card].there = "live" /\ next.copy = card'[next.card]
    BY <1>1, <1>2, <2>1 DEF Current
  <2>3. Go(w, next) /\ ~At(w, "idle")
    BY <1>1, <1>4 DEF At
  <2> HIDE DEF next
  <2> QED BY <2>1, <2>2, <2>3, GoOrderly DEF Answered
<1> QED BY <1>3, <1>4 DEF _open_issue

LEMMA FetchOrderly ==
    ASSUME SInv, Orderly, mishaps = 0, NEW w \in Workers, _fetch_issue(w)
    PROVE  Orderly'
<1>1. UNCHANGED card /\ At(w, "fetch") /\ worker[w].at \in Syncing
  BY DEF _fetch_issue, At, Syncing
<1>2. worker[w] \in Worker /\ Current(worker[w])
  BY DEF SInv, TypeOK, Orderly
<1>3. CASE Failed(w)
  BY <1>1, <1>3, FailedOrderly
<1>4. CASE ~Failed(w)
  <2> DEFINE n == worker[w].copy.ref
             next == [worker[w] EXCEPT !.at = "mirror", !.ref = n, !.seen = issue[n]]
  <2>1. Go(w, next) /\ ~At(w, "idle") /\ issue[n].state # "absent"
    BY <1>1, <1>4 DEF _fetch_issue, At
  <2>2. /\ next.at = "mirror" /\ next.seen = issue[n]
        /\ next.card = worker[w].card /\ next.copy = worker[w].copy
    BY <1>2 DEF Worker
  <2>3. card'[next.card].there = "live" /\ next.copy = card'[next.card]
    BY <1>1, <1>2, <2>2 DEF Current
  <2> HIDE DEF next
  <2> QED BY <2>1, <2>2, <2>3, GoOrderly DEF Answered
<1> QED BY <1>3, <1>4

LEMMA IdleOrderly ==
    ASSUME SInv, Orderly, mishaps = 0, NEW w \in Workers, ~At(w, "idle"),
           NEW label \in {"idle", "upsert", "write"}, GoTo(w, label)
    PROVE  Orderly'
<1> DEFINE next == [worker[w] EXCEPT !.at = label]
<1>1. Go(w, next)
  BY DEF GoTo
<1>2. next.at = label
  BY DEF SInv, TypeOK, Worker
<1> HIDE DEF next
<1> QED BY <1>1, <1>2, GoOrderly DEF Answered, Syncing

\* The row that _github leaves is what the intake decides from.
LEMMA MirroredOrderly ==
    ASSUME SInv, Orderly, mishaps = 0, NEW w \in Workers, ~At(w, "idle"),
           NEW row, row.there = "live", card' = [card EXCEPT ![worker[w].card] = row],
           _github(w, row),
           worker[w].seen # Absent =>
               /\ row.title = worker[w].seen.title
               /\ row.status = "ready" => worker[w].seen.state = "open"
    PROVE  Orderly'
<1>1. worker[w] \in Worker
  BY DEF SInv, TypeOK
<1>2. CASE worker[w].asked
  BY <1>2, IdleOrderly DEF _github
<1>3. CASE ~worker[w].asked
  <2> DEFINE next == [worker[w] EXCEPT !.at = "intake", !.copy = row]
  <2>1. Go(w, next)
    BY <1>1, <1>3 DEF _github, Worker
  <2>2. /\ next.at = "intake" /\ next.copy = row /\ next.seen = worker[w].seen
        /\ next.card = worker[w].card
    BY <1>1 DEF Worker
  <2>3. card'[next.card] = row
    BY <1>1, <2>2 DEF Worker, SInv, TypeOK
  <2> HIDE DEF next
  <2> QED BY <2>1, <2>2, <2>3, GoOrderly DEF Answered
<1> QED BY <1>2, <1>3

LEMMA StoreOrderly ==
    ASSUME SInv, Orderly, mishaps = 0, NEW w \in Workers, store_mirror(w)
    PROVE  Orderly'
<1> DEFINE me == worker[w]
           c == me.card
           new == _mirror(me.copy, me.ref, me.seen)
           want == Changed(c, me.copy, new)
<1>1. At(w, "mirror") /\ me.at \in Syncing
  BY DEF store_mirror, At, Syncing
<1>2. me \in Worker /\ Current(me) /\ Answered(me)
  BY DEF SInv, TypeOK, Orderly
<1>3. /\ c \in Cards /\ me.copy \in Row /\ me.copy = card[c] /\ Live(c)
      /\ me.ref \in Issues \cup {NoIssue} /\ me.seen \in Issue
  BY <1>1, <1>2 DEF Worker, Current, Live
<1>4. /\ new \in Row /\ new.title = me.seen.title /\ new.there = me.copy.there
      /\ new.status = _status_for(me.seen.state, me.copy.status)
  BY <1>3 DEF _mirror, _status_for, Row, Issue, Statuses
<1>5. CASE Taken(c, want.ref)
  <2>1. Failed(w) /\ UNCHANGED card
    BY <1>3, <1>5 DEF store_mirror
  <2> QED BY <1>1, <2>1, FailedOrderly
<1>6. CASE ~Taken(c, want.ref)
  <2>1. card' = [card EXCEPT ![c] = want] /\ _github(w, want)
    BY <1>3, <1>6 DEF store_mirror
  <2> HIDE DEF new
  <2>2. /\ want.title = me.seen.title /\ want.there = "live"
        /\ want.status = _status_for(me.seen.state, me.copy.status)
    BY <1>3, <1>4, ChangedIsRow DEF Live
  <2>3. want.status = "ready" => me.seen.state = "open"
    BY <1>1, <1>2, <1>3, <2>2 DEF _status_for, Answered, At, Issue
  <2> HIDE DEF want
  <2> QED BY <1>1, <2>1, <2>2, <2>3, MirroredOrderly DEF At
<1> QED BY <1>5, <1>6

LEMMA FailMarkOrderly ==
    ASSUME SInv, Orderly, mishaps = 0, NEW w \in Workers, mark_failed(w)
    PROVE  Orderly'
<1> DEFINE c == worker[w].card
           row == [card[c] EXCEPT !.error = Live(c) \/ @]
<1>1. At(w, "failed") /\ worker[w].seen = Absent /\ card[c].there = "live"
  BY DEF mark_failed, At, Orderly, Answered, Current, Syncing
<1>2. card[c] \in Row
  BY DEF SInv, TypeOK, Worker
<1>3. row.there = "live"
  BY <1>1, <1>2 DEF Row
<1>4. card' = [card EXCEPT ![c] = row] /\ _github(w, row)
  BY DEF mark_failed
<1> HIDE DEF row
<1> QED BY <1>1, <1>3, <1>4, MirroredOrderly DEF At

LEMMA StepOrderly ==
    ASSUME SInv, Orderly, mishaps' = 0, mishaps = 0, NEW w \in Workers, Step(w)
    PROVE  Orderly'
<1>1. CASE _intake(w)
  BY <1>1, IdleOrderly DEF _intake, At
<1>2. CASE upsert(w)
  BY <1>2, IdleOrderly DEF upsert, At
<1>3. CASE lookup(w)
  <2>1. ~At(w, "idle")
    BY <1>3 DEF lookup, At
  <2>2. CASE \E label \in {"idle", "write"} : GoTo(w, label)
    BY <2>1, <2>2, IdleOrderly
  <2>3. ASSUME NEW next, Go(w, next), next.at = "write" PROVE Orderly'
    BY <2>1, <2>3, GoOrderly DEF Syncing, Answered
  <2>4. \A c : [worker[w] EXCEPT !.at = "write", !.card = c, !.copy = card[c]].at = "write"
    BY DEF SInv, TypeOK, Worker
  <2> QED BY <1>3, <2>2, <2>3, <2>4 DEF lookup
<1> QED BY <1>1, <1>2, <1>3, OpenOrderly, FetchOrderly, StoreOrderly, FailMarkOrderly
        DEF Step

LEMMA OrderlyInit == Init => Orderly
BY Blanks DEF Init, Orderly, Alone, At, Current, Answered, Syncing

LEMMA OrderlyNext == SInv /\ Orderly /\ [Next]_vars => Orderly'
<1> SUFFICES ASSUME SInv, Orderly, [Next]_vars, mishaps' = 0 PROVE Orderly'
  BY DEF Orderly
<1>0. mishaps \in Nat
  BY DEF SInv, TypeOK
<1>1. ASSUME NEW w \in Workers, Step(w) PROVE Orderly'
  <2>1. mishaps = 0
    <3>1. ASSUME Mishap PROVE FALSE
      BY <1>0, <3>1 DEF Mishap
    <3>2. CASE _open_issue(w)
      BY <3>1, <3>2, Zenon DEF _open_issue
    <3>3. CASE _fetch_issue(w)
      BY <3>3, Zenon DEF _fetch_issue
    <3>4. CASE store_mirror(w)
      BY <3>4, Zenon DEF store_mirror
    <3>5. CASE mark_failed(w)
      BY <3>5, Zenon DEF mark_failed
    <3>6. CASE _intake(w)
      BY <3>6, Zenon DEF _intake
    <3>7. CASE lookup(w)
      BY <3>7, Zenon DEF lookup
    <3>8. CASE upsert(w)
      BY <3>8, Zenon DEF upsert
    <3> QED BY <1>1, <3>2, <3>3, <3>4, <3>5, <3>6, <3>7, <3>8 DEF Step
  <2> QED BY <1>1, <2>1, StepOrderly
<1>2. ASSUME NEW c \in Cards, delete_card(c) \/ Finish(c) PROVE Orderly'
  <2>1. Quiet /\ UNCHANGED worker
    BY <1>0, <1>2 DEF delete_card, Finish, Mishap
  <2> QED BY <2>1 DEF Quiet, At, Orderly, Alone, Current, Answered, Syncing
<1>3. ASSUME NEW n \in Issues, NEW new \in [state : {"open", "closed"}, title : Titles],
             EditIssue(n, new)
      PROVE  Orderly'
  BY <1>3 DEF EditIssue, Orderly, Alone, At, Current, Answered
<1>4. ASSUME Restart PROVE Orderly'
  BY <1>0, <1>4 DEF Restart, Mishap
<1>5. CASE UNCHANGED vars
  BY <1>5 DEF vars, Orderly, Alone, At, Current, Answered
<1> QED BY <1>1, <1>2, <1>3, <1>4, <1>5, PersonOrderly, AskOrderly, ImportOrderly DEF Next

THEOREM OrderlyInductive == Spec => [](SInv /\ Orderly)
BY InitInv, NextInv, OrderlyInit, OrderlyNext, PTL DEF Spec

\* Only an intake joins a card.
LEMMA IntakeJoins ==
    ASSUME SInv, Next, NEW c \in Cards, card'[c].joined, ~card[c].joined
    PROVE  \E w \in Workers : _intake(w)
<1>0. card \in [Cards -> Row] /\ worker \in [Workers -> Worker]
  BY DEF SInv, TypeOK
<1>1. ASSUME NEW d \in Cards, NEW row, card' = [card EXCEPT ![d] = row],
             ~row.joined \/ row.joined = card[d].joined
      PROVE  FALSE
  BY <1>0, <1>1
<1>2. ASSUME NEW w \in Workers, Write(w) PROVE FALSE
  <2>1. ASSUME NEW x, NEW s, NEW n,
               create_card(w, [Free EXCEPT !.there = "live", !.title = x,
                                           !.status = s, !.ref = n])
        PROVE  FALSE
    BY <1>1, <2>1 DEF create_card, Free
  <2>2. ASSUME NEW d \in Cards, NEW x, NEW s, NEW n,
               update_card(w, d, [card[d] EXCEPT !.title = x, !.status = s, !.ref = n])
        PROVE  FALSE
    <3> DEFINE row == [card[d] EXCEPT !.title = x, !.status = s, !.ref = n]
    <3>1. card' = [card EXCEPT ![d] = row]
      BY <2>2 DEF update_card
    <3>2. row.joined = card[d].joined
      BY <1>0 DEF Row
    <3> HIDE DEF row
    <3> QED BY <1>1, <3>1, <3>2
  <2> QED BY <1>2, <2>1, <2>2 DEF Write
<1>3. ASSUME NEW w \in Workers, store_mirror(w) PROVE FALSE
  <2> DEFINE me == worker[w]
             d == me.card
             new == _mirror(me.copy, me.ref, me.seen)
             want == Changed(d, me.copy, new)
  <2>1. d \in Cards /\ me.copy \in Row /\ me.ref \in Issues \cup {NoIssue} /\ me.seen \in Issue
    BY <1>0 DEF Worker
  <2>2. new \in Row /\ new.joined = me.copy.joined
    BY <2>1 DEF _mirror, _status_for, Row, Issue, Statuses
  <2> HIDE DEF new
  <2>3. want.joined = card[d].joined
    BY <1>0, <2>1, <2>2, ChangedIsRow
  <2>4. \/ UNCHANGED card
        \/ card' = [card EXCEPT ![d] = IF Live(d) THEN want ELSE card[d]]
    BY <1>3 DEF store_mirror, new
  <2> HIDE DEF want, d
  <2>5. CASE UNCHANGED card
    BY <2>5
  <2>6. CASE card' = [card EXCEPT ![d] = IF Live(d) THEN want ELSE card[d]]
    BY <1>1, <2>1, <2>3, <2>6
  <2> QED BY <2>4, <2>5, <2>6
<1>4. ASSUME NEW w \in Workers, mark_failed(w) PROVE FALSE
  <2> DEFINE d == worker[w].card
             row == [card[d] EXCEPT !.error = Live(d) \/ @]
  <2>1. d \in Cards /\ card' = [card EXCEPT ![d] = row]
    BY <1>0, <1>4 DEF mark_failed, Worker
  <2>2. row.joined = card[d].joined
    BY <1>0, <2>1 DEF Row
  <2> HIDE DEF row, d
  <2> QED BY <1>1, <2>1, <2>2
<1>5. ASSUME NEW w \in Workers, upsert(w) PROVE FALSE
  <2> DEFINE me == worker[w]
             d == me.card
             k == _next_card_key
             want == _changes_for(me.copy, me.seen)
             row == Changed(d, me.copy, want)
             new == [Free EXCEPT !.there = "live", !.ref = me.ref, !.title = me.seen.title,
                                 !.status = imported_status(me.seen.state)]
  <2>1. d \in Cards /\ me.copy \in Row /\ me.seen \in Issue
    BY <1>0 DEF Worker
  <2>2. want \in Row /\ want.joined = me.copy.joined
    BY <2>1, ChangesAreRow
  <2>3. new.joined = FALSE
    BY DEF Free
  <2>4. \/ UNCHANGED card
        \/ k \in Cards /\ card' = [card EXCEPT ![k] = new]
        \/ card' = [card EXCEPT ![d] = IF Live(d) THEN row ELSE card[d]]
    BY <1>0, <1>5, <2>1 DEF upsert
  <2> HIDE DEF want, new, k
  <2>5. row.joined = card[d].joined
    BY <1>0, <2>1, <2>2, ChangedIsRow
  <2> HIDE DEF row, d
  <2>6. CASE card' = [card EXCEPT ![d] = IF Live(d) THEN row ELSE card[d]]
    BY <1>1, <2>1, <2>5, <2>6
  <2>7. CASE k \in Cards /\ card' = [card EXCEPT ![k] = new]
    BY <1>1, <2>3, <2>7
  <2> QED BY <2>4, <2>6, <2>7
<1>6. ASSUME NEW d \in Cards, delete_card(d) \/ Finish(d) PROVE FALSE
  <2>1. [Free EXCEPT !.there = "deleted", !.ref = card[d].ref].joined = FALSE
    BY DEF Free
  <2>2. [card[d] EXCEPT !.status = "done"].joined = card[d].joined
    BY <1>0 DEF Row
  <2> QED BY <1>0, <1>6, <2>1, <2>2 DEF delete_card, Finish
<1>7. ASSUME UNCHANGED card PROVE FALSE
  BY <1>7
<1> QED BY <1>2, <1>3, <1>4, <1>5, <1>6, <1>7
        DEF Next, Step, sync_card_github, _import_one, EditIssue, Restart,
            _open_issue, _fetch_issue, lookup

\* Where nothing went wrong, a card enters the factory as its issue was
\* answered in the same request, and never with a closed one.
THEOREM EntersAsAnswered == Spec => EntersAsTheHostHasIt
<1> DEFINE Faithful ==
             \A w \in Workers, c \in Cards :
                Enters(w, c) /\ mishaps = 0 /\ ~card[c].error /\ worker[w].seen # Absent =>
                    card[c].title = worker[w].seen.title /\ worker[w].seen.state = "open"
<1>1. SInv /\ Orderly /\ [Next]_vars => [Faithful]_vars
  <2> SUFFICES ASSUME SInv, Orderly, Next, NEW w \in Workers, NEW c \in Cards,
                      Enters(w, c), mishaps = 0, worker[w].seen # Absent
               PROVE  card[c].title = worker[w].seen.title /\ worker[w].seen.state = "open"
    BY DEF vars
  <2>1. PICK v \in Workers : _intake(v)
    BY IntakeJoins DEF Enters
  <2>2. v = w
    BY <2>1 DEF _intake, At, Enters, Orderly, Alone
  <2>3. /\ worker[w].copy = card[c]
        /\ worker[w].copy.title = worker[w].seen.title
        /\ worker[w].copy.status = "ready" => worker[w].seen.state = "open"
    BY DEF Enters, Orderly, Current, Answered, Syncing
  <2>4. worker[w].copy.status = "ready"
    BY <2>1, <2>2 DEF _intake, Enters, SInv, TypeOK
  <2> QED BY <2>3, <2>4
<1> QED BY <1>1, OrderlyInductive, PTL DEF Spec, EntersAsTheHostHasIt

-----------------------------------------------------------------------------
(* What an issue too many costs.                                           *)

Importing(n) ==
    \E w \in Workers : worker[w].at \in {"upsert", "write"} /\ worker[w].ref = n

\* The hooks that are about to open an issue for c.
Openers(c) == {w \in Workers : At(w, "open") /\ worker[w].card = c}

\* A hook that has opened an issue, and whose card nothing keeps from getting it.
Settles(w) ==
    /\ At(w, "mirror") /\ worker[w].copy.ref = NoIssue
    /\ ~Taken(worker[w].card, worker[w].ref)
    /\ ~Importing(worker[w].ref)

\* A card that the next request would open an issue for, although none is about
\* to be opened or mirrored.
Bare(c) ==
    /\ Live(c) /\ card[c].ref = NoIssue
    /\ Openers(c) = {}
    /\ \A w \in Workers : worker[w].card = c => ~Settles(w)

Credit(c) == IF Bare(c) THEN 0 ELSE 1

\* The issues that were opened for a card, or are about to be, are paid for, but
\* for the one that it has or is about to have.
PaidFor(c) ==
    /\ IsFiniteSet(Openers(c))
    /\ Cardinality(opened[c]) + Cardinality(Openers(c)) <= mishaps + Credit(c)

\* What a hook knows of cards and issues.
HookOK(me) ==
    /\ me.at \in {"open", "fetch", "mirror"} => card[me.card].there # "free"
    /\ me.at = "open" => me.copy.ref = NoIssue
    /\ me.at \in {"mirror", "upsert", "write"} => me.ref \in Known
    /\ me.at = "mirror" => me.copy.ref \in {NoIssue, me.ref}

\* An issue is opened by one hook.
OpenedOnce ==
    \A v, w \in Workers :
        /\ At(v, "mirror") /\ worker[v].copy.ref = NoIssue
        /\ At(w, "mirror") /\ worker[w].copy.ref = NoIssue
        /\ worker[v].ref = worker[w].ref
        => v = w

RowOK(c) ==
    /\ card[c].ref \in Known \cup {NoIssue}
    /\ card[c].there = "free" => opened[c] = {}

\* Cards are made in the order of their keys.
MadeInOrder == \E k \in 0 .. MaxCard : \A c \in Cards : card[c].there = "free" <=> c > k

Sound ==
    /\ \A w \in Workers : HookOK(worker[w])
    /\ \A c \in Cards : RowOK(c)
    /\ OpenedOnce /\ MadeInOrder

Paid == \A c \in Cards : PaidFor(c)

-----------------------------------------------------------------------------
\* The key of a new card is free, and stays the last.
LEMMA NextKey ==
    ASSUME MadeInOrder, _next_card_key \in Cards
    PROVE  /\ card[_next_card_key].there = "free"
           /\ \A c \in Cards : card[c].there = "free" /\ c # _next_card_key => c > _next_card_key
           /\ \A c \in Cards : card[c].there # "free" => c < _next_card_key
<1>1. PICK k \in 0 .. MaxCard : \A c \in Cards : card[c].there = "free" <=> c > k
  BY DEF MadeInOrder
<1> DEFINE made == {c \in Cards : card[c].there # "free"}
<1>2. made = 1 .. k
  BY <1>1, Bounds DEF Cards
<1>3. Cardinality(1 .. k) = k /\ k \in Nat
  BY FS_Interval, Bounds
<1>4. _next_card_key = k + 1
  <2>1. _next_card_key = 1 + Cardinality(made)
    BY DEF _next_card_key
  <2> HIDE DEF made
  <2> QED BY <1>2, <1>3, <2>1
<1>5. _next_card_key > k /\ _next_card_key \in Int
  BY <1>3, <1>4
<1>6. \A c \in Cards : c \in Int
  BY DEF Cards
<1>7. \A c \in Cards : (c > k <=> c >= _next_card_key) /\ (c > k /\ c # _next_card_key => c > _next_card_key)
  BY <1>3, <1>4, <1>6
<1>8. \A c \in Cards : ~(c > k) => c < _next_card_key
  BY <1>3, <1>4, <1>6
<1> QED BY <1>1, <1>5, <1>7, <1>8

\* What stays of Sound when one worker moves on.
LEMMA HooksMove ==
    ASSUME SInv, Sound, NEW w \in Workers,
           \A v \in Workers \ {w} : worker'[v] = worker[v],
           Known \subseteq Known',
           \A c \in Cards : card[c].there # "free" => card'[c].there # "free",
           HookOK(worker[w])',
           At(w, "mirror")' /\ worker'[w].copy.ref = NoIssue =>
               worker'[w].ref \notin Known
    PROVE  (\A v \in Workers : HookOK(worker[v]))' /\ OpenedOnce'
<1>1. \A v \in Workers : worker[v].card \in Cards
  BY DEF SInv, TypeOK, Worker
<1>2. ASSUME NEW v \in Workers PROVE HookOK(worker[v])'
  <2>1. CASE v = w
    BY <2>1
  <2>2. CASE v # w
    <3>1. HookOK(worker[v]) /\ worker'[v] = worker[v]
      BY <2>2 DEF Sound
    <3>2. card[worker[v].card].there # "free" => card'[worker[v].card].there # "free"
      BY <1>1
    <3>3. worker[v].ref \in Known => worker[v].ref \in Known'
      OBVIOUS
    <3> QED BY <3>1, <3>2, <3>3 DEF HookOK
  <2> QED BY <2>1, <2>2
<1>3. ASSUME NEW u \in Workers, NEW v \in Workers,
             At(u, "mirror")', worker'[u].copy.ref = NoIssue,
             At(v, "mirror")', worker'[v].copy.ref = NoIssue,
             worker'[u].ref = worker'[v].ref
      PROVE  u = v
  <2>1. CASE u # w /\ v # w
    <3>1. worker'[u] = worker[u] /\ worker'[v] = worker[v]
      BY <2>1
    <3> QED BY <1>3, <3>1 DEF Sound, OpenedOnce, At
  <2>2. ASSUME NEW x \in Workers, x # w, At(x, "mirror")' PROVE worker'[x].ref \in Known
    <3>1. worker'[x] = worker[x] /\ HookOK(worker[x])
      BY <2>2 DEF Sound
    <3> QED BY <2>2, <3>1 DEF HookOK, At
  <2> QED BY <1>3, <2>1, <2>2
<1>4. OpenedOnce'
  BY <1>3 DEF OpenedOnce
<1> QED BY <1>2, <1>4

\* What stays of Sound when a row that is there is written, or none is.
LEMMA RowsStay ==
    ASSUME SInv, Sound, Known \subseteq Known',
           \A c \in Cards : card'[c].there = "free" <=> card[c].there = "free",
           \A c \in Cards : card'[c].ref \in Known' \cup {NoIssue, card[c].ref},
           \A c \in Cards : card[c].there = "free" => opened'[c] = opened[c]
    PROVE  (\A c \in Cards : RowOK(c))' /\ MadeInOrder'
<1>1. ASSUME NEW c \in Cards PROVE RowOK(c)'
  <2>1. RowOK(c)
    BY DEF Sound
  <2>2. card[c].ref \in Known' \cup {NoIssue}
    BY <2>1 DEF RowOK
  <2> QED BY <2>1, <2>2 DEF RowOK
<1>2. Cards' = Cards
  BY DEF Cards
<1>3. MadeInOrder'
  <2>1. PICK k \in 0 .. MaxCard : \A c \in Cards : card[c].there = "free" <=> c > k
    BY DEF Sound, MadeInOrder
  <2>2. \A c \in Cards : card'[c].there = "free" <=> c > k
    BY <2>1
  <2> QED BY <2>2 DEF MadeInOrder
<1> QED BY <1>1, <1>3

LEMMA RowIsMade ==
    ASSUME SInv, Sound, _next_card_key \in Cards, NEW row \in Row, row.there # "free",
           row.ref \in Known \cup {NoIssue}, UNCHANGED <<issue, opened>>,
           card' = [card EXCEPT ![_next_card_key] = row]
    PROVE  (\A c \in Cards : RowOK(c))' /\ MadeInOrder'
<1>1. PICK k : k = _next_card_key
  OBVIOUS
<1>2. /\ k \in Cards /\ card[k].there = "free"
      /\ \A c \in Cards : card[c].there = "free" /\ c # k => c > k
      /\ \A c \in Cards : card[c].there # "free" => c < k
  BY <1>1, NextKey DEF Sound
<1>3. \A c \in Cards : card'[c] = IF c = k THEN row ELSE card[c]
  BY <1>1, <1>2 DEF SInv, TypeOK
<1>4. ASSUME NEW c \in Cards PROVE RowOK(c)'
  <2>1. RowOK(c)
    BY DEF Sound
  <2> QED BY <1>3, <2>1 DEF RowOK, Known
<1>5. \A c \in Cards : card'[c].there = "free" <=> c > k
  BY <1>2, <1>3 DEF Cards
<1>6. MadeInOrder'
  <2>1. k \in 0 .. MaxCard
    BY <1>2 DEF Cards
  <2> QED BY <1>5, <2>1 DEF MadeInOrder
<1> QED BY <1>4, <1>6

-----------------------------------------------------------------------------
LEMMA Counts ==
    ASSUME SInv, NEW c \in Cards
    PROVE  IsFiniteSet(opened[c]) /\ Cardinality(opened[c]) \in Nat /\ mishaps \in Nat
<1>1. opened[c] \in SUBSET Issues /\ mishaps \in Nat
  BY DEF SInv, TypeOK
<1>2. IsFiniteSet(Issues)
  BY FS_Interval, Bounds DEF Issues
<1>3. IsFiniteSet(opened[c])
  BY <1>1, <1>2, FS_Subset
<1> QED BY <1>1, <1>3, FS_CardinalityType

\* Nothing happens that the account of c sees.
LEMMA SameAccount ==
    ASSUME SInv, NEW c \in Cards, PaidFor(c), opened'[c] = opened[c],
           Openers(c)' = Openers(c), mishaps' \in Nat, mishaps' >= mishaps,
           Bare(c)' => Bare(c)
    PROVE  PaidFor(c)'
<1>1. Cardinality(opened[c]) \in Nat /\ mishaps \in Nat
  BY Counts
<1>2. Cardinality(Openers(c)) \in Nat
  BY FS_CardinalityType DEF PaidFor
<1> QED BY <1>1, <1>2 DEF PaidFor, Credit

\* A mishap pays for what goes wrong in its step.
LEMMA MishapPays ==
    ASSUME SInv, NEW c \in Cards, PaidFor(c), opened'[c] = opened[c],
           mishaps' = mishaps + 1, NEW w,
           Openers(c)' \subseteq Openers(c) \/ Openers(c)' = Openers(c) \cup {w}
    PROVE  PaidFor(c)'
<1>1. Cardinality(opened[c]) \in Nat /\ mishaps \in Nat
  BY Counts
<1>2. PICK O : O = Openers(c)'
  OBVIOUS
<1>3. IsFiniteSet(Openers(c)) /\ Cardinality(Openers(c)) \in Nat
  BY FS_CardinalityType DEF PaidFor
<1>4. Cardinality(opened[c]) + Cardinality(Openers(c)) <= mishaps + 1
  BY <1>1, <1>3 DEF PaidFor, Credit
<1>5. CASE O \subseteq Openers(c)
  <2>1. IsFiniteSet(O) /\ Cardinality(O) <= Cardinality(Openers(c)) /\ Cardinality(O) \in Nat
    BY <1>3, <1>5, FS_Subset, FS_CardinalityType
  <2>2. Credit(c)' \in {0, 1}
    BY DEF Credit
  <2> QED BY <1>1, <1>2, <1>3, <1>4, <2>1, <2>2 DEF PaidFor
<1>6. CASE O = Openers(c) \cup {w}
  <2>1. IsFiniteSet(O) /\ Cardinality(O) <= Cardinality(Openers(c)) + 1 /\ Cardinality(O) \in Nat
    <3>1. IsFiniteSet(O) /\ Cardinality(O) \in {Cardinality(Openers(c)), Cardinality(Openers(c)) + 1}
      BY <1>3, <1>6, FS_AddElement
    <3> QED BY <1>3, <3>1
  <2>2. Credit(c)' = 1
    BY <1>2, <1>6 DEF Credit, Bare
  <2> QED BY <1>1, <1>2, <1>3, <1>4, <2>1, <2>2 DEF PaidFor
<1> QED BY <1>2, <1>5, <1>6

-----------------------------------------------------------------------------
(* One worker moves on.                                                    *)

LEMMA SameOpeners ==
    ASSUME NEW w \in Workers, \A v \in Workers \ {w} : worker'[v] = worker[v],
           NEW c,
           ~(At(w, "open") /\ worker[w].card = c),
           ~(At(w, "open")' /\ worker'[w].card = c)
    PROVE  Openers(c)' = Openers(c)
BY DEF Openers, At

\* A hook that settles keeps settling as long as nobody claims its issue.
LEMMA StillBare ==
    ASSUME SInv, NEW w \in Workers, \A v \in Workers \ {w} : worker'[v] = worker[v],
           NEW c \in Cards,
           ~(At(w, "open") /\ worker[w].card = c),
           ~(At(w, "open")' /\ worker'[w].card = c),
           ~(Settles(w) /\ worker[w].card = c),
           card'[c].ref = card[c].ref, card'[c].there = card[c].there,
           \A v \in Workers \ {w} :
               worker[v].card = c /\ Settles(v) =>
                   ~Taken(c, worker[v].ref)' /\ ~Importing(worker[v].ref)',
           Bare(c)'
    PROVE  Bare(c)
<1>1. Live(c) /\ card[c].ref = NoIssue
  BY DEF Bare, Live
<1>2. Openers(c) = {}
  BY SameOpeners DEF Bare
<1>3. ASSUME NEW v \in Workers, worker[v].card = c, Settles(v) PROVE FALSE
  <2>1. v # w
    BY <1>3
  <2>2. worker'[v] = worker[v]
    BY <2>1
  <2>3. Settles(v)'
    BY <1>3, <2>1, <2>2 DEF Settles, At
  <2> QED BY <1>3, <2>2, <2>3 DEF Bare
<1> QED BY <1>1, <1>2, <1>3 DEF Bare

\* An issue is not claimed by a worker that moves within an import, or out of it.
LEMMA SameImports ==
    ASSUME NEW w \in Workers, \A v \in Workers \ {w} : worker'[v] = worker[v],
           worker'[w].at \in {"upsert", "write"} =>
               worker[w].at \in {"upsert", "write"} /\ worker'[w].ref = worker[w].ref,
           NEW n, Importing(n)'
    PROVE  Importing(n)
BY DEF Importing

\* No card gets or loses an issue, and no issue is opened.
LEMMA CalmMove ==
    ASSUME SInv, Sound, Paid, NEW w \in Workers, NEW me,
           \A v \in Workers \ {w} : worker'[v] = worker[v], worker'[w] = me,
           ~At(w, "open"), me.at \notin {"open", "fetch"}, ~Settles(w),
           me.at \in {"upsert", "write"} =>
               worker[w].at \in {"upsert", "write"} /\ me.ref = worker[w].ref,
           me.at = "mirror" =>
               /\ At(w, "fetch") /\ me.card = worker[w].card
               /\ me.ref \in Known /\ me.copy.ref = me.ref,
           \A c \in Cards : card'[c].ref = card[c].ref /\ card'[c].there = card[c].there,
           UNCHANGED <<issue, opened, mishaps>>
    PROVE  Sound' /\ Paid'
<1>1. Known' = Known
  BY DEF Known
<1>2. worker[w] \in Worker /\ HookOK(worker[w])
  BY DEF SInv, TypeOK, Sound
<1>3. HookOK(worker[w])'
  <2>1. me.at = "mirror" => card'[me.card].there # "free"
    BY <1>2 DEF HookOK, At, Worker
  <2>2. me.at \in {"upsert", "write"} => me.ref \in Known
    BY <1>2 DEF HookOK
  <2> QED BY <1>1, <2>1, <2>2 DEF HookOK
<1>4. At(w, "mirror")' => worker'[w].copy.ref # NoIssue
  BY DEF At, Known, Issues, NoIssue
<1>5. (\A v \in Workers : HookOK(worker[v]))' /\ OpenedOnce'
  BY <1>1, <1>3, <1>4, HooksMove
<1>6. (\A c \in Cards : RowOK(c))' /\ MadeInOrder'
  BY <1>1, RowsStay
<1>7. ASSUME NEW c \in Cards PROVE PaidFor(c)'
  <2>1. ~At(w, "open")'
    BY DEF At
  <2>2. Openers(c)' = Openers(c)
    BY <2>1, SameOpeners
  <2>3. \A d \in Cards : \A n : Taken(d, n)' => Taken(d, n)
    BY DEF Taken, Holds
  <2>4. \A n : Importing(n)' => Importing(n)
    BY SameImports
  <2>5. ASSUME NEW v \in Workers \ {w}, worker[v].card = c, Settles(v)
        PROVE  ~Taken(c, worker[v].ref)' /\ ~Importing(worker[v].ref)'
    <3>1. worker'[v] = worker[v]
      OBVIOUS
    <3>2. ~Taken(c, worker[v].ref) /\ ~Importing(worker[v].ref)
      BY <2>5 DEF Settles
    <3>3. PICK n : n = worker[v].ref
      OBVIOUS
    <3>4. ~Taken(c, n)' /\ ~Importing(n)'
      BY <2>3, <2>4, <3>2, <3>3
    <3> QED BY <3>1, <3>3, <3>4 DEF Taken, Holds, Importing
  <2>6. Bare(c)' => Bare(c)
    BY <2>1, <2>5, StillBare
  <2>7. mishaps' \in Nat /\ mishaps' >= mishaps
    BY Counts
  <2> QED BY <2>2, <2>6, <2>7, SameAccount DEF Paid
<1> QED BY <1>5, <1>6, <1>7 DEF Sound, Paid

\* A card gets the issue that was opened for it.
LEMMA SettleMove ==
    ASSUME SInv, Sound, Paid, NEW w \in Workers, NEW me, NEW row,
           \A v \in Workers \ {w} : worker'[v] = worker[v], worker'[w] = me,
           At(w, "mirror"), worker[w].copy.ref = NoIssue,
           me.at \notin {"open", "fetch", "mirror", "upsert", "write"},
           card' = [card EXCEPT ![worker[w].card] = row],
           row.ref = worker[w].ref, row.there = card[worker[w].card].there,
           UNCHANGED <<issue, opened, mishaps>>
    PROVE  Sound' /\ Paid'
<1> DEFINE c == worker[w].card
           n == worker[w].ref
<1>1. Known' = Known
  BY DEF Known
<1>2. c \in Cards /\ n \in Known /\ n # NoIssue
  <2>1. worker[w] \in Worker /\ HookOK(worker[w])
    BY DEF SInv, TypeOK, Sound
  <2> QED BY <2>1 DEF Worker, HookOK, At, Known, Issues, NoIssue
<1>3. \A d \in Cards : card'[d] = IF d = c THEN row ELSE card[d]
  BY <1>2 DEF SInv, TypeOK
<1>4. HookOK(worker[w])' /\ ~At(w, "mirror")'
  BY DEF HookOK, At
<1>5. (\A v \in Workers : HookOK(worker[v]))' /\ OpenedOnce'
  BY <1>1, <1>3, <1>4, HooksMove
<1>6. (\A d \in Cards : RowOK(d))' /\ MadeInOrder'
  BY <1>1, <1>2, <1>3, RowsStay
<1>7. ASSUME NEW d \in Cards PROVE PaidFor(d)'
  <2>1. ~At(w, "open")' /\ ~At(w, "open")
    BY DEF At
  <2>2. Openers(d)' = Openers(d)
    BY <2>1, SameOpeners
  <2>3. mishaps' \in Nat /\ mishaps' >= mishaps
    BY Counts
  <2>4. CASE d = c
    <3>1. card'[d].ref # NoIssue
      BY <1>2, <1>3, <2>4
    <3>2. ~Bare(d)'
      BY <3>1 DEF Bare
    <3> QED BY <2>2, <2>3, <3>2, SameAccount DEF Paid
  <2>5. CASE d # c
    <3>1. card'[d] = card[d]
      BY <1>3, <2>5
    <3>2. \A x : Importing(x)' => Importing(x)
      BY SameImports
    <3>3. \A x : Taken(d, x)' => Taken(d, x) \/ x = n
      BY <1>3 DEF Taken, Holds
    <3>4. ASSUME NEW v \in Workers \ {w}, worker[v].card = d, Settles(v)
          PROVE  ~Taken(d, worker[v].ref)' /\ ~Importing(worker[v].ref)'
      <4>1. worker'[v] = worker[v]
        OBVIOUS
      <4>2. worker[v].ref # n
        BY <3>4 DEF Settles, Sound, OpenedOnce
      <4>3. ~Taken(d, worker[v].ref) /\ ~Importing(worker[v].ref)
        BY <3>4 DEF Settles
      <4>4. PICK x : x = worker[v].ref
        OBVIOUS
      <4>5. ~Taken(d, x)' /\ ~Importing(x)'
        BY <3>2, <3>3, <4>2, <4>3, <4>4
      <4> QED BY <4>1, <4>4, <4>5 DEF Taken, Holds, Importing
    <3>5. Bare(d)' => Bare(d)
      BY <2>1, <2>5, <3>1, <3>4, StillBare
    <3> QED BY <2>2, <2>3, <3>5, SameAccount DEF Paid
  <2> QED BY <2>4, <2>5
<1> QED BY <1>5, <1>6, <1>7 DEF Sound, Paid

\* A hook finds its card gone.
LEMMA GoneMove ==
    ASSUME SInv, Sound, Paid, NEW w \in Workers, NEW me,
           \A v \in Workers \ {w} : worker'[v] = worker[v], worker'[w] = me,
           At(w, "mirror"), ~Live(worker[w].card),
           me.at \notin {"open", "fetch", "mirror", "upsert", "write"},
           \A c \in Cards : card'[c].ref = card[c].ref /\ card'[c].there = card[c].there,
           UNCHANGED <<issue, opened, mishaps>>
    PROVE  Sound' /\ Paid'
<1>1. Known' = Known
  BY DEF Known
<1>2. ~At(w, "open") /\ ~At(w, "open")' /\ ~At(w, "mirror")' /\ HookOK(worker[w])'
  BY DEF At, HookOK
<1>3. (\A v \in Workers : HookOK(worker[v]))' /\ OpenedOnce'
  BY <1>1, <1>2, HooksMove
<1>4. (\A c \in Cards : RowOK(c))' /\ MadeInOrder'
  BY <1>1, RowsStay
<1>5. ASSUME NEW c \in Cards PROVE PaidFor(c)'
  <2>1. Openers(c)' = Openers(c)
    BY <1>2, SameOpeners
  <2>2. mishaps' \in Nat /\ mishaps' >= mishaps
    BY Counts
  <2>3. Bare(c)' => Bare(c)
    <3>1. CASE c = worker[w].card
      BY <3>1 DEF Bare, Live
    <3>2. CASE c # worker[w].card
      <4>1. \A n : Taken(c, n)' => Taken(c, n)
        BY DEF Taken, Holds
      <4>2. \A n : Importing(n)' => Importing(n)
        BY SameImports
      <4>3. ASSUME NEW v \in Workers \ {w}, worker[v].card = c, Settles(v)
            PROVE  ~Taken(c, worker[v].ref)' /\ ~Importing(worker[v].ref)'
        <5>1. worker'[v] = worker[v]
          OBVIOUS
        <5>2. ~Taken(c, worker[v].ref) /\ ~Importing(worker[v].ref)
          BY <4>3 DEF Settles
        <5>3. PICK n : n = worker[v].ref
          OBVIOUS
        <5>4. ~Taken(c, n)' /\ ~Importing(n)'
          BY <4>1, <4>2, <5>2, <5>3
        <5> QED BY <5>1, <5>3, <5>4 DEF Taken, Holds, Importing
      <4> QED BY <1>2, <3>2, <4>3, StillBare
    <3> QED BY <3>1, <3>2
  <2> QED BY <2>1, <2>2, <2>3, SameAccount DEF Paid
<1> QED BY <1>3, <1>4, <1>5 DEF Sound, Paid

\* An import makes a card for its issue.
LEMMA InsertMove ==
    ASSUME SInv, Sound, Paid, NEW w \in Workers, NEW row \in Row,
           \A v \in Workers \ {w} : worker'[v] = worker[v], worker'[w] = Idle,
           At(w, "write"), _next_card_key \in Cards,
           card' = [card EXCEPT ![_next_card_key] = row],
           row.ref = worker[w].ref, row.there = "live",
           UNCHANGED <<issue, opened, mishaps>>
    PROVE  Sound' /\ Paid'
<1> DEFINE n == worker[w].ref
<1>0. PICK c : c = _next_card_key
  OBVIOUS
<1>1. Known' = Known
  BY DEF Known
<1>2. n \in Known /\ n # NoIssue
  BY DEF Sound, HookOK, At, Known, Issues, NoIssue
<1>3. c \in Cards /\ card[c].there = "free" /\ opened[c] = {}
  BY <1>0, NextKey DEF Sound, RowOK
<1>4. \A d \in Cards : card'[d] = IF d = c THEN row ELSE card[d]
  BY <1>0, <1>3 DEF SInv, TypeOK
<1>5. /\ HookOK(worker[w])' /\ ~At(w, "mirror")' /\ ~At(w, "open")'
      /\ ~At(w, "open") /\ ~Settles(w)
  BY Blanks DEF HookOK, At, Settles
<1>6. (\A v \in Workers : HookOK(worker[v]))' /\ OpenedOnce'
  BY <1>1, <1>4, <1>5, HooksMove
<1>7. (\A d \in Cards : RowOK(d))' /\ MadeInOrder'
  BY <1>2, RowIsMade
<1>8. ASSUME NEW d \in Cards PROVE PaidFor(d)'
  <2>1. Openers(d)' = Openers(d)
    BY <1>5, SameOpeners
  <2>2. mishaps' \in Nat /\ mishaps' >= mishaps
    BY Counts
  <2>3. CASE d = c
    <3>1. card'[d].ref # NoIssue
      BY <1>2, <1>4, <2>3
    <3>2. ~Bare(d)'
      BY <3>1 DEF Bare
    <3> QED BY <2>1, <2>2, <3>2, SameAccount DEF Paid
  <2>4. CASE d # c
    <3>1. card'[d] = card[d]
      BY <1>4, <2>4
    <3>2. \A x : Importing(x)' => Importing(x)
      BY Blanks, SameImports
    <3>3. \A x : Taken(d, x)' => Taken(d, x) \/ x = n
      BY <1>4 DEF Taken, Holds
    <3>4. Importing(n)
      BY DEF Importing, At
    <3>5. ASSUME NEW v \in Workers \ {w}, worker[v].card = d, Settles(v)
          PROVE  ~Taken(d, worker[v].ref)' /\ ~Importing(worker[v].ref)'
      <4>1. worker'[v] = worker[v]
        OBVIOUS
      <4>2. ~Taken(d, worker[v].ref) /\ ~Importing(worker[v].ref)
        BY <3>5 DEF Settles
      <4>3. PICK x : x = worker[v].ref
        OBVIOUS
      <4>4. ~Taken(d, x)' /\ ~Importing(x)'
        BY <3>2, <3>3, <3>4, <4>2, <4>3
      <4> QED BY <4>1, <4>3, <4>4 DEF Taken, Holds, Importing
    <3>6. Bare(d)' => Bare(d)
      BY <1>5, <2>4, <3>1, <3>5, StillBare
    <3> QED BY <2>1, <2>2, <3>6, SameAccount DEF Paid
  <2> QED BY <2>3, <2>4
<1> QED BY <1>6, <1>7, <1>8 DEF Sound, Paid

-----------------------------------------------------------------------------
(* The steps of the hook and of the import.                                *)

\* Where Go takes a worker.
LEMMA GoesTo ==
    ASSUME SInv, NEW w \in Workers, NEW next, Go(w, next)
    PROVE  /\ \A v \in Workers \ {w} : worker'[v] = worker[v]
           /\ worker'[w] = IF next.at = "idle" THEN Idle ELSE next
BY DEF Go, SInv, TypeOK

LEMMA FailedMove ==
    ASSUME SInv, Sound, Paid, NEW w \in Workers, Failed(w),
           ~At(w, "open"), ~Settles(w),
           UNCHANGED <<card, issue, opened, mishaps>>
    PROVE  Sound' /\ Paid'
<1> DEFINE next == [worker[w] EXCEPT !.at = "failed", !.ref = NoIssue, !.seen = Absent]
<1>1. next.at = "failed"
  BY DEF SInv, TypeOK, Worker
<1>2. Go(w, next)
  BY DEF Failed
<1> HIDE DEF next
<1>3. /\ \A v \in Workers \ {w} : worker'[v] = worker[v]
      /\ worker'[w] = next
  BY <1>1, <1>2, GoesTo
<1> QED BY <1>1, <1>3, CalmMove

LEMMA LabelMove ==
    ASSUME SInv, Sound, Paid, NEW w \in Workers, NEW label, GoTo(w, label),
           ~At(w, "open"), ~Settles(w),
           label \in {"upsert", "write"} => worker[w].at \in {"upsert", "write"},
           label \in {"idle", "upsert", "write"},
           \A c \in Cards : card'[c].ref = card[c].ref /\ card'[c].there = card[c].there,
           UNCHANGED <<issue, opened, mishaps>>
    PROVE  Sound' /\ Paid'
<1> DEFINE next == [worker[w] EXCEPT !.at = label]
           me == IF label = "idle" THEN Idle ELSE next
<1>1. next.at = label /\ next.ref = worker[w].ref
  BY DEF SInv, TypeOK, Worker
<1>2. /\ \A v \in Workers \ {w} : worker'[v] = worker[v]
      /\ worker'[w] = me
  BY <1>1, GoesTo DEF GoTo
<1>3. /\ me.at \in {"idle", "upsert", "write"}
      /\ me.at \in {"upsert", "write"} =>
             worker[w].at \in {"upsert", "write"} /\ me.ref = worker[w].ref
  BY <1>1, Blanks
<1> HIDE DEF me
<1> QED BY <1>2, <1>3, CalmMove

\* What _github does: the worker goes on to the intake, or is done.
LEMMA AfterHook ==
    ASSUME SInv, NEW w \in Workers, NEW row, _github(w, row)
    PROVE  \E me : /\ \A v \in Workers \ {w} : worker'[v] = worker[v]
                   /\ worker'[w] = me /\ me.at \in {"idle", "intake"}
<1>1. CASE worker[w].asked
  <2>1. Go(w, [worker[w] EXCEPT !.at = "idle"])
    BY <1>1 DEF _github, GoTo
  <2>2. [worker[w] EXCEPT !.at = "idle"].at = "idle"
    BY DEF SInv, TypeOK, Worker
  <2> QED BY <2>1, <2>2, Blanks, GoesTo
<1>2. CASE ~worker[w].asked
  <2> DEFINE next == [worker[w] EXCEPT !.at = "intake",
                                       !.copy = IF row.there = "live" THEN row ELSE @]
  <2>1. Go(w, next)
    BY <1>2 DEF _github
  <2>2. next.at = "intake"
    BY DEF SInv, TypeOK, Worker
  <2> HIDE DEF next
  <2> QED BY <2>1, <2>2, GoesTo
<1> QED BY <1>1, <1>2

LEMMA FetchPaid ==
    ASSUME SInv, Sound, Paid, NEW w \in Workers, _fetch_issue(w)
    PROVE  Sound' /\ Paid'
<1>1. /\ At(w, "fetch") /\ ~At(w, "open") /\ ~Settles(w)
      /\ UNCHANGED <<card, issue, opened, mishaps>>
  BY DEF _fetch_issue, At, Settles
<1>2. CASE Failed(w)
  BY <1>1, <1>2, FailedMove
<1>3. CASE ~Failed(w)
  <2> DEFINE n == worker[w].copy.ref
             next == [worker[w] EXCEPT !.at = "mirror", !.ref = n, !.seen = issue[n]]
  <2>1. issue[n].state # "absent" /\ Go(w, next)
    BY <1>3 DEF _fetch_issue
  <2>2. n \in Known
    <3>1. worker[w].copy \in Row /\ n # NoIssue
      BY <1>1 DEF SInv, TypeOK, Worker, FetchesIssues
    <3> QED BY <2>1, <3>1 DEF Row, Known
  <2>3. /\ next.at = "mirror" /\ next.card = worker[w].card
        /\ next.ref = n /\ next.copy = worker[w].copy
    BY DEF SInv, TypeOK, Worker
  <2> HIDE DEF next
  <2>4. /\ \A v \in Workers \ {w} : worker'[v] = worker[v]
        /\ worker'[w] = next
    BY <2>1, <2>3, GoesTo
  <2> QED BY <1>1, <2>2, <2>3, <2>4, CalmMove
<1> QED BY <1>2, <1>3

LEMMA StorePaid ==
    ASSUME SInv, Sound, Paid, NEW w \in Workers, store_mirror(w)
    PROVE  Sound' /\ Paid'
<1> DEFINE c == worker[w].card
           n == worker[w].ref
           own == worker[w].copy
           new == _mirror(own, n, worker[w].seen)
           want == Changed(c, own, new)
<1>1. /\ At(w, "mirror") /\ ~At(w, "open")
      /\ UNCHANGED <<issue, opened, mishaps>>
  BY DEF store_mirror, At
<1>2. /\ c \in Cards /\ own \in Row /\ n \in Issues \cup {NoIssue} /\ worker[w].seen \in Issue
      /\ card[c] \in Row
  BY DEF SInv, TypeOK, Worker
<1>3. /\ new \in Row /\ new.there = own.there /\ new.ref = n
  <2> DEFINE status == _status_for(worker[w].seen.state, own.status)
  <2>1. status \in Statuses /\ worker[w].seen.title \in Titles \cup {NoTitle}
    BY <1>2 DEF _status_for, Row, Issue, Statuses
  <2>2. new = [own EXCEPT !.ref = n, !.title = worker[w].seen.title, !.error = FALSE,
                           !.status = status]
    BY DEF _mirror
  <2> HIDE DEF new, status
  <2> QED BY <1>2, <2>1, <2>2 DEF Row
<1>4. /\ want.there = card[c].there
      /\ want.ref = IF own.ref = n THEN card[c].ref ELSE n
  <2> HIDE DEF new
  <2> QED BY <1>2, <1>3, ChangedIsRow
<1>5. own.ref \in {NoIssue, n} /\ n # NoIssue
  BY <1>1 DEF Sound, HookOK, At, Known, Issues, NoIssue
<1>6. CASE Taken(c, want.ref) /\ Live(c)
  <2>1. Failed(w) /\ UNCHANGED card
    BY <1>6 DEF store_mirror
  <2>2. ~Settles(w)
    BY <1>4, <1>5, <1>6 DEF Settles
  <2> QED BY <1>1, <2>1, <2>2, FailedMove
<1>7. CASE ~(Taken(c, want.ref) /\ Live(c))
  <2> DEFINE row == IF Live(c) THEN want ELSE card[c]
  <2>1. card' = [card EXCEPT ![c] = row] /\ _github(w, row)
    BY <1>7 DEF store_mirror
  <2>2. row.there = card[c].there
    BY <1>4
  <2>3. row.ref = IF Live(c) /\ own.ref # n THEN n ELSE card[c].ref
    BY <1>4
  <2>4. PICK me : /\ \A v \in Workers \ {w} : worker'[v] = worker[v]
                  /\ worker'[w] = me /\ me.at \in {"idle", "intake"}
    BY <2>1, AfterHook
  <2> HIDE DEF row, want
  <2>5. \A d \in Cards : card'[d] = IF d = c THEN row ELSE card[d]
    BY <1>2, <2>1 DEF SInv, TypeOK
  <2>6. CASE Live(c) /\ own.ref # n
    BY <1>1, <1>5, <2>1, <2>2, <2>3, <2>4, <2>6, SettleMove
  <2>7. CASE own.ref = n
    <3>1. ~Settles(w)
      BY <1>5, <2>7 DEF Settles
    <3>2. \A d \in Cards : card'[d].ref = card[d].ref /\ card'[d].there = card[d].there
      BY <2>2, <2>3, <2>5, <2>7
    <3> QED BY <1>1, <2>4, <3>1, <3>2, CalmMove
  <2>8. CASE ~Live(c) /\ own.ref # n
    BY <1>1, <1>2, <1>5, <2>2, <2>3, <2>4, <2>5, <2>8, GoneMove
  <2> QED BY <2>6, <2>7, <2>8
<1> QED BY <1>6, <1>7

LEMMA MarkPaid ==
    ASSUME SInv, Sound, Paid, NEW w \in Workers, mark_failed(w)
    PROVE  Sound' /\ Paid'
<1> DEFINE c == worker[w].card
           row == [card[c] EXCEPT !.error = Live(c) \/ @]
<1>1. /\ ~At(w, "open") /\ ~Settles(w)
      /\ UNCHANGED <<issue, opened, mishaps>>
  BY DEF mark_failed, At, Settles
<1>2. c \in Cards /\ card[c] \in Row
  BY DEF SInv, TypeOK, Worker
<1>3. row.ref = card[c].ref /\ row.there = card[c].there
  BY <1>2 DEF Row
<1>4. card' = [card EXCEPT ![c] = row] /\ _github(w, row)
  BY DEF mark_failed
<1> HIDE DEF row
<1>5. \A d \in Cards : card'[d].ref = card[d].ref /\ card'[d].there = card[d].there
  BY <1>2, <1>3, <1>4 DEF SInv, TypeOK
<1>6. PICK me : /\ \A v \in Workers \ {w} : worker'[v] = worker[v]
                /\ worker'[w] = me /\ me.at \in {"idle", "intake"}
  BY <1>4, AfterHook
<1> QED BY <1>1, <1>5, <1>6, CalmMove

LEMMA IntakePaid ==
    ASSUME SInv, Sound, Paid, NEW w \in Workers, _intake(w)
    PROVE  Sound' /\ Paid'
<1> DEFINE c == worker[w].card
<1>1. /\ ~At(w, "open") /\ ~Settles(w) /\ GoTo(w, "idle")
      /\ UNCHANGED <<issue, opened, mishaps>>
  BY DEF _intake, At, Settles
<1>2. c \in Cards /\ card[c] \in Row
  BY DEF SInv, TypeOK, Worker
<1>3. \/ card' = [card EXCEPT ![c] = [card[c] EXCEPT !.status = "in_progress", !.joined = TRUE]]
      \/ card' = [card EXCEPT ![c] = card[c]]
  BY <1>2 DEF _intake, SInv, TypeOK
<1>4. \A d \in Cards : card'[d].ref = card[d].ref /\ card'[d].there = card[d].there
  <2> DEFINE row == [card[c] EXCEPT !.status = "in_progress", !.joined = TRUE]
  <2>1. row.ref = card[c].ref /\ row.there = card[c].there
    BY <1>2 DEF Row
  <2> HIDE DEF row
  <2> QED BY <1>2, <1>3, <2>1 DEF SInv, TypeOK, row
<1> QED BY <1>1, <1>4, LabelMove

LEMMA LookupPaid ==
    ASSUME SInv, Sound, Paid, NEW w \in Workers, lookup(w)
    PROVE  Sound' /\ Paid'
<1> DEFINE found == get_by_issue_ref(worker[w].ref)
           c == CHOOSE c \in found : TRUE
           next == [worker[w] EXCEPT !.at = "write", !.card = c, !.copy = card[c]]
<1>1. /\ ~At(w, "open") /\ ~Settles(w) /\ worker[w].at = "upsert"
      /\ UNCHANGED <<card, issue, opened, mishaps>>
  BY DEF lookup, At, Settles
<1>2. CASE GoTo(w, "write") \/ GoTo(w, "idle")
  BY <1>1, <1>2, LabelMove
<1>3. CASE Go(w, next)
  <2>1. next.at = "write" /\ next.ref = worker[w].ref
    BY DEF SInv, TypeOK, Worker
  <2>2. PICK me : me = next
    OBVIOUS
  <2> HIDE DEF next
  <2>3. (\A v \in Workers \ {w} : worker'[v] = worker[v]) /\ worker'[w] = me
    BY <1>3, <2>1, <2>2, GoesTo
  <2> QED BY <1>1, <2>1, <2>2, <2>3, CalmMove
<1> QED BY <1>2, <1>3 DEF lookup

LEMMA UpsertPaid ==
    ASSUME SInv, Sound, Paid, NEW w \in Workers, upsert(w)
    PROVE  Sound' /\ Paid'
<1> DEFINE own == worker[w].copy
           n == worker[w].ref
           seen == worker[w].seen
           k == _next_card_key
           c == worker[w].card
           new == [Free EXCEPT !.there = "live", !.ref = n, !.title = seen.title,
                               !.status = imported_status(seen.state)]
           want == _changes_for(own, seen)
           row == IF Live(c) THEN Changed(c, own, want) ELSE card[c]
<1>1. /\ At(w, "write") /\ ~At(w, "open") /\ ~Settles(w)
      /\ UNCHANGED <<issue, opened, mishaps>>
  BY DEF upsert, At, Settles
<1>2. /\ c \in Cards /\ own \in Row /\ n \in Issues \cup {NoIssue} /\ seen \in Issue
      /\ card[c] \in Row
  BY DEF SInv, TypeOK, Worker
<1>3. CASE GoTo(w, "upsert") /\ UNCHANGED card
  BY <1>1, <1>3, LabelMove DEF At
<1>4. CASE GoTo(w, "idle") /\ UNCHANGED card
  BY <1>1, <1>4, LabelMove
<1>5. CASE GoTo(w, "idle") /\ k \in Cards /\ card' = [card EXCEPT ![k] = new]
  <2>1. new \in Row /\ new.there = "live" /\ new.ref = n
    <3>1. imported_status(seen.state) \in Statuses /\ seen.title \in Titles \cup {NoTitle}
      BY <1>2 DEF imported_status, Statuses, Issue
    <3> QED BY <1>2, <3>1, Blanks DEF Row
  <2>2. (\A v \in Workers \ {w} : worker'[v] = worker[v]) /\ worker'[w] = Idle
    <3>1. [worker[w] EXCEPT !.at = "idle"].at = "idle"
      BY DEF SInv, TypeOK, Worker
    <3> QED BY <1>5, <3>1, GoesTo DEF GoTo
  <2> HIDE DEF new
  <2> QED BY <1>1, <1>5, <2>1, <2>2, InsertMove
<1>6. CASE GoTo(w, "idle") /\ card' = [card EXCEPT ![c] = row]
  <2>1. want \in Row /\ want.ref = own.ref /\ want.there = own.there
    BY <1>2, ChangesAreRow
  <2> HIDE DEF want
  <2>2. row.ref = card[c].ref /\ row.there = card[c].there
    BY <1>2, <2>1, ChangedIsRow
  <2> HIDE DEF row
  <2>3. \A d \in Cards : card'[d].ref = card[d].ref /\ card'[d].there = card[d].there
    BY <1>2, <1>6, <2>2 DEF SInv, TypeOK
  <2> QED BY <1>1, <1>6, <2>3, LabelMove
<1>7. card \in [Cards -> Row]
  BY DEF SInv, TypeOK
<1> HIDE DEF new, want
<1>8. CASE own = Free
  BY <1>3, <1>4, <1>5, <1>8 DEF upsert, new
<1>9. CASE own # Free
  <2>1. GoTo(w, "idle") /\ card' = [card EXCEPT ![c] = row]
    BY <1>2, <1>7, <1>9 DEF upsert, want
  <2> QED BY <1>6, <2>1
<1> QED BY <1>8, <1>9

\* A hook that was about to open an issue is not any more.
LEMMA OpenerLeaves ==
    ASSUME NEW w \in Workers, \A v \in Workers \ {w} : worker'[v] = worker[v],
           NEW c, c = worker[w].card, At(w, "open"), ~At(w, "open")',
           IsFiniteSet(Openers(c))
    PROVE  /\ IsFiniteSet(Openers(c)') /\ Cardinality(Openers(c)') \in Nat
           /\ Cardinality(Openers(c)) = Cardinality(Openers(c)') + 1
<1>1. w \in Openers(c)
  BY DEF Openers
<1>2. Openers(c)' = Openers(c) \ {w}
  BY DEF Openers, At
<1>3. /\ IsFiniteSet(Openers(c) \ {w})
      /\ Cardinality(Openers(c) \ {w}) = Cardinality(Openers(c)) - 1
  BY <1>1, FS_RemoveElement
<1>4. Cardinality(Openers(c)) \in Nat /\ Cardinality(Openers(c) \ {w}) \in Nat
  BY <1>3, FS_CardinalityType
<1> QED BY <1>2, <1>3, <1>4

LEMMA OpenPaid ==
    ASSUME SInv, Sound, Paid, NEW w \in Workers, _open_issue(w)
    PROVE  Sound' /\ Paid'
<1>0. PICK c : c = worker[w].card
  OBVIOUS
<1>1. /\ worker[w] \in Worker /\ c \in Cards /\ opened[c] \in SUBSET Issues
      /\ worker \in [Workers -> Worker] /\ opened \in [Cards -> SUBSET Issues]
      /\ issue \in [Issues -> Issue]
  BY <1>0 DEF SInv, TypeOK, Worker
<1>2. At(w, "open") /\ UNCHANGED card /\ ~Settles(w)
  BY DEF _open_issue, At, Settles
<1>3. card[c].there # "free" /\ worker[w].copy.ref = NoIssue
  BY <1>0, <1>2 DEF Sound, HookOK, At
<1>4. Cardinality(opened[c]) \in Nat /\ IsFiniteSet(opened[c]) /\ mishaps \in Nat
  BY <1>1, Counts
<1>5. /\ IsFiniteSet(Openers(c)) /\ Cardinality(Openers(c)) \in Nat
      /\ Cardinality(opened[c]) + Cardinality(Openers(c)) <= mishaps + 1
  <2>1. PaidFor(c)
    BY <1>1 DEF Paid
  <2>2. IsFiniteSet(Openers(c)) /\ Cardinality(Openers(c)) \in Nat
    BY <2>1, FS_CardinalityType DEF PaidFor
  <2> QED BY <1>4, <2>1, <2>2 DEF PaidFor, Credit
\* What the cards and the workers say of one that moves on to me.
<1>6. ASSUME NEW me, \A v \in Workers \ {w} : worker'[v] = worker[v], worker'[w] = me,
             me.at \in {"mirror", "failed"}, Known \subseteq Known',
             \A d \in Cards \ {c} : opened'[d] = opened[d],
             me.at = "mirror" =>
                 /\ me.ref \in Known' \ Known /\ me.card = c /\ me.copy.ref = NoIssue
      PROVE  /\ Sound'
             /\ IsFiniteSet(Openers(c)') /\ Cardinality(Openers(c)') \in Nat
             /\ Cardinality(Openers(c)) = Cardinality(Openers(c)') + 1
             /\ \A d \in Cards \ {c} : Openers(d)' = Openers(d) /\ (Bare(d)' => Bare(d))
  <2>1. HookOK(worker[w])'
    BY <1>2, <1>3, <1>6 DEF HookOK
  <2>2. (\A v \in Workers : HookOK(worker[v]))' /\ OpenedOnce'
    BY <1>2, <1>6, <2>1, HooksMove DEF At
  <2>3. (\A d \in Cards : RowOK(d))' /\ MadeInOrder'
    BY <1>2, <1>3, <1>6, RowsStay
  <2>4. Sound'
    BY <2>2, <2>3 DEF Sound
  <2>5. ~At(w, "open")'
    BY <1>6 DEF At
  <2>6. /\ IsFiniteSet(Openers(c)') /\ Cardinality(Openers(c)') \in Nat
        /\ Cardinality(Openers(c)) = Cardinality(Openers(c)') + 1
    BY <1>0, <1>2, <1>5, <1>6, <2>5, OpenerLeaves
  <2>7. ASSUME NEW d \in Cards \ {c}
        PROVE  Openers(d)' = Openers(d) /\ (Bare(d)' => Bare(d))
    <3>1. Openers(d)' = Openers(d)
      BY <1>0, <1>6, <2>5, SameOpeners
    <3>2. \A n : Importing(n)' => Importing(n)
      BY <1>6, SameImports
    <3>3. ASSUME NEW v \in Workers \ {w}, worker[v].card = d, Settles(v)
          PROVE  ~Taken(d, worker[v].ref)' /\ ~Importing(worker[v].ref)'
      <4>1. worker'[v] = worker[v]
        BY <1>6
      <4>2. ~Taken(d, worker[v].ref) /\ ~Importing(worker[v].ref)
        BY <3>3 DEF Settles
      <4>3. PICK n : n = worker[v].ref
        OBVIOUS
      <4>4. ~Taken(d, n)' /\ ~Importing(n)'
        BY <1>2, <3>2, <4>2, <4>3 DEF Taken, Holds
      <4> QED BY <4>1, <4>3, <4>4 DEF Taken, Holds, Importing
    <3>4. Bare(d)' => Bare(d)
      BY <1>0, <1>2, <1>6, <2>5, <3>3, StillBare
    <3> QED BY <3>1, <3>4
  <2> QED BY <2>4, <2>6, <2>7
<1>7. ASSUME Failed(w)
      PROVE  \E me : /\ \A v \in Workers \ {w} : worker'[v] = worker[v]
                     /\ worker'[w] = me /\ me.at = "failed"
  <2> DEFINE next == [worker[w] EXCEPT !.at = "failed", !.ref = NoIssue, !.seen = Absent]
  <2>1. next.at = "failed"
    BY <1>1 DEF Worker
  <2>2. Go(w, next)
    BY <1>7 DEF Failed
  <2> HIDE DEF next
  <2> QED BY <2>1, <2>2, GoesTo
<1>8. CASE Failed(w) /\ UNCHANGED <<issue, opened, mishaps>>
  <2>1. PICK me : /\ \A v \in Workers \ {w} : worker'[v] = worker[v]
                  /\ worker'[w] = me /\ me.at = "failed"
    BY <1>7, <1>8
  <2>2. /\ Sound'
        /\ IsFiniteSet(Openers(c)') /\ Cardinality(Openers(c)') \in Nat
        /\ Cardinality(Openers(c)) = Cardinality(Openers(c)') + 1
        /\ \A d \in Cards \ {c} : Openers(d)' = Openers(d) /\ (Bare(d)' => Bare(d))
    BY <1>6, <1>8, <2>1 DEF Known
  <2>3. PaidFor(c)'
    <3>1. Credit(c)' \in {0, 1}
      BY DEF Credit
    <3>2. opened'[c] = opened[c] /\ mishaps' = mishaps
      BY <1>8
    <3> QED BY <1>4, <1>5, <2>2, <3>1, <3>2 DEF PaidFor
  <2>4. ASSUME NEW d \in Cards \ {c} PROVE PaidFor(d)'
    BY <1>4, <1>8, <2>2, SameAccount DEF Paid
  <2> QED BY <2>2, <2>3, <2>4 DEF Paid
<1>9. ASSUME NEW n \in Issues,
             LET new == [state |-> "open", title |-> worker[w].copy.title]
             IN  /\ issue[n].state = "absent"
                 /\ issue' = [issue EXCEPT ![n] = new]
                 /\ opened' = [opened EXCEPT ![worker[w].card] = @ \cup {n}]
                 /\ \/ /\ Go(w, [worker[w] EXCEPT !.at = "mirror", !.ref = n, !.seen = new])
                       /\ UNCHANGED mishaps
                    \/ Failed(w) /\ Mishap
      PROVE  Sound' /\ Paid'
  <2> DEFINE new == [state |-> "open", title |-> worker[w].copy.title]
             next == [worker[w] EXCEPT !.at = "mirror", !.ref = n, !.seen = new]
  <2>1. n \notin Known /\ n \in Known' /\ Known \subseteq Known' /\ n # NoIssue
    BY <1>1, <1>9 DEF Known, NoIssue, Issues
  <2>2. opened'[c] = opened[c] \cup {n} /\ \A d \in Cards \ {c} : opened'[d] = opened[d]
    BY <1>0, <1>1, <1>9
  <2>3. Cardinality(opened[c] \cup {n}) \in Nat
        /\ Cardinality(opened[c] \cup {n}) <= Cardinality(opened[c]) + 1
    <3>1. IsFiniteSet(opened[c] \cup {n})
          /\ Cardinality(opened[c] \cup {n}) \in {Cardinality(opened[c]), Cardinality(opened[c]) + 1}
      BY <1>4, FS_AddElement
    <3> QED BY <1>4, <3>1
  <2>4. CASE Failed(w) /\ Mishap
    <3>1. PICK me : /\ \A v \in Workers \ {w} : worker'[v] = worker[v]
                    /\ worker'[w] = me /\ me.at = "failed"
      BY <1>7, <2>4
    <3>2. /\ Sound'
          /\ IsFiniteSet(Openers(c)') /\ Cardinality(Openers(c)') \in Nat
          /\ Cardinality(Openers(c)) = Cardinality(Openers(c)') + 1
          /\ \A d \in Cards \ {c} : Openers(d)' = Openers(d)
      BY <1>6, <2>1, <2>2, <3>1
    <3>3. mishaps' = mishaps + 1
      BY <2>4 DEF Mishap
    <3>4. PaidFor(c)'
      <4>1. Credit(c)' \in {0, 1}
        BY DEF Credit
      <4>2. Cardinality(opened[c])' = Cardinality(opened[c] \cup {n})
        BY <2>2
      <4> QED BY <1>4, <1>5, <2>3, <3>2, <3>3, <4>1, <4>2 DEF PaidFor
    <3>5. ASSUME NEW d \in Cards \ {c} PROVE PaidFor(d)'
      BY <2>2, <3>2, <3>3, MishapPays DEF Paid
    <3> QED BY <3>2, <3>4, <3>5 DEF Paid
  <2>5. CASE Go(w, next) /\ UNCHANGED mishaps
    <3>1. /\ next.at = "mirror" /\ next.ref = n
          /\ next.card = c /\ next.copy.ref = NoIssue
      BY <1>0, <1>1, <1>3 DEF Worker
    <3>2. PICK me : me = next
      OBVIOUS
    <3> HIDE DEF next
    <3>3. (\A v \in Workers \ {w} : worker'[v] = worker[v]) /\ worker'[w] = me
      BY <2>5, <3>1, <3>2, GoesTo
    <3>4. /\ Sound'
          /\ IsFiniteSet(Openers(c)') /\ Cardinality(Openers(c)') \in Nat
          /\ Cardinality(Openers(c)) = Cardinality(Openers(c)') + 1
          /\ \A d \in Cards \ {c} : Openers(d)' = Openers(d) /\ (Bare(d)' => Bare(d))
      BY <1>6, <2>1, <2>2, <3>1, <3>2, <3>3
    <3>5. Credit(c)' = 1
      <4>1. ~Taken(c, n)'
        <5>1. \A d \in Cards : card[d].ref # n
          BY <2>1 DEF Sound, RowOK
        <5> QED BY <1>2, <5>1 DEF Taken, Holds
      <4>2. ~Importing(n)'
        <5>1. ~Importing(n)
          BY <2>1 DEF Sound, HookOK, Importing
        <5> QED BY <3>1, <3>2, <3>3, <5>1, SameImports
      <4>3. Settles(w)' /\ worker'[w].card = c
        <5>1. At(w, "mirror")' /\ worker'[w].copy.ref = NoIssue
          BY <3>1, <3>2, <3>3 DEF At
        <5>2. worker'[w].card = c /\ worker'[w].ref = n
          BY <3>1, <3>2, <3>3
        <5> QED BY <4>1, <4>2, <5>1, <5>2 DEF Settles, Taken, Holds, Importing
      <4>4. ~Bare(c)'
        BY <4>3 DEF Bare
      <4> QED BY <4>4 DEF Credit
    <3>6. PaidFor(c)'
      <4>1. Cardinality(opened[c])' = Cardinality(opened[c] \cup {n}) /\ mishaps' = mishaps
        BY <2>2, <2>5
      <4> QED BY <1>4, <1>5, <2>3, <3>4, <3>5, <4>1 DEF PaidFor
    <3>7. ASSUME NEW d \in Cards \ {c} PROVE PaidFor(d)'
      BY <1>4, <2>2, <2>5, <3>4, SameAccount DEF Paid
    <3> QED BY <3>4, <3>6, <3>7 DEF Paid
  <2> QED BY <1>9, <2>4, <2>5
<1> QED BY <1>8, <1>9 DEF _open_issue

-----------------------------------------------------------------------------
(* Requests, and what happens beside them.                                 *)

\* A request or a pass begins.
LEMMA BeginPaid ==
    ASSUME SInv, Sound, Paid, NEW w \in Workers, NEW start, Begin(w, start),
           start.at # "mirror",
           start.at = "open" => /\ start.copy.ref = NoIssue /\ start.card \in Cards
                                /\ card'[start.card].there = "live"
                                /\ card'[start.card].ref = NoIssue,
           start.at = "fetch" => card'[start.card].there # "free",
           start.at \in {"upsert", "write"} => start.ref \in Known,
           \A c \in Cards : card[c].there # "free" => card'[c].there # "free",
           \A c \in Cards :
               card'[c].there = "live" /\ card'[c].ref = NoIssue =>
                   card[c].there = "free" \/ (Live(c) /\ card[c].ref = NoIssue),
           (\A c \in Cards : RowOK(c))', MadeInOrder',
           UNCHANGED <<issue, opened>>
    PROVE  Sound' /\ Paid'
<1>1. Known' = Known
  BY DEF Known
<1>2. PICK me : me = IF start.at = "idle" THEN Idle ELSE start
  OBVIOUS
<1>3. (\A v \in Workers \ {w} : worker'[v] = worker[v]) /\ worker'[w] = me
  BY <1>2, GoesTo DEF Begin
<1>4. me.at = start.at /\ (me.at # "idle" => me = start)
  BY <1>2, Blanks
<1>5. HookOK(worker[w])' /\ ~At(w, "mirror")'
  BY <1>1, <1>3, <1>4 DEF HookOK, At
<1>6. (\A v \in Workers : HookOK(worker[v]))' /\ OpenedOnce'
  BY <1>1, <1>3, <1>5, HooksMove
<1>7. At(w, "idle")
  BY DEF Begin
<1>8. ASSUME NEW c \in Cards
      PROVE  \/ Openers(c)' = Openers(c)
             \/ Openers(c)' = Openers(c) \cup {w} /\ me.at = "open" /\ me.card = c
  <2>1. CASE me.at = "open" /\ me.card = c
    <3>1. Openers(c)' = Openers(c) \cup {w}
      BY <1>3, <2>1 DEF Openers, At
    <3> QED BY <2>1, <3>1
  <2>2. CASE ~(me.at = "open" /\ me.card = c)
    BY <1>3, <1>7, <2>2, SameOpeners DEF At
  <2> QED BY <2>1, <2>2
<1>9. ASSUME NEW c \in Cards PROVE PaidFor(c)'
  <2>1. opened'[c] = opened[c]
    OBVIOUS
  <2>2. CASE ~Quiet
    <3>1. mishaps' = mishaps + 1
      BY <2>2 DEF Begin, Mishap
    <3>2. Openers(c)' \subseteq Openers(c) \/ Openers(c)' = Openers(c) \cup {w}
      BY <1>8
    <3> QED BY <2>1, <3>1, <3>2, MishapPays DEF Paid
  <2>3. CASE Quiet
    <3>1. mishaps' = mishaps /\ mishaps \in Nat
      BY <2>3, Counts DEF Begin
    <3>2. Openers(c) = {} /\ \A v \in Workers : ~Settles(v)
      BY <2>3 DEF Quiet, Openers, At, Settles
    <3>3. Cardinality({}) = 0 /\ IsFiniteSet({})
      BY FS_EmptySet
    <3>4. Cardinality(opened[c]) \in Nat /\ Cardinality(opened[c]) <= mishaps + Credit(c)
      <4>1. Cardinality(opened[c]) \in Nat
        BY Counts
      <4>2. Cardinality(opened[c]) + 0 <= mishaps + Credit(c)
        BY <3>2, <3>3 DEF Paid, PaidFor
      <4> QED BY <4>1, <4>2
    <3>5. ASSUME card'[c].there = "live", card'[c].ref = NoIssue
          PROVE  Cardinality(opened[c]) <= mishaps
      <4>1. CASE card[c].there = "free"
        <5>1. opened[c] = {}
          BY <4>1 DEF Sound, RowOK
        <5> QED BY <3>1, <3>3, <5>1
      <4>2. CASE Live(c) /\ card[c].ref = NoIssue
        <5>1. Credit(c) = 0
          BY <3>2, <4>2 DEF Credit, Bare
        <5> QED BY <3>1, <3>4, <5>1
      <4> QED BY <3>5, <4>1, <4>2
    <3>6. CASE Openers(c)' = Openers(c)
      <4>1. Bare(c)' => Cardinality(opened[c]) <= mishaps
        BY <3>5 DEF Bare, Live
      <4>2. Credit(c)' = IF Bare(c)' THEN 0 ELSE 1
        BY DEF Credit
      <4>3. Cardinality(opened[c]) <= mishaps + 1
        BY <3>1, <3>4 DEF Credit
      <4> QED BY <2>1, <3>1, <3>2, <3>3, <3>4, <3>6, <4>1, <4>2, <4>3 DEF PaidFor
    <3>7. CASE Openers(c)' = Openers(c) \cup {w} /\ me.at = "open" /\ me.card = c
      <4>1. Cardinality(opened[c]) <= mishaps
        BY <1>4, <3>5, <3>7
      <4>2. IsFiniteSet({w}) /\ Cardinality({w}) = 1
        BY FS_Singleton
      <4>3. Openers(c)' = {w}
        BY <3>2, <3>7
      <4>4. Credit(c)' = 1
        BY <4>3 DEF Credit, Bare
      <4> QED BY <2>1, <3>1, <3>4, <4>1, <4>2, <4>3, <4>4 DEF PaidFor
    <3> QED BY <1>8, <3>6, <3>7
  <2> QED BY <2>2, <2>3
<1> QED BY <1>6, <1>9 DEF Sound, Paid

\* Where a write takes its request.
LEMMA StartsAt ==
    ASSUME NEW own
    PROVE  /\ sync_card(own) \in {"open", "fetch", "failed"}
           /\ maybe_sync(own) \in {"open", "fetch", "failed", "intake"}
           /\ sync_card(own) = "open" => own.ref = NoIssue
           /\ maybe_sync(own) = "open" => own.ref = NoIssue
BY DEF sync_card, maybe_sync

LEMMA PersonPaid ==
    ASSUME SInv, Sound, Paid, NEW w \in Workers, Write(w)
    PROVE  Sound' /\ Paid'
<1>0. card \in [Cards -> Row] /\ Idle \in Worker
  BY Blanks DEF SInv, TypeOK
\* The request of a card that is written.
<1>1. ASSUME NEW c \in Cards, NEW row \in Row, row.there = "live",
             card' = [card EXCEPT ![c] = row],
             row.ref = NoIssue /\ card[c].there # "free" => Live(c) /\ card[c].ref = NoIssue,
             Begin(w, [Idle EXCEPT !.at = maybe_sync(row), !.card = c, !.copy = row]),
             (\A d \in Cards : RowOK(d))', MadeInOrder',
             UNCHANGED <<issue, opened>>
      PROVE  Sound' /\ Paid'
  <2> DEFINE start == [Idle EXCEPT !.at = maybe_sync(row), !.card = c, !.copy = row]
  <2>1. start.at = maybe_sync(row) /\ start.card = c /\ start.copy = row
    BY <1>0 DEF Worker
  <2>2. Begin(w, start)
    BY <1>1
  <2> HIDE DEF start
  <2>3. \A d \in Cards : card'[d] = IF d = c THEN row ELSE card[d]
    BY <1>0, <1>1
  <2>4. /\ start.at \in {"open", "fetch", "failed", "intake"}
        /\ start.at = "open" => row.ref = NoIssue
    BY <2>1, StartsAt
  <2>5. \A d \in Cards :
           card'[d].there = "live" /\ card'[d].ref = NoIssue =>
               card[d].there = "free" \/ (Live(d) /\ card[d].ref = NoIssue)
    BY <1>1, <2>3 DEF Live
  <2> QED BY <1>1, <2>1, <2>2, <2>3, <2>4, <2>5, BeginPaid
<1>2. ASSUME NEW x \in Titles, NEW s \in {"backlog", "ready"},
             NEW n \in Known \cup {NoIssue},
             create_card(w, [Free EXCEPT !.there = "live", !.title = x,
                                         !.status = s, !.ref = n])
      PROVE  Sound' /\ Paid'
  <2> DEFINE row == [Free EXCEPT !.there = "live", !.title = x, !.status = s, !.ref = n]
             k == _next_card_key
  <2>1. row \in Row /\ row.there = "live" /\ row.ref = n
    BY Blanks DEF Row, Known, Statuses
  <2>2. /\ k \in Cards /\ card' = [card EXCEPT ![k] = row]
        /\ Begin(w, [Idle EXCEPT !.at = maybe_sync(row), !.card = k, !.copy = row])
        /\ UNCHANGED <<issue, opened>>
    BY <1>2 DEF create_card
  <2> HIDE DEF row
  <2>3. (\A c \in Cards : RowOK(c))' /\ MadeInOrder'
    BY <2>1, <2>2, RowIsMade
  <2>4. card[k].there = "free"
    BY <2>2, NextKey DEF Sound
  <2>5. PICK c : c = k
    OBVIOUS
  <2> HIDE DEF k
  <2> QED BY <1>1, <2>1, <2>2, <2>3, <2>4, <2>5
<1>3. ASSUME NEW c \in Cards, NEW x \in Titles,
             NEW s \in {card[c].status, "backlog", "ready"},
             NEW n \in Known \cup {card[c].ref},
             update_card(w, c, [card[c] EXCEPT !.title = x, !.status = s, !.ref = n])
      PROVE  Sound' /\ Paid'
  <2> DEFINE row == [card[c] EXCEPT !.title = x, !.status = s, !.ref = n]
  <2>1. /\ card' = [card EXCEPT ![c] = row] /\ Live(c)
        /\ Begin(w, [Idle EXCEPT !.at = maybe_sync(row), !.card = c, !.copy = row])
        /\ UNCHANGED <<issue, opened>>
    BY <1>3 DEF update_card
  <2>2. row \in Row /\ row.there = "live" /\ row.ref = n
    BY <1>0, <2>1 DEF Row, Known, Statuses, Live
  <2> HIDE DEF row
  <2>3. \A d \in Cards : card'[d] = IF d = c THEN row ELSE card[d]
    BY <1>0, <2>1
  <2>4. Known' = Known
    BY <2>1 DEF Known
  <2>5. (\A d \in Cards : RowOK(d))' /\ MadeInOrder'
    BY <2>1, <2>2, <2>3, <2>4, RowsStay DEF Live
  <2>6. row.ref = NoIssue => card[c].ref = NoIssue
    BY <2>2 DEF Known, Issues, NoIssue
  <2> QED BY <1>1, <2>1, <2>2, <2>5, <2>6
<1> QED BY <1>2, <1>3 DEF Write

LEMMA AskPaid ==
    ASSUME SInv, Sound, Paid, NEW w \in Workers, NEW c \in Cards, sync_card_github(w, c)
    PROVE  Sound' /\ Paid'
<1> DEFINE start == [Idle EXCEPT !.at = sync_card(card[c]), !.card = c,
                                 !.copy = card[c], !.asked = TRUE]
<1>1. Live(c) /\ Begin(w, start) /\ UNCHANGED <<card, issue, opened>>
  BY DEF sync_card_github
<1>2. start.at = sync_card(card[c]) /\ start.card = c /\ start.copy = card[c]
  BY Blanks DEF Worker
<1> HIDE DEF start
<1>3. /\ start.at \in {"open", "fetch", "failed"}
      /\ start.at = "open" => card[c].ref = NoIssue
  BY <1>2, StartsAt
<1>4. (\A d \in Cards : RowOK(d))' /\ MadeInOrder'
  BY <1>1, RowsStay DEF Known
<1> QED BY <1>1, <1>2, <1>3, <1>4, BeginPaid DEF Live

LEMMA ImportPaid ==
    ASSUME SInv, Sound, Paid, NEW w \in Workers, NEW n \in Issues, _import_one(w, n)
    PROVE  Sound' /\ Paid'
<1> DEFINE start == [Idle EXCEPT !.at = "upsert", !.ref = n, !.seen = issue[n]]
<1>1. /\ Begin(w, start) /\ UNCHANGED <<card, issue, opened>> /\ n \in Known
  BY DEF _import_one, Known
<1>2. start.at = "upsert" /\ start.ref = n
  BY DEF Idle
<1> HIDE DEF start
<1>3. (\A c \in Cards : RowOK(c))' /\ MadeInOrder'
  BY <1>1, RowsStay DEF Known
<1>4. \A c \in Cards :
         card'[c].there = "live" /\ card'[c].ref = NoIssue =>
             card[c].there = "free" \/ (Live(c) /\ card[c].ref = NoIssue)
  BY <1>1 DEF Live
<1> QED BY <1>1, <1>2, <1>3, <1>4, BeginPaid

\* What happens beside the requests: an overlap if there are any.
LEMMA BesidePaid ==
    ASSUME SInv, Sound, Paid, Known' = Known, UNCHANGED <<opened, worker>>,
           \A c \in Cards : card'[c].ref = card[c].ref,
           \A c \in Cards : card'[c].there = "free" <=> card[c].there = "free",
           \A c \in Cards : card'[c].there = "live" => Live(c),
           \/ Mishap
           \/ UNCHANGED mishaps /\ (Quiet \/ \A c \in Cards : card'[c].there = card[c].there)
    PROVE  Sound' /\ Paid'
<1>1. (\A c \in Cards : RowOK(c))' /\ MadeInOrder'
  BY RowsStay
<1>2. (\A w \in Workers : HookOK(worker[w]))'
  <2>1. \A w \in Workers : worker[w].card \in Cards
    BY DEF SInv, TypeOK, Worker
  <2> QED BY <2>1 DEF Sound, HookOK
<1>3. OpenedOnce'
  BY DEF Sound, OpenedOnce, At
<1>4. ASSUME NEW c \in Cards PROVE PaidFor(c)'
  <2>1. Openers(c)' = Openers(c) /\ opened'[c] = opened[c]
    BY DEF Openers, At
  <2>2. CASE Mishap
    BY <2>1, <2>2, MishapPays DEF Paid, Mishap
  <2>3. CASE UNCHANGED mishaps /\ (Quiet \/ \A d \in Cards : card'[d].there = card[d].there)
    <3>1. Bare(c)' => Bare(c)
      <4>1. CASE Quiet
        BY <2>1, <4>1 DEF Quiet, Bare, Settles, At, Live
      <4>2. CASE \A d \in Cards : card'[d].there = card[d].there
        BY <2>1, <4>2 DEF Bare, Settles, At, Live, Taken, Holds, Importing
      <4> QED BY <2>3, <4>1, <4>2
    <3> QED BY <2>1, <2>3, <3>1, SameAccount, Counts DEF Paid
  <2> QED BY <2>2, <2>3
<1> QED BY <1>1, <1>2, <1>3, <1>4 DEF Sound, Paid

LEMMA RestartPaid ==
    ASSUME SInv, Sound, Paid, Restart
    PROVE  Sound' /\ Paid'
<1>1. /\ UNCHANGED <<card, issue, opened>> /\ mishaps' = mishaps + 1
      /\ \A w \in Workers : worker'[w] = Idle
  BY DEF Restart, Mishap
<1>2. (\A c \in Cards : RowOK(c))' /\ MadeInOrder'
  BY <1>1, RowsStay DEF Known
<1>3. (\A w \in Workers : HookOK(worker[w]))' /\ OpenedOnce'
  BY <1>1, Blanks DEF HookOK, OpenedOnce, At
<1>4. ASSUME NEW c \in Cards PROVE PaidFor(c)'
  <2>1. Openers(c)' \subseteq Openers(c)
    BY <1>1, Blanks DEF Openers, At
  <2> QED BY <1>1, <2>1, MishapPays DEF Paid
<1> QED BY <1>2, <1>3, <1>4 DEF Sound, Paid

LEMMA PaidInit == Init => Sound /\ Paid
<1> SUFFICES ASSUME Init PROVE Sound /\ Paid
  OBVIOUS
<1>1. /\ \A c \in Cards : card[c].there = "free" /\ card[c].ref = NoIssue /\ opened[c] = {}
      /\ \A w \in Workers : worker[w].at = "idle"
      /\ mishaps = 0
  BY Blanks DEF Init
<1>2. Sound
  <2>1. MadeInOrder
    <3>1. 0 \in 0 .. MaxCard /\ \A c \in Cards : c > 0
      BY Bounds DEF Cards
    <3> QED BY <1>1, <3>1 DEF MadeInOrder
  <2> QED BY <1>1, <2>1 DEF Sound, HookOK, RowOK, OpenedOnce, At
<1>3. ASSUME NEW c \in Cards PROVE PaidFor(c)
  <2>1. Openers(c) = {} /\ Credit(c) = 1
    BY <1>1 DEF Openers, Credit, Bare, Live, At
  <2>2. IsFiniteSet({}) /\ Cardinality({}) = 0
    BY FS_EmptySet
  <2>3. Cardinality(opened[c]) = 0 /\ Cardinality(Openers(c)) = 0 /\ IsFiniteSet(Openers(c))
    BY <1>1, <2>1, <2>2
  <2> QED BY <1>1, <2>1, <2>3 DEF PaidFor
<1> QED BY <1>2, <1>3 DEF Paid

LEMMA PaidNext == SInv /\ Sound /\ Paid /\ [Next]_vars => Sound' /\ Paid'
<1> SUFFICES ASSUME SInv, Sound, Paid, [Next]_vars PROVE Sound' /\ Paid'
  OBVIOUS
<1>0. card \in [Cards -> Row]
  BY DEF SInv, TypeOK
<1>1. ASSUME NEW w \in Workers, Step(w) PROVE Sound' /\ Paid'
  BY <1>1, OpenPaid, FetchPaid, StorePaid, MarkPaid, IntakePaid, LookupPaid, UpsertPaid DEF Step
<1>2. ASSUME NEW c \in Cards, delete_card(c) PROVE Sound' /\ Paid'
  <2> DEFINE row == [Free EXCEPT !.there = "deleted", !.ref = card[c].ref]
  <2>1. row.there = "deleted" /\ row.ref = card[c].ref
    BY DEF Free
  <2>2. /\ card' = [card EXCEPT ![c] = row] /\ Live(c)
        /\ UNCHANGED <<issue, opened, worker>>
        /\ Mishap \/ (UNCHANGED mishaps /\ Quiet)
    BY <1>2 DEF delete_card
  <2> HIDE DEF row
  <2>3. \A d \in Cards : card'[d] = IF d = c THEN row ELSE card[d]
    BY <1>0, <2>2
  <2> QED BY <2>1, <2>2, <2>3, BesidePaid DEF Live, Known
<1>3. ASSUME NEW c \in Cards, Finish(c) PROVE Sound' /\ Paid'
  <2> DEFINE row == [card[c] EXCEPT !.status = "done"]
  <2>1. row.there = card[c].there /\ row.ref = card[c].ref
    BY <1>0 DEF Row
  <2>2. /\ card' = [card EXCEPT ![c] = row]
        /\ UNCHANGED <<issue, opened, worker>>
        /\ Mishap \/ (UNCHANGED mishaps /\ Quiet)
    BY <1>3 DEF Finish
  <2> HIDE DEF row
  <2>3. \A d \in Cards : card'[d] = IF d = c THEN row ELSE card[d]
    BY <1>0, <2>2
  <2> QED BY <2>1, <2>2, <2>3, BesidePaid DEF Live, Known
<1>4. ASSUME NEW n \in Issues, NEW new \in [state : {"open", "closed"}, title : Titles],
             EditIssue(n, new)
      PROVE  Sound' /\ Paid'
  <2>1. Known' = Known
    BY <1>4 DEF EditIssue, Known, SInv, TypeOK
  <2> QED BY <1>4, <2>1, BesidePaid DEF EditIssue, Live
<1>5. CASE UNCHANGED vars
  BY <1>5, BesidePaid DEF vars, Live, Known
<1> QED BY <1>1, <1>2, <1>3, <1>4, <1>5, PersonPaid, AskPaid, ImportPaid, RestartPaid DEF Next

THEOREM PaidInductive == Spec => [](SInv /\ Sound /\ Paid)
BY InitInv, NextInv, PaidInit, PaidNext, PTL DEF Spec

\* However many requests and passes there are, what each card has opened on the
\* host beyond its first issue is no more than the overlaps, the restarts and the
\* answers that were lost.
THEOREM IssuesArePaidFor == Spec => []ExtraIssuesNeedMishaps
<1>1. SInv /\ Paid => ExtraIssuesNeedMishaps
  <2> SUFFICES ASSUME SInv, Paid, NEW c \in Cards
               PROVE  Cardinality(opened[c]) <= 1 + mishaps
    BY DEF ExtraIssuesNeedMishaps
  <2>1. Cardinality(opened[c]) \in Nat /\ mishaps \in Nat
    BY Counts
  <2>2. PaidFor(c)
    BY DEF Paid
  <2>3. Cardinality(Openers(c)) \in Nat
    BY <2>2, FS_CardinalityType DEF PaidFor
  <2> QED BY <2>1, <2>2, <2>3 DEF PaidFor, Credit
<1> QED BY <1>1, PaidInductive, PTL

-----------------------------------------------------------------------------
(* The comments of imported cards: lowest and highest, and the types.      *)

LEMMA LowestIn ==
    ASSUME NEW S \in SUBSET Nat, S # {}
    PROVE  Min(S) \in S /\ \A k \in S : Min(S) <= k
<1> DEFINE R == OpToRel(<, Nat)
<1>1. IsWellFoundedOn(R, Nat)
  BY NatLessThanWellFounded, Zenon
<1>2. PICK n \in S : \A k \in S : ~(<<k, n>> \in R)
  <2> HIDE DEF R
  <2> QED BY <1>1, WFMin
<1>3. \A k \in S : n <= k
  <2>1. TAKE k \in S
  <2>2. ~(k < n)
    BY <1>2 DEF OpToRel
  <2> QED BY <2>2
<1> QED BY <1>3 DEF Min

LEMMA HighestIn ==
    ASSUME NEW S \in SUBSET Comments, S # {}
    PROVE  \E n \in S : \A k \in S : k <= n
<1>0. PICK N \in Nat : Comments = 1 .. N
  BY Threads, FS_CardinalityType
<1> DEFINE T == {N - k : k \in S}
<1>1. T \in SUBSET Nat /\ T # {}
  <2>1. \A k \in S : N - k \in Nat
    BY <1>0
  <2>2. PICK k \in S : TRUE
    OBVIOUS
  <2>3. N - k \in T
    BY <2>2
  <2> QED BY <2>1, <2>3
<1>2. PICK m \in T : \A k \in T : m <= k
  <2> HIDE DEF T
  <2> QED BY <1>1, LowestIn
<1>3. PICK n \in S : m = N - n
  OBVIOUS
<1>4. \A k \in S : m <= N - k
  BY <1>2
<1>5. \A k \in S : k \in 1 .. N
  BY <1>0
<1> QED BY <1>0, <1>3, <1>4, <1>5

LEMMA CommentsAreNat == Comments \in SUBSET Nat /\ IsFiniteSet(Comments)
BY Threads, FS_CardinalityType

\* What a pass keeps.
PassRecord ==
    [pc : {"idle", "read", "stamp", "store"}, group : {"warm", "cold"},
     warm : SUBSET CardIssues, cold : SUBSET CardIssues, since : Nat,
     todo : SUBSET CardIssues, page : Nat, token : Nat,
     got : [Comments -> Times \cup {0}], twice : SUBSET Comments,
     began : Nat, stamp : Times \cup {Null}]

GroupOf(r) == IF r.group = "warm" THEN r.warm ELSE r.cold

\* A group that is read or stored has threads.
PassOK(r) ==
    /\ r \in PassRecord
    /\ r.pc # "idle" => GroupOf(r) # {}
    /\ r.pc \in {"read", "store"} => r.todo # {}

TypesInv ==
    /\ provider \in {"github", "gitlab", "azure_devops"}
    /\ now \in Times /\ written \in Nat
    /\ host \in [Comments -> Times \cup {0}]
    /\ copy \in [Comments -> Times \cup {0}]
    /\ synced \in [CardIssues -> Times \cup {Null}]
    /\ skipped \subseteq Comments
    /\ DOMAIN pass = Passes /\ pass = [p \in Passes |-> pass[p]]
    /\ \A p \in Passes : PassOK(pass[p])

LEMMA IdleOK == PassOK(IdlePass) /\ IdlePass.pc = "idle"
BY DEF PassOK, PassRecord, IdlePass, NothingRead, Null, GroupOf

LEMMA ReadingOK ==
    ASSUME NEW r \in PassRecord, now \in Nat, NEW g \in {"warm", "cold"},
           (IF g = "warm" THEN r.warm ELSE r.cold) # {}
    PROVE  /\ PassOK(Reading(r, g))
           /\ Reading(r, g).pc = "read" /\ Reading(r, g).group = g
           /\ Reading(r, g).warm = r.warm /\ Reading(r, g).cold = r.cold
           /\ Reading(r, g).since = r.since /\ Reading(r, g).page = 1
           /\ Reading(r, g).todo = (IF g = "warm" THEN r.warm ELSE r.cold)
           /\ Reading(r, g).token = 0 /\ Reading(r, g).got = NothingRead
           /\ Reading(r, g).began = now /\ Reading(r, g).stamp = r.stamp
<1>1. NothingRead \in [Comments -> Times \cup {0}]
  BY DEF NothingRead
<1>2. Reading(r, g) \in PassRecord
  BY <1>1 DEF Reading, PassRecord
<1>3. /\ Reading(r, g).pc = "read" /\ Reading(r, g).group = g
      /\ Reading(r, g).warm = r.warm /\ Reading(r, g).cold = r.cold
      /\ Reading(r, g).since = r.since /\ Reading(r, g).page = 1
      /\ Reading(r, g).token = 0 /\ Reading(r, g).got = NothingRead
      /\ Reading(r, g).began = now /\ Reading(r, g).stamp = r.stamp
  BY DEF Reading, PassRecord
<1>4. Reading(r, g).todo = (IF g = "warm" THEN r.warm ELSE r.cold)
  BY DEF Reading, PassRecord
<1> QED BY <1>2, <1>3, <1>4 DEF PassOK, GroupOf

\* What follows a group: nothing, or the cold group.
Fresh(s) ==
    \/ s = IdlePass
    \/ /\ s.pc = "read" /\ s.group = "cold" /\ s.since = Null /\ s.stamp = Null
       /\ s.began = now /\ s.got = NothingRead /\ s.page = 1 /\ s.token = 0
       /\ s.todo = s.cold

LEMMA NextGroupOK ==
    ASSUME NEW r \in PassRecord, now \in Nat
    PROVE  PassOK(NextGroup(r)) /\ Fresh(NextGroup(r))
<1>1. CASE r.group = "warm" /\ r.cold # {}
  <2> DEFINE x == [IdlePass EXCEPT !.cold = r.cold]
  <2>1. /\ x \in PassRecord /\ x.cold = r.cold /\ x.since = Null /\ x.stamp = Null
    BY DEF PassRecord, IdlePass, NothingRead, Null
  <2>2. NextGroup(r) = Reading(x, "cold")
    BY <1>1 DEF NextGroup
  <2> HIDE DEF x
  <2> QED BY <1>1, <2>1, <2>2, ReadingOK DEF Fresh
<1>2. CASE ~(r.group = "warm" /\ r.cold # {})
  BY <1>2, IdleOK DEF NextGroup, Fresh
<1> QED BY <1>1, <1>2

\* The window starts an overlap before the oldest marker.
LEMMA SinceIs ==
    ASSUME TypesInv
    PROVE  /\ since \in Nat
           /\ Warm = {} => since = Null
           /\ \A i \in Warm : since + Overlap <= synced[i]
<1>1. CASE Warm = {}
  BY <1>1 DEF since, Null
<1>2. CASE Warm # {}
  <2> DEFINE S == {synced[i] : i \in Warm}
  <2>1. S \in SUBSET Times /\ S # {}
    BY <1>2 DEF TypesInv, Warm
  <2>2. Times \subseteq Nat /\ \A t \in Times : t > Overlap
    BY CommentBounds DEF Times
  <2>3. Min(S) \in S /\ \A k \in S : Min(S) <= k
    <3> HIDE DEF S
    <3> QED BY <2>1, <2>2, LowestIn
  <2>4. since = Min(S) - Overlap
    BY <1>2 DEF since
  <2>5. \A i \in Warm : Min(S) <= synced[i] /\ synced[i] \in Nat
    BY <2>1, <2>2, <2>3
  <2>6. Min(S) \in Nat /\ Min(S) > Overlap
    BY <2>1, <2>2, <2>3
  <2> HIDE DEF S
  <2>7. since \in Nat /\ \A i \in Warm : since + Overlap <= synced[i]
    BY <2>4, <2>5, <2>6, CommentBounds
  <2> QED BY <1>2, <2>7
<1> QED BY <1>1, <1>2

-----------------------------------------------------------------------------
(* Pages.                                                                  *)

LEMMA PagesAreParts ==
    ASSUME NEW p \in Passes
    PROVE  /\ Kept(p) \subseteq Page(p) /\ Page(p) \subseteq Rest(p, host)
           /\ \A h : Rest(p, h) \subseteq Listed(p, h) /\ Listed(p, h) \subseteq Comments
           /\ \A h : \A c \in Listed(p, h) : h[c] # 0
<1>1. \A h : Listed(p, h) \subseteq Comments /\ \A c \in Listed(p, h) : h[c] # 0
  BY DEF Listed
<1>2. \A h : Rest(p, h) \subseteq Listed(p, h)
  BY DEF Rest
<1>3. Page(p) \subseteq Rest(p, host)
  BY DEF Page
<1>4. Kept(p) \subseteq Page(p)
  BY DEF Kept
<1> QED BY <1>1, <1>2, <1>3, <1>4

\* On Azure DevOps what is left after a page is older than the page.
LEMMA OldestOfPage ==
    ASSUME NEW p \in Passes, provider = "azure_devops", Page(p) # Rest(p, host)
    PROVE  /\ Min(Page(p)) \in Page(p)
           /\ \A c \in Rest(p, host) \ Page(p) : \A e \in Page(p) : c < e
<1> DEFINE rest == Rest(p, host)
           above(c) == {d \in rest : d > c}
<1>1. rest \subseteq Comments /\ Page(p) \subseteq rest /\ \A d \in rest : d \in Nat
  BY PagesAreParts, CommentsAreNat
<1>2. Page(p) = {c \in rest : Cardinality(above(c)) < PageSize}
  BY DEF Page
<1>3. PageSize \in Nat /\ PageSize > 0
  BY CommentBounds
<1>4. Page(p) # {}
  <2>1. rest # {}
    BY <1>1
  <2>2. PICK n \in rest : \A k \in rest : k <= n
    BY <1>1, <2>1, HighestIn
  <2>3. above(n) = {}
    BY <1>1, <2>2
  <2>4. Cardinality(above(n)) = 0
    BY <2>3, FS_EmptySet
  <2> QED BY <1>2, <1>3, <2>4
<1>5. Min(Page(p)) \in Page(p)
  <2>1. Page(p) \in SUBSET Nat
    BY <1>1, CommentsAreNat
  <2> QED BY <1>4, <2>1, LowestIn
<1>6. ASSUME NEW c \in rest \ Page(p), NEW e \in Page(p) PROVE c < e
  <2>1. c \in Nat /\ e \in Nat /\ c # e
    BY <1>1, CommentsAreNat
  <2>2. SUFFICES ASSUME e < c PROVE FALSE
    BY <2>1
  <2>3. above(c) \subseteq above(e)
    <3>1. \A d \in rest : d > c => d > e
      BY <1>1, <2>1, <2>2
    <3> QED BY <3>1
  <2>4. IsFiniteSet(above(e))
    BY <1>1, CommentsAreNat, FS_Subset
  <2>5. /\ Cardinality(above(c)) \in Nat /\ Cardinality(above(e)) \in Nat
        /\ Cardinality(above(c)) <= Cardinality(above(e))
    <3> HIDE DEF above
    <3>1. IsFiniteSet(above(c)) /\ Cardinality(above(c)) <= Cardinality(above(e))
      BY <2>3, <2>4, FS_Subset
    <3> QED BY <2>4, <3>1, FS_CardinalityType
  <2>6. Cardinality(above(e)) < PageSize /\ ~(Cardinality(above(c)) < PageSize)
    <3> HIDE DEF above
    <3> QED BY <1>2
  <2> HIDE DEF above
  <2> QED BY <2>5, <2>6, <1>3
<1> QED BY <1>5, <1>6

\* Elsewhere the place of a comment is the number of those before it.
LEMMA PlaceIs ==
    ASSUME NEW p \in Passes, host \in [Comments -> Nat], NEW c \in Listed(p, host),
           provider \in {"github", "gitlab"}
    PROVE  /\ Place(p, host, c) \in Nat
           /\ Place(p, host, c) < Cardinality(Listed(p, host))
           /\ Cardinality(Listed(p, host)) \in Nat
           /\ \A e \in Listed(p, host) :
                 Before(p, host, c, e) => Place(p, host, c) <= Place(p, host, e)
           /\ \A e \in Listed(p, host) :
                 c = e \/ Before(p, host, c, e) \/ Before(p, host, e, c)
<1> DEFINE listed == Listed(p, host)
           Bf(a, b) == Before(p, host, a, b)
           before(e) == {d \in listed : Bf(d, e)}
<1>1. listed \subseteq Comments
  BY PagesAreParts
<1>2. \A a, b \in Comments : a \in Nat /\ host[a] \in Nat
  BY CommentsAreNat
<1> DEFINE Older(a, b) == host[a] < host[b] \/ (host[a] = host[b] /\ a < b)
<1>a. \A a, b, d \in Comments :
         /\ ~Older(a, a) /\ (a = b \/ Older(a, b) \/ Older(b, a))
         /\ Older(a, b) /\ Older(b, d) => Older(a, d)
  BY <1>2
<1>b. \/ \A a, b : Bf(a, b) <=> Older(a, b)
      \/ \A a, b : Bf(a, b) <=> a < b
      \/ \A a, b : Bf(a, b) <=> Older(b, a)
  <2> HIDE DEF Older
  <2>1. CASE Bulk(p)
    BY <2>1 DEF Before, Older, Bulk
  <2>2. CASE ~Bulk(p) /\ provider = "github"
    BY <2>2 DEF Before
  <2>3. CASE ~Bulk(p) /\ provider = "gitlab"
    BY <2>3 DEF Before, Older
  <2> QED BY <2>1, <2>2, <2>3
<1> HIDE DEF Bf, Older
<1>3. \A a, b \in Comments : ~Bf(a, a) /\ (a = b \/ Bf(a, b) \/ Bf(b, a))
  BY <1>2, <1>a, <1>b
<1>4. \A a, b, d \in Comments : Bf(a, b) /\ Bf(b, d) => Bf(a, d)
  BY <1>2, <1>a, <1>b
<1>5. IsFiniteSet(listed)
  BY <1>1, CommentsAreNat, FS_Subset
<1>6. \A e \in listed : before(e) \subseteq listed /\ before(e) # listed
  BY <1>1, <1>3
<1>7. \A e \in listed : before(c) \subseteq before(e) \/ ~Bf(c, e)
  BY <1>1, <1>4
<1>8. \A e \in listed : Place(p, host, e) = Cardinality(before(e))
  BY DEF Place, Bf
<1> HIDE DEF before, listed
<1>9. c \in listed
  BY DEF listed
<1>10. \A e \in listed : IsFiniteSet(before(e)) /\ Cardinality(before(e)) \in Nat
  <2>1. TAKE e \in listed
  <2>2. IsFiniteSet(before(e))
    BY <1>5, <1>6, FS_Subset
  <2> QED BY <2>2, FS_CardinalityType
<1>11. Cardinality(before(c)) < Cardinality(listed) /\ Cardinality(listed) \in Nat
  <2>1. Cardinality(listed) \in Nat
    BY <1>5, FS_CardinalityType
  <2>2. Cardinality(before(c)) <= Cardinality(listed)
    BY <1>5, <1>6, <1>9, FS_Subset
  <2>3. Cardinality(before(c)) # Cardinality(listed)
    BY <1>5, <1>6, <1>9, FS_Subset
  <2> QED BY <1>9, <1>10, <2>1, <2>2, <2>3
<1>12. \A e \in listed : Bf(c, e) => Cardinality(before(c)) <= Cardinality(before(e))
  <2>1. TAKE e \in listed
  <2>2. HAVE Bf(c, e)
  <2>3. before(c) \subseteq before(e)
    BY <1>7, <2>2
  <2> QED BY <1>10, <2>3, FS_Subset
<1> QED BY <1>1, <1>3, <1>8, <1>9, <1>10, <1>11, <1>12 DEF listed, Bf

-----------------------------------------------------------------------------
(* The invariant.                                                          *)

\* On Azure DevOps a comment that no newer one hides is older than these.
AgeInv ==
    provider = "azure_devops" =>
        \A c \in Comments \ skipped, d \in Comments :
            IssueOf[c] = IssueOf[d] /\ c < d /\ host[c] # 0 /\ host[d] # 0 => host[c] <= host[d]

PlatformInv ==
    /\ \A c \in Comments : host[c] <= now /\ (c > written => host[c] = 0)
    /\ \A i \in CardIssues : synced[i] <= now

\* The threads of its group that a pass may still mark.
Owed(p) == IF PassAt(p, "store") THEN pass[p].todo ELSE GroupOf(pass[p])

\* The walk has still to come to c.
Ahead(p, c) ==
    /\ PassAt(p, "read")
    /\ IssueOf[c] \in pass[p].todo
    /\ Bulk(p) \/ IssueOf[c] = Min(pass[p].todo) => c \in Rest(p, host)

\* What was there when the group began is out of its window, was read, or is ahead.
Sees(p, c) ==
    host[c] # 0 /\ host[c] < pass[p].began =>
        /\ pass[p].got[c] \in {0, host[c]}
        /\ IssueOf[c] \in Owed(p) =>
              host[c] <= Window(p) \/ pass[p].got[c] = host[c] \/ Ahead(p, c)

\* What the window leaves out is on the card.
Keeps(p, c) ==
    host[c] # 0 /\ IssueOf[c] \in Owed(p) /\ host[c] <= Window(p) => copy[c] = host[c]

Timely(p) ==
    /\ pass[p].began <= now /\ now < pass[p].began + Overlap
    /\ pass[p].stamp <= now
    /\ pass[p].since = Null \/ pass[p].since + Overlap <= now

PassInv(p) ==
    ~PassAt(p, "idle") =>
        Timely(p) /\ \A c \in Comments \ skipped : Sees(p, c) /\ Keeps(p, c)

ThreadInv ==
    TypesInv /\ PlatformInv /\ AgeInv /\ (\A p \in Passes : PassInv(p)) /\ ThreadsAreWhole

-----------------------------------------------------------------------------
(* A page is read.                                                         *)

\* A walk that stops early has come to a comment that the window leaves out.
LEMMA StopsAt ==
    ASSUME NEW p \in Passes, NEW c \in Page(p) \ Kept(p), TypesInv, AgeInv
    PROVE  /\ provider # "github"
           /\ \E d \in Page(p) : host[d] <= Window(p)
           /\ c \notin skipped => host[c] <= Window(p)
<1>0. Page(p) \subseteq Comments /\ Page(p) \subseteq Listed(p, host)
  BY PagesAreParts
<1>1. provider # "github" /\ Window(p) # Null
  BY DEF Kept
<1>2. PICK d \in Page(p) : (d = c \/ Before(p, host, d, c)) /\ ~(host[d] > Window(p))
  BY <1>1 DEF Kept
<1>3. Window(p) \in Nat /\ \A e \in Comments : host[e] \in Nat /\ e \in Nat
  BY CommentBounds, CommentsAreNat DEF Window, TypesInv, PassOK, PassRecord, Times, Null
<1>4. host[d] <= Window(p)
  BY <1>0, <1>2, <1>3
<1>5. ASSUME c \notin skipped, d # c PROVE host[c] <= host[d]
  <2>1. CASE provider = "gitlab"
    BY <1>0, <1>2, <1>3, <1>5, <2>1 DEF Before, Bulk
  <2>2. CASE provider = "azure_devops"
    <3>1. c < d
      BY <1>0, <1>2, <1>3, <1>5, <2>2 DEF Before, Bulk
    <3>2. IssueOf[c] = IssueOf[d] /\ host[c] # 0 /\ host[d] # 0
      BY <1>0, <2>2 DEF Listed, Bulk
    <3> QED BY <1>0, <1>5, <2>2, <3>1, <3>2 DEF AgeInv
  <2> QED BY <1>1, <2>1, <2>2 DEF TypesInv
<1>6. c \notin skipped => host[c] <= Window(p)
  BY <1>0, <1>3, <1>4, <1>5
<1> QED BY <1>1, <1>4, <1>6

\* A comment that is left is kept, out of the window, or on a later page.
LEMMA PageDecides ==
    ASSUME NEW p \in Passes, NEW c \in Rest(p, host) \ skipped, TypesInv, AgeInv
    PROVE  \/ c \in Kept(p)
           \/ host[c] <= Window(p)
           \/ /\ ~LastPage(p)
              /\ provider = "azure_devops" => c < Min(Page(p)) /\ Min(Page(p)) \in Page(p)
              /\ provider # "azure_devops" => Place(p, host, c) >= PageSize * pass[p].page
<1>0. /\ Page(p) \subseteq Comments /\ Page(p) \subseteq Listed(p, host)
      /\ c \in Comments /\ c \in Listed(p, host)
  BY PagesAreParts
<1>1. CASE c \in Page(p)
  BY <1>1, StopsAt
<1>2. CASE c \notin Page(p)
  <2>0. Window(p) \in Nat /\ \A e \in Comments : host[e] \in Nat /\ e \in Nat
    BY CommentBounds, CommentsAreNat DEF Window, TypesInv, PassOK, PassRecord, Times, Null
  <2>1. CASE provider = "azure_devops"
    <3>1. /\ Page(p) # Rest(p, host) /\ Min(Page(p)) \in Page(p)
          /\ \A e \in Page(p) : c < e
      BY <1>2, <2>1, OldestOfPage
    <3>2. CASE Kept(p) = Page(p)
      BY <2>1, <3>1, <3>2 DEF LastPage
    <3>3. CASE Kept(p) # Page(p)
      <4>1. PICK e \in Page(p) : e \notin Kept(p)
        BY <3>3, PagesAreParts
      <4>2. PICK d \in Page(p) : host[d] <= Window(p)
        BY <4>1, StopsAt
      <4>3. IssueOf[c] = IssueOf[d] /\ host[c] # 0 /\ host[d] # 0
        BY <1>0, <2>1 DEF Listed, Bulk
      <4>4. host[c] <= host[d]
        BY <1>0, <2>1, <3>1, <4>3 DEF AgeInv
      <4> QED BY <1>0, <2>0, <4>2, <4>4
    <3> QED BY <3>2, <3>3
  <2>2. CASE provider \in {"github", "gitlab"}
    <3>1. host \in [Comments -> Nat]
      BY CommentBounds DEF TypesInv, Times
    <3>2. /\ Place(p, host, c) \in Nat /\ Place(p, host, c) < Cardinality(Listed(p, host))
          /\ Cardinality(Listed(p, host)) \in Nat
      BY <1>0, <2>2, <3>1, PlaceIs
    <3>3. pass[p].page \in Nat /\ PageSize \in Nat
      BY CommentBounds DEF TypesInv, PassOK, PassRecord
    <3>4. /\ Offset(p) \in Int /\ Offset(p) + PageSize = PageSize * pass[p].page
      BY <3>3 DEF Offset
    <3>5. Place(p, host, c) >= Offset(p) + PageSize
      <4>1. ~(Place(p, host, c) < Offset(p) + PageSize)
        BY <1>2, <2>2, Zenon DEF Page
      <4>2. Offset(p) \in Int
        BY <3>4
      <4> QED BY <3>2, <3>3, <4>1, <4>2
    <3>6. CASE Kept(p) = Page(p)
      <4>1. Offset(p) + PageSize \in Int
        BY <3>3, <3>4
      <4>2. ~(Cardinality(Listed(p, host)) < Offset(p) + PageSize)
        BY <3>2, <3>5, <4>1
      <4>3. ~LastPage(p)
        BY <2>2, <3>6, <4>2, Zenon DEF LastPage
      <4> QED BY <2>2, <3>4, <3>5, <4>3
    <3>7. CASE Kept(p) # Page(p)
      <4>1. PICK e \in Page(p) : e \notin Kept(p)
        BY <3>7, PagesAreParts
      <4>2. provider = "gitlab"
        BY <2>2, <4>1, StopsAt
      <4>3. PICK d \in Page(p) : host[d] <= Window(p)
        BY <4>1, StopsAt
      <4>4. Place(p, host, d) \in Nat /\ Place(p, host, d) < Offset(p) + PageSize
        <5>1. Place(p, host, d) \in Nat
          BY <1>0, <2>2, <3>1, PlaceIs
        <5> QED BY <2>2, <5>1 DEF Page
      <4>5. Before(p, host, d, c)
        <5>1. ~(Place(p, host, c) <= Place(p, host, d)) /\ c # d
          BY <3>2, <3>3, <3>4, <3>5, <4>4
        <5> QED BY <1>0, <2>2, <3>1, <5>1, PlaceIs
      <4>6. host[c] <= host[d]
        BY <1>0, <2>0, <4>2, <4>5 DEF Before, Bulk
      <4> QED BY <1>0, <2>0, <4>3, <4>6
    <3> QED BY <3>6, <3>7
  <2> QED BY <2>1, <2>2 DEF TypesInv
<1> QED BY <1>1, <1>2

-----------------------------------------------------------------------------
(* Every step keeps the types.                                             *)

LEMMA PassMoves ==
    ASSUME TypesInv, NEW p \in Passes, NEW r, PassOK(r), PassBecomes(p, r)
    PROVE  /\ DOMAIN pass' = Passes /\ pass' = [q \in Passes |-> pass'[q]]
           /\ pass'[p] = r /\ \A q \in Passes \ {p} : pass'[q] = pass[q]
           /\ \A q \in Passes : PassOK(pass'[q])
<1>1. DOMAIN pass' = Passes /\ pass' = [q \in Passes |-> pass'[q]]
  BY DEF TypesInv, PassBecomes
<1>2. pass'[p] = r /\ \A q \in Passes \ {p} : pass'[q] = pass[q]
  BY DEF TypesInv, PassBecomes
<1> QED BY <1>1, <1>2 DEF TypesInv

\* What a pass is after it read a page.
LEMMA ReadOK ==
    ASSUME TypesInv, NEW p \in Passes, ReadPage(p)
    PROVE  LET left == IF Bulk(p) THEN {} ELSE pass[p].todo \ {Min(pass[p].todo)}
               over == LastPage(p)
               me == pass[p]
               new == pass'[p]
           IN  /\ PassOK(new) /\ PassBecomes(p, new)
               /\ new.group = me.group /\ new.warm = me.warm /\ new.cold = me.cold
               /\ new.since = me.since /\ new.began = me.began /\ new.stamp = me.stamp
               /\ new.got = [c \in Comments |-> IF c \in Kept(p) THEN host[c] ELSE me.got[c]]
               /\ over => /\ new.page = 1 /\ new.token = 0 /\ new.todo = left
                          /\ new.pc = IF left = {} THEN "stamp" ELSE "read"
               /\ ~over => /\ new.page = me.page + 1 /\ new.todo = me.todo /\ new.pc = "read"
                           /\ new.token =
                                IF provider = "azure_devops" THEN Min(Page(p)) ELSE 0
<1> DEFINE left == IF Bulk(p) THEN {} ELSE pass[p].todo \ {Min(pass[p].todo)}
           me == pass[p]
           kept == Kept(p)
           r == [me EXCEPT
                   !.got = [c \in Comments |-> IF c \in kept THEN host[c] ELSE @[c]],
                   !.twice = @ \cup {c \in kept : me.got[c] # 0}]
           token == IF provider = "azure_devops" THEN Min(Page(p)) ELSE 0
           more == [r EXCEPT !.page = @ + 1, !.token = token]
           done == [r EXCEPT !.page = 1, !.token = 0, !.todo = left,
                             !.pc = IF left = {} THEN "stamp" ELSE "read"]
<1>0. /\ PassBecomes(p, IF ~LastPage(p) THEN more ELSE done)
      /\ me.pc = "read"
  BY DEF ReadPage, PassAt
<1>1. PassOK(me) /\ me \in PassRecord /\ me.todo # {} /\ GroupOf(me) # {}
  BY <1>0 DEF TypesInv, PassOK
<1>2. kept \subseteq Comments
  BY PagesAreParts
<1>3. left \in SUBSET CardIssues
  BY <1>1 DEF PassRecord
<1>4. ~LastPage(p) => token \in Nat
  <2>1. CASE provider = "azure_devops" /\ ~LastPage(p)
    <3>1. Page(p) # Rest(p, host)
      BY <2>1 DEF LastPage
    <3>2. Min(Page(p)) \in Page(p)
      BY <2>1, <3>1, OldestOfPage
    <3> QED BY <3>2, PagesAreParts, CommentsAreNat
  <2> QED BY <2>1
<1>5. PICK got \in [Comments -> Times \cup {0}] :
         got = [c \in Comments |-> IF c \in kept THEN host[c] ELSE me.got[c]]
  BY <1>1 DEF TypesInv, PassRecord
<1>6. PICK twice \in SUBSET Comments : twice = me.twice \cup {c \in kept : me.got[c] # 0}
  BY <1>1, <1>2 DEF PassRecord
<1>7. r = [me EXCEPT !.got = got, !.twice = twice]
  BY <1>1, <1>5, <1>6 DEF PassRecord
<1> HIDE DEF kept, left, r, token
<1>8. /\ r \in PassRecord /\ r.group = me.group /\ r.warm = me.warm /\ r.cold = me.cold
      /\ r.since = me.since /\ r.began = me.began /\ r.stamp = me.stamp /\ r.got = got
      /\ r.page = me.page /\ r.todo = me.todo /\ r.pc = me.pc
  BY <1>1, <1>7 DEF PassRecord
<1>9. CASE LastPage(p)
  <2>1. PICK pc \in {"stamp", "read"} : pc = IF left = {} THEN "stamp" ELSE "read"
    OBVIOUS
  <2>2. done = [r EXCEPT !.page = 1, !.token = 0, !.todo = left, !.pc = pc]
    BY <2>1
  <2>3. /\ done \in PassRecord /\ done.group = r.group /\ done.warm = r.warm
        /\ done.cold = r.cold /\ done.since = r.since /\ done.began = r.began
        /\ done.stamp = r.stamp /\ done.got = r.got /\ done.page = 1 /\ done.token = 0
        /\ done.todo = left /\ done.pc = pc
    BY <1>3, <1>8, <2>2 DEF PassRecord
  <2> HIDE DEF done
  <2>4. PassOK(done)
    BY <1>1, <1>8, <2>1, <2>3 DEF PassOK, GroupOf
  <2>5. PassBecomes(p, done)
    BY <1>0, <1>9
  <2>6. pass'[p] = done
    BY <2>4, <2>5, PassMoves
  <2> QED BY <1>5, <1>8, <1>9, <2>1, <2>3, <2>4, <2>5, <2>6 DEF kept, left
<1>10. CASE ~LastPage(p)
  <2>0. PICK page \in Nat, mark \in Nat :
           page = r.page + 1 /\ mark = token /\ more = [r EXCEPT !.page = page, !.token = mark]
    <3>1. r.page \in Nat
      BY <1>8 DEF PassRecord
    <3>2. r.page + 1 \in Nat /\ token \in Nat
      BY <3>1, <1>4, <1>10
    <3>3. more = [r EXCEPT !.page = r.page + 1, !.token = token]
      BY <1>8 DEF PassRecord
    <3> HIDE DEF more
    <3> QED BY <3>2, <3>3
  <2>1. /\ more \in PassRecord /\ more.group = r.group /\ more.warm = r.warm
        /\ more.cold = r.cold /\ more.since = r.since /\ more.began = r.began
        /\ more.stamp = r.stamp /\ more.got = r.got /\ more.page = r.page + 1
        /\ more.token = token /\ more.todo = r.todo /\ more.pc = r.pc
    BY <1>8, <2>0 DEF PassRecord
  <2> HIDE DEF more
  <2>2. PassOK(more)
    BY <1>0, <1>1, <1>8, <2>1 DEF PassOK, GroupOf
  <2>3. PassBecomes(p, more)
    BY <1>0, <1>10
  <2>4. pass'[p] = more
    BY <2>2, <2>3, PassMoves
  <2> QED BY <1>0, <1>5, <1>8, <1>10, <2>1, <2>2, <2>3, <2>4 DEF kept, token
<1> QED BY <1>9, <1>10

LEMMA BeginOK ==
    ASSUME TypesInv, NEW p \in Passes, BeginPass(p)
    PROVE  LET me == pass'[p]
           IN  /\ PassOK(me) /\ PassBecomes(p, me)
               /\ me.pc = "read" /\ me.page = 1 /\ me.token = 0 /\ me.got = NothingRead
               /\ me.began = now /\ me.stamp = Null /\ me.since = since
               /\ me.todo = GroupOf(me) /\ me.warm = Warm
               /\ me.group = "warm" \/ (me.group = "cold" /\ Warm = {})
<1> DEFINE r == [IdlePass EXCEPT !.warm = Warm, !.cold = Backfill, !.since = since]
           s == IF Warm # {} THEN Reading(r, "warm") ELSE Reading(r, "cold")
<1>1. Warm \in SUBSET CardIssues /\ Backfill \in SUBSET CardIssues /\ since \in Nat
  BY SinceIs DEF Warm, Backfill
<1>2. /\ r \in PassRecord /\ r.warm = Warm /\ r.cold = Backfill /\ r.since = since
      /\ r.stamp = Null
  BY <1>1, IdleOK DEF PassOK, PassRecord, IdlePass
<1>3. PassBecomes(p, s) /\ (Warm # {} \/ Backfill # {})
  BY DEF BeginPass
<1>4. now \in Nat
  BY CommentBounds DEF TypesInv, Times
<1> HIDE DEF r
<1>5. /\ PassOK(s) /\ s.pc = "read" /\ s.page = 1 /\ s.token = 0 /\ s.got = NothingRead
      /\ s.began = now /\ s.stamp = Null /\ s.since = since /\ s.todo = GroupOf(s)
      /\ s.warm = Warm
      /\ s.group = "warm" \/ (s.group = "cold" /\ Warm = {})
  <2>1. CASE Warm # {}
    BY <1>2, <1>4, <2>1, ReadingOK DEF GroupOf
  <2>2. CASE Warm = {}
    BY <1>2, <1>3, <1>4, <2>2, ReadingOK DEF GroupOf
  <2> QED BY <2>1, <2>2
<1> HIDE DEF s
<1>6. pass'[p] = s
  BY <1>3, <1>5, PassMoves
<1> QED BY <1>3, <1>5, <1>6

\* A group that is given up.
LEMMA GiveUpOK ==
    ASSUME TypesInv, NEW p \in Passes, PagesRunOut(p) \/ ReadFails(p)
    PROVE  /\ PassOK(pass'[p]) /\ PassBecomes(p, pass'[p])
           /\ Fresh(pass'[p])
<1>1. now \in Nat /\ pass[p] \in PassRecord
  BY CommentBounds DEF TypesInv, Times, PassOK
<1>2. PassBecomes(p, NextGroup(pass[p]))
  BY DEF PagesRunOut, ReadFails, give_up
<1>3. PassOK(NextGroup(pass[p])) /\ Fresh(NextGroup(pass[p]))
  BY <1>1, NextGroupOK
<1> QED BY <1>2, <1>3, PassMoves

LEMMA StampOK ==
    ASSUME TypesInv, NEW p \in Passes, Stamp(p)
    PROVE  LET me == pass[p]
               new == pass'[p]
           IN  /\ PassOK(new) /\ PassBecomes(p, new)
               /\ new.pc = "store" /\ new.stamp = now /\ new.todo = GroupOf(me)
               /\ new.group = me.group /\ new.warm = me.warm /\ new.cold = me.cold
               /\ new.since = me.since /\ new.began = me.began /\ new.got = me.got
<1> DEFINE me == pass[p]
           threads == IF me.group = "warm" THEN me.warm ELSE me.cold
           s == [me EXCEPT !.pc = "store", !.stamp = now, !.todo = threads]
<1>1. PassBecomes(p, s) /\ me.pc = "stamp"
  BY DEF Stamp, PassAt
<1>2. me \in PassRecord /\ GroupOf(me) # {} /\ now \in Times
  BY <1>1 DEF TypesInv, PassOK
<1>3. threads \in SUBSET CardIssues /\ threads = GroupOf(me)
  BY <1>2 DEF PassRecord, GroupOf
<1> HIDE DEF threads
<1>4. /\ s \in PassRecord /\ s.pc = "store" /\ s.stamp = now /\ s.todo = threads
      /\ s.group = me.group /\ s.warm = me.warm /\ s.cold = me.cold
      /\ s.since = me.since /\ s.began = me.began /\ s.got = me.got
  BY <1>2, <1>3 DEF PassRecord
<1> HIDE DEF s
<1>5. PassOK(s)
  BY <1>2, <1>3, <1>4 DEF PassOK, GroupOf
<1>6. pass'[p] = s
  BY <1>1, <1>5, PassMoves
<1> QED BY <1>1, <1>3, <1>4, <1>5, <1>6

\* After a thread there is the next one, or the next group.
LEMMA AfterOK ==
    ASSUME TypesInv, NEW p \in Passes, PassAt(p, "store"), NEW i \in CardIssues,
           PassBecomes(p, AfterThread(p, i))
    PROVE  LET me == pass[p]
               new == pass'[p]
           IN  /\ PassOK(new) /\ PassBecomes(p, new)
               /\ \/ Fresh(new)
                  \/ /\ new.pc = "store" /\ new.todo = me.todo \ {i}
                     /\ new.group = me.group /\ new.warm = me.warm /\ new.cold = me.cold
                     /\ new.since = me.since /\ new.began = me.began
                     /\ new.stamp = me.stamp
                     /\ \A c \in Comments :
                           new.got[c] = IF IssueOf[c] = i THEN 0 ELSE me.got[c]
<1> DEFINE me == pass[p]
           left == me.todo \ {i}
           r == [me EXCEPT !.todo = @ \ {i},
                           !.got = [c \in Comments |-> IF IssueOf[c] = i THEN 0 ELSE @[c]],
                           !.twice = {c \in @ : IssueOf[c] # i}]
<1>1. me \in PassRecord /\ me.pc = "store" /\ GroupOf(me) # {} /\ now \in Nat
  BY CommentBounds DEF TypesInv, Times, PassOK, PassAt
<1>2. PICK got \in [Comments -> Times \cup {0}] :
         got = [c \in Comments |-> IF IssueOf[c] = i THEN 0 ELSE me.got[c]]
  BY <1>1 DEF PassRecord
<1>3. PICK twice \in SUBSET Comments : twice = {c \in me.twice : IssueOf[c] # i}
  BY <1>1 DEF PassRecord
<1>4. left \in SUBSET CardIssues
  BY <1>1 DEF PassRecord
<1>5. r = [me EXCEPT !.todo = left, !.got = got, !.twice = twice]
  BY <1>1, <1>2, <1>3 DEF PassRecord
<1>6. AfterThread(p, i) = IF r.todo = {} THEN NextGroup(r) ELSE r
  BY DEF AfterThread
<1> HIDE DEF r, left
<1>7. /\ r \in PassRecord /\ r.todo = left /\ r.got = got /\ r.pc = "store"
      /\ r.group = me.group /\ r.warm = me.warm /\ r.cold = me.cold
      /\ r.since = me.since /\ r.began = me.began /\ r.stamp = me.stamp
  BY <1>1, <1>4, <1>5 DEF PassRecord
<1>8. CASE left = {}
  <2>1. PassOK(NextGroup(r)) /\ Fresh(NextGroup(r))
    BY <1>1, <1>7, NextGroupOK
  <2>2. PassBecomes(p, NextGroup(r))
    BY <1>6, <1>7, <1>8
  <2>3. pass'[p] = NextGroup(r)
    BY <2>1, <2>2, PassMoves
  <2> QED BY <2>1, <2>2, <2>3 DEF Fresh
<1>9. CASE left # {}
  <2>1. PassOK(r)
    BY <1>1, <1>7, <1>9 DEF PassOK, GroupOf
  <2>2. PassBecomes(p, r)
    BY <1>6, <1>7, <1>9
  <2>3. pass'[p] = r
    BY <2>1, <2>2, PassMoves
  <2> QED BY <1>2, <1>7, <2>1, <2>2, <2>3 DEF left
<1> QED BY <1>8, <1>9

-----------------------------------------------------------------------------
(* What a pass sees, from step to step.                                    *)

LEMMA SamePass ==
    ASSUME NEW p \in Passes, UNCHANGED <<provider, host>>, pass'[p] = pass[p]
    PROVE  /\ Owed(p)' = Owed(p) /\ Window(p)' = Window(p)
           /\ \A step : PassAt(p, step)' <=> PassAt(p, step)
           /\ \A c : Sees(p, c) => Sees(p, c)'
<1>1. /\ Owed(p)' = Owed(p) /\ Window(p)' = Window(p) /\ Bulk(p)' = Bulk(p)
      /\ \A step : PassAt(p, step)' <=> PassAt(p, step)
  BY DEF Owed, Window, PassAt, Bulk
<1>2. Rest(p, host)' = Rest(p, host)
  BY DEF Rest, Place, Listed, Before, Offset, Bulk, Window
<1>3. \A c : Ahead(p, c) => Ahead(p, c)'
  BY <1>1, <1>2 DEF Ahead, PassAt
<1> QED BY <1>1, <1>3 DEF Sees

LEMMA SameList ==
    ASSUME NEW p \in Passes, UNCHANGED <<provider, host>>, pass'[p].group = pass[p].group,
           pass'[p].since = pass[p].since, pass'[p].todo = pass[p].todo
    PROVE  /\ Listed(p, host)' = Listed(p, host)
           /\ \A c : Place(p, host, c)' = Place(p, host, c)
<1>1. Bulk(p)' = Bulk(p) /\ Window(p)' = Window(p)
  BY DEF Bulk, Window
<1>2. Listed(p, host)' = Listed(p, host)
  BY <1>1 DEF Listed
<1>3. \A c, d : Before(p, host, d, c)' = Before(p, host, d, c)
  BY <1>1 DEF Before
<1>4. \A c : Place(p, host, c)' = Place(p, host, c)
  BY <1>2, <1>3 DEF Place
<1> QED BY <1>2, <1>4

\* The first page is the first page of everything that is listed.
LEMMA FirstPage ==
    ASSUME NEW p \in Passes, pass'[p].page = 1, pass'[p].token = 0
    PROVE  Rest(p, host)' = Listed(p, host)'
<1>1. Offset(p)' = 0
  BY CommentBounds DEF Offset
<1>2. \A c : Place(p, host, c)' \in Nat
  <2>1. TAKE c
  <2>2. PICK before \in SUBSET Comments : Place(p, host, c)' = Cardinality(before)
    BY DEF Place, Listed
  <2>3. IsFiniteSet(before)
    BY CommentsAreNat, FS_Subset
  <2> QED BY <2>2, <2>3, FS_CardinalityType
<1>3. CASE provider' = "azure_devops"
  BY <1>3 DEF Rest
<1>4. CASE provider' # "azure_devops"
  BY <1>1, <1>2, <1>4 DEF Rest
<1> QED BY <1>3, <1>4

LEMMA FreshSees ==
    ASSUME TypesInv, NEW p \in Passes, NEW c \in Comments, UNCHANGED host,
           pass'[p].pc = "read", pass'[p].page = 1, pass'[p].token = 0,
           pass'[p].got = NothingRead, pass'[p].todo = GroupOf(pass'[p]),
           pass'[p].since \in Nat
    PROVE  Sees(p, c)'
<1>1. Rest(p, host)' = Listed(p, host)'
  BY FirstPage
<1>2. Owed(p)' = pass'[p].todo /\ pass'[p].got[c] = 0
  BY DEF Owed, PassAt, NothingRead
<1>3. host[c] \in Nat /\ Window(p)' \in Nat
  BY CommentBounds DEF TypesInv, Times, Window, Null
<1>4. CASE Bulk(p)' /\ host[c] < Window(p)'
  BY <1>2, <1>3, <1>4 DEF Sees
<1>5. CASE ~(Bulk(p)' /\ host[c] < Window(p)')
  <2>1. SUFFICES ASSUME host[c] # 0, IssueOf[c] \in pass'[p].todo PROVE Ahead(p, c)'
    BY <1>2 DEF Sees
  <2>2. Bulk(p)' \/ IssueOf[c] = Min(pass'[p].todo) => c \in Listed(p, host)'
    BY <1>3, <1>5, <2>1 DEF Listed
  <2> QED BY <1>1, <2>1, <2>2 DEF Ahead, PassAt
<1> QED BY <1>4, <1>5

LEMMA ReadSees ==
    ASSUME TypesInv, AgeInv, NEW p \in Passes, ReadPage(p),
           NEW c \in Comments \ skipped, Sees(p, c)
    PROVE  Sees(p, c)'
<1> DEFINE me == pass[p]
           new == pass'[p]
           left == IF Bulk(p) THEN {} ELSE me.todo \ {Min(me.todo)}
<1>1. /\ UNCHANGED <<provider, host>> /\ me.pc = "read"
      /\ me \in PassRecord /\ PageSize \in Nat
  BY CommentBounds DEF ReadPage, PassAt, outside, TypesInv, PassOK
<1>2. /\ new.group = me.group /\ new.warm = me.warm /\ new.cold = me.cold
      /\ new.since = me.since /\ new.began = me.began
      /\ new.got[c] = IF c \in Kept(p) THEN host[c] ELSE me.got[c]
      /\ new.pc \in {"read", "stamp"}
  BY ReadOK
<1>3. LastPage(p) => /\ new.page = 1 /\ new.token = 0 /\ new.todo = left
                     /\ new.pc = IF left = {} THEN "stamp" ELSE "read"
  BY ReadOK
<1>4. ~LastPage(p) => /\ new.page = me.page + 1 /\ new.todo = me.todo /\ new.pc = "read"
                      /\ new.token = IF provider = "azure_devops" THEN Min(Page(p)) ELSE 0
  BY ReadOK
<1>5. Owed(p)' = Owed(p) /\ Window(p)' = Window(p) /\ (Bulk(p)' <=> Bulk(p))
  BY <1>1, <1>2 DEF Owed, Window, Bulk, PassAt, GroupOf
<1> HIDE DEF me, new, left
<1>6. SUFFICES ASSUME host[c] # 0, host[c] < me.began PROVE Sees(p, c)'
  BY <1>1, <1>2 DEF Sees, new
<1>7. new.got[c] \in {0, host[c]} /\ (me.got[c] = host[c] => new.got[c] = host[c])
  BY <1>2, <1>6 DEF Sees, me
<1>8. SUFFICES ASSUME IssueOf[c] \in Owed(p), ~(host[c] <= Window(p)), new.got[c] # host[c]
               PROVE  Ahead(p, c)'
  BY <1>1, <1>5, <1>7 DEF Sees, new
<1>9. Ahead(p, c)
  BY <1>6, <1>7, <1>8 DEF Sees, me
<1>10. CASE Bulk(p) \/ IssueOf[c] = Min(me.todo)
  <2>1. c \in Rest(p, host)
    BY <1>9, <1>10 DEF Ahead, me
  <2>2. c \notin Kept(p)
    BY <1>2, <1>8
  <2>3. /\ ~LastPage(p)
        /\ provider = "azure_devops" => c < Min(Page(p)) /\ Min(Page(p)) \in Page(p)
        /\ provider # "azure_devops" => Place(p, host, c) >= PageSize * me.page
    BY <1>8, <2>1, <2>2, PageDecides DEF me
  <2>4. /\ Listed(p, host)' = Listed(p, host)
        /\ Place(p, host, c)' = Place(p, host, c)
    BY <1>1, <1>2, <1>4, <2>3, SameList DEF me, new
  <2>5. c \in Listed(p, host)
    BY <2>1, PagesAreParts
  <2>6. c \in Rest(p, host)'
    <3>1. CASE provider = "azure_devops"
      <4>1. new.token = Min(Page(p)) /\ c < new.token
        BY <1>4, <2>3, <3>1
      <4> QED BY <1>1, <2>4, <2>5, <3>1, <4>1 DEF Rest, new
    <3>2. CASE provider # "azure_devops"
      <4>1. me.page \in Nat
        BY <1>1 DEF PassRecord
      <4>2. Offset(p)' = PageSize * me.page
        BY <1>1, <1>4, <2>3, <4>1 DEF Offset, new
      <4>3. Place(p, host, c)' >= Offset(p)'
        BY <2>3, <2>4, <3>2, <4>2
      <4> QED BY <1>1, <2>4, <2>5, <3>2, <4>3 DEF Rest
    <3> QED BY <3>1, <3>2
  <2> QED BY <1>4, <1>9, <2>3, <2>6 DEF Ahead, PassAt, me, new
<1>11. CASE ~(Bulk(p) \/ IssueOf[c] = Min(me.todo))
  <2>1. CASE ~LastPage(p)
    BY <1>4, <1>5, <1>9, <1>11, <2>1 DEF Ahead, PassAt, me, new
  <2>2. CASE LastPage(p)
    <3>1. IssueOf[c] \in left
      BY <1>9, <1>11 DEF Ahead, left, me
    <3>2. Rest(p, host)' = Listed(p, host)'
      BY <1>3, <2>2, FirstPage DEF new
    <3>3. IssueOf[c] = Min(new.todo) => c \in Listed(p, host)'
      BY <1>1, <1>5, <1>6, <1>11 DEF Listed, new
    <3> QED BY <1>3, <1>5, <1>11, <2>2, <3>1, <3>2, <3>3 DEF Ahead, PassAt, new
  <2> QED BY <2>1, <2>2
<1> QED BY <1>10, <1>11

\* What people do on the host.
LEMMA HostSees ==
    ASSUME TypesInv, NEW p \in Passes, NEW h, NEW hidden, HostBecomes(h, hidden),
           NEW c \in Comments \ skipped', h[c] \in {0, now, host[c]},
           ~PassAt(p, "idle"), Timely(p), Sees(p, c)
    PROVE  Sees(p, c)'
<1>1. UNCHANGED <<provider, pass>> /\ host' = h
  BY DEF HostBecomes
<1>2. now \in Nat /\ pass[p].began \in Nat /\ pass[p].began <= now
  BY CommentBounds DEF TypesInv, Times, Timely, PassOK, PassRecord
<1>3. CASE h[c] \in {0, now}
  BY <1>1, <1>2, <1>3 DEF Sees
<1>4. CASE h[c] = host[c]
  <2>1. c \notin ShiftedPast(p, h)
    BY DEF HostBecomes
  <2>2. PassAt(p, "read") /\ c \in Rest(p, host) => c \in Rest(p, h)
    BY <1>4, <2>1 DEF ShiftedPast
  <2>3. Rest(p, host)' = Rest(p, h)
    BY <1>1 DEF Rest, Place, Listed, Before, Offset, Bulk, Window
  <2>4. Ahead(p, c) => Ahead(p, c)'
    BY <1>1, <2>2, <2>3 DEF Ahead, PassAt, Bulk
  <2> QED BY <1>1, <1>4, <2>4 DEF Sees, Owed, Window, PassAt
<1> QED BY <1>3, <1>4

-----------------------------------------------------------------------------
(* A step of one pass.                                                     *)

LEMMA Clocks ==
    ASSUME TypesInv
    PROVE  /\ now \in Nat /\ now >= 1 /\ Overlap \in Nat /\ Overlap >= 1
           /\ \A c \in Comments : host[c] \in Nat /\ copy[c] \in Nat /\ IssueOf[c] \in CardIssues
           /\ \A i \in CardIssues : synced[i] \in Nat
           /\ \A p \in Passes : /\ pass[p].began \in Nat /\ pass[p].stamp \in Nat
                                /\ pass[p].since \in Nat /\ Window(p) \in Nat
                                /\ pass[p].stamp \in Times \cup {Null}
                                /\ pass[p] \in PassRecord
<1>1. Times \cup {0} \subseteq Nat /\ \A t \in Times : t >= 1
  BY CommentBounds DEF Times
<1>2. \A p \in Passes : pass[p] \in PassRecord
  BY DEF TypesInv, PassOK
<1>3. \A p \in Passes : /\ pass[p].began \in Nat /\ pass[p].stamp \in Times \cup {Null}
                        /\ pass[p].since \in Nat
  BY <1>2 DEF PassRecord
<1>4. \A p \in Passes : Window(p) \in Nat
  BY <1>3 DEF Window, Null
<1>5. \A c \in Comments : host[c] \in Nat /\ copy[c] \in Nat /\ IssueOf[c] \in CardIssues
  BY <1>1, Threads DEF TypesInv
<1>6. \A i \in CardIssues : synced[i] \in Nat
  BY <1>1 DEF TypesInv, Null
<1>7. now \in Nat /\ now >= 1 /\ Overlap \in Nat /\ Overlap >= 1
  BY <1>1, CommentBounds DEF TypesInv
<1>8. \A p \in Passes : pass[p].stamp \in Nat
  BY <1>1, <1>3 DEF Null
<1> QED BY <1>2, <1>3, <1>4, <1>5, <1>6, <1>7, <1>8

LEMMA PassStepInv ==
    ASSUME ThreadInv, NEW p \in Passes, PassOK(pass'[p]), PassBecomes(p, pass'[p]),
           UNCHANGED <<provider, outside, board>>, PassInv(p)'
    PROVE  ThreadInv'
<1>1. UNCHANGED <<provider, now, host, written, skipped, copy, synced>>
  BY DEF outside, board
<1>2. \A q \in Passes \ {p} : pass'[q] = pass[q]
  BY PassMoves DEF ThreadInv
<1>3. TypesInv'
  BY <1>1, PassMoves DEF ThreadInv, TypesInv
<1>4. ASSUME NEW q \in Passes, q # p PROVE PassInv(q)'
  <2>1. pass'[q] = pass[q]
    BY <1>2, <1>4
  <2>2. Timely(q) => Timely(q)'
    BY <1>1, <2>1 DEF Timely
  <2>3. \A c : Keeps(q, c) => Keeps(q, c)'
    BY <1>1, <2>1, SamePass DEF Keeps
  <2>4. \A c : Sees(q, c) => Sees(q, c)'
    BY <1>1, <2>1, SamePass
  <2>5. PassAt(q, "idle")' <=> PassAt(q, "idle")
    BY <2>1 DEF PassAt
  <2> QED BY <1>1, <2>2, <2>3, <2>4, <2>5 DEF ThreadInv, PassInv
<1>5. PlatformInv' /\ AgeInv' /\ ThreadsAreWhole'
  BY <1>1 DEF ThreadInv, PlatformInv, AgeInv, ThreadsAreWhole, Behind
<1> QED BY <1>3, <1>4, <1>5 DEF ThreadInv

\* The cold group has no window.
LEMMA FreshInv ==
    ASSUME TypesInv, NEW p \in Passes, UNCHANGED <<host, now>>, Fresh(pass'[p])
    PROVE  PassInv(p)'
<1>1. CASE pass'[p] = IdlePass
  BY <1>1, IdleOK DEF PassInv, PassAt
<1>2. CASE pass'[p] # IdlePass
  <2> DEFINE me == pass'[p]
  <2>1. /\ me.pc = "read" /\ me.group = "cold" /\ me.since = Null /\ me.stamp = Null
        /\ me.began = now /\ me.got = NothingRead /\ me.page = 1 /\ me.token = 0
        /\ me.todo = GroupOf(me)
    BY <1>2 DEF Fresh, GroupOf
  <2>2. Timely(p)'
    BY <2>1, Clocks DEF Timely, Null
  <2>3. \A c \in Comments : Sees(p, c)'
    BY <2>1, FreshSees DEF Null
  <2>4. \A c \in Comments : Keeps(p, c)'
    BY <2>1, Clocks DEF Keeps, Window, Null
  <2> QED BY <2>2, <2>3, <2>4 DEF PassInv
<1> QED BY <1>1, <1>2

LEMMA BeginPassInv == ASSUME ThreadInv, NEW p \in Passes, BeginPass(p) PROVE ThreadInv'
<1> DEFINE me == pass'[p]
<1>0. UNCHANGED <<provider, outside, board>> /\ UNCHANGED <<host, now, copy, skipped>>
  BY DEF BeginPass, outside, board
<1>1. /\ PassOK(me) /\ PassBecomes(p, me)
      /\ me.pc = "read" /\ me.page = 1 /\ me.token = 0 /\ me.got = NothingRead
      /\ me.began = now /\ me.stamp = Null /\ me.since = since
      /\ me.todo = GroupOf(me) /\ me.warm = Warm
      /\ me.group = "warm" \/ (me.group = "cold" /\ Warm = {})
  BY BeginOK DEF ThreadInv
<1>2. /\ since \in Nat /\ (Warm = {} => since = Null)
      /\ \A i \in Warm : since + Overlap <= synced[i]
  BY SinceIs DEF ThreadInv
<1>3. since = Null \/ since + Overlap <= now
  <2>1. SUFFICES ASSUME NEW i \in Warm PROVE since + Overlap <= now
    BY <1>2
  <2>2. synced[i] <= now /\ synced[i] \in Nat
    BY Clocks DEF ThreadInv, PlatformInv, Warm
  <2> QED BY <1>2, <2>2, Clocks DEF ThreadInv
<1>4. Timely(p)'
  <2>1. now \in Nat /\ Overlap \in Nat /\ Overlap >= 1
    BY Clocks DEF ThreadInv
  <2> QED BY <1>0, <1>1, <1>3, <2>1 DEF Timely, Null
<1>5. \A c \in Comments : Sees(p, c)'
  BY <1>0, <1>1, <1>2, FreshSees DEF ThreadInv
<1>6. ASSUME NEW c \in Comments \ skipped PROVE Keeps(p, c)'
  <2>0. /\ host[c] \in Nat /\ synced[IssueOf[c]] \in Nat /\ Overlap \in Nat
        /\ IssueOf[c] \in CardIssues
    BY Clocks DEF ThreadInv
  <2>1. CASE me.group = "cold"
    BY <1>0, <2>0, <2>1 DEF Keeps, Window, Null
  <2>2. CASE me.group = "warm"
    <3>1. SUFFICES ASSUME host[c] # 0, IssueOf[c] \in Warm, host[c] <= since
                   PROVE  copy[c] = host[c]
      BY <1>0, <1>1, <2>2 DEF Keeps, Window, Owed, PassAt, GroupOf
    <3>2. synced[IssueOf[c]] # Null /\ since + Overlap <= synced[IssueOf[c]]
      BY <1>2, <3>1 DEF Warm
    <3>3. ~(host[c] > synced[IssueOf[c]] - Overlap)
      BY <1>2, <2>0, <3>1, <3>2
    <3> QED BY <3>1, <3>2, <3>3 DEF ThreadInv, ThreadsAreWhole, Behind
  <2> QED BY <1>1, <2>1, <2>2
<1>7. PassInv(p)'
  BY <1>0, <1>4, <1>5, <1>6 DEF PassInv
<1> QED BY <1>0, <1>1, <1>7, PassStepInv

LEMMA ReadPageInv == ASSUME ThreadInv, NEW p \in Passes, ReadPage(p) PROVE ThreadInv'
<1> DEFINE me == pass[p]
           new == pass'[p]
<1>0. /\ UNCHANGED <<provider, outside, board>> /\ UNCHANGED <<host, now, copy, skipped>>
      /\ me.pc = "read"
  BY DEF ReadPage, outside, board, PassAt
<1>1. /\ PassOK(new) /\ PassBecomes(p, new)
      /\ new.group = me.group /\ new.warm = me.warm /\ new.cold = me.cold
      /\ new.since = me.since /\ new.began = me.began /\ new.stamp = me.stamp
      /\ new.pc \in {"read", "stamp"}
  BY ReadOK DEF ThreadInv
<1>2. PassInv(p) /\ ~PassAt(p, "idle")
  BY <1>0 DEF ThreadInv, PassAt
<1>3. Timely(p)'
  BY <1>0, <1>1, <1>2 DEF Timely, PassInv
<1>4. \A c \in Comments \ skipped : Sees(p, c)'
  BY <1>2, ReadSees DEF ThreadInv, PassInv
<1>5. \A c \in Comments \ skipped : Keeps(p, c)'
  BY <1>0, <1>1, <1>2 DEF PassInv, Keeps, Owed, Window, PassAt, GroupOf
<1>6. PassInv(p)'
  BY <1>0, <1>3, <1>4, <1>5 DEF PassInv
<1> QED BY <1>0, <1>1, <1>6, PassStepInv

LEMMA GiveUpInv ==
    ASSUME ThreadInv, NEW p \in Passes, PagesRunOut(p) \/ ReadFails(p) PROVE ThreadInv'
<1>1. UNCHANGED <<provider, outside, board>> /\ UNCHANGED <<host, now>>
  BY DEF PagesRunOut, ReadFails, outside
<1>2. PassOK(pass'[p]) /\ PassBecomes(p, pass'[p]) /\ Fresh(pass'[p])
  BY GiveUpOK DEF ThreadInv
<1>3. PassInv(p)'
  BY <1>1, <1>2, FreshInv DEF ThreadInv
<1> QED BY <1>1, <1>2, <1>3, PassStepInv

LEMMA StampInv == ASSUME ThreadInv, NEW p \in Passes, Stamp(p) PROVE ThreadInv'
<1> DEFINE me == pass[p]
           new == pass'[p]
<1>0. /\ UNCHANGED <<provider, outside, board>> /\ UNCHANGED <<host, now, copy, skipped>>
      /\ me.pc = "stamp"
  BY DEF Stamp, outside, board, PassAt
<1>1. /\ PassOK(new) /\ PassBecomes(p, new)
      /\ new.pc = "store" /\ new.stamp = now /\ new.todo = GroupOf(me)
      /\ new.group = me.group /\ new.warm = me.warm /\ new.cold = me.cold
      /\ new.since = me.since /\ new.began = me.began /\ new.got = me.got
  BY StampOK DEF ThreadInv
<1>2. PassInv(p) /\ ~PassAt(p, "idle") /\ now \in Nat
  BY <1>0, Clocks DEF ThreadInv, PassAt
<1>3. Timely(p)'
  BY <1>0, <1>1, <1>2 DEF Timely, PassInv
<1>4. Owed(p)' = Owed(p) /\ Window(p)' = Window(p) /\ \A c : ~Ahead(p, c)
  BY <1>0, <1>1 DEF Owed, Window, PassAt, GroupOf, Ahead
<1>5. \A c \in Comments \ skipped : Sees(p, c)' /\ Keeps(p, c)'
  BY <1>0, <1>1, <1>2, <1>4 DEF PassInv, Keeps, Sees
<1>6. PassInv(p)'
  BY <1>0, <1>3, <1>5 DEF PassInv
<1> QED BY <1>0, <1>1, <1>6, PassStepInv

\* The pass goes on after a thread that it stored or could not store.
LEMMA AfterThreadInv ==
    ASSUME ThreadInv, NEW p \in Passes, PassAt(p, "store"), NEW i \in CardIssues,
           PassBecomes(p, AfterThread(p, i)), UNCHANGED <<provider, outside>>,
           \A c \in Comments : IssueOf[c] # i => copy'[c] = copy[c]
    PROVE  PassInv(p)'
<1> DEFINE me == pass[p]
           new == pass'[p]
<1>1. CASE Fresh(new)
  BY <1>1, FreshInv DEF ThreadInv, outside
<1>2. CASE ~Fresh(new)
  <2>0. UNCHANGED <<host, now, skipped>>
    BY DEF outside
  <2>1. /\ me.pc = "store" /\ new.pc = "store" /\ new.todo = me.todo \ {i}
        /\ new.group = me.group /\ new.warm = me.warm /\ new.cold = me.cold
        /\ new.since = me.since /\ new.began = me.began /\ new.stamp = me.stamp
        /\ \A c \in Comments : new.got[c] = IF IssueOf[c] = i THEN 0 ELSE me.got[c]
    BY <1>2, AfterOK DEF ThreadInv, PassAt
  <2>2. PassInv(p) /\ ~PassAt(p, "idle")
    BY <2>1 DEF ThreadInv, PassAt
  <2>3. Timely(p)'
    BY <2>0, <2>1, <2>2 DEF Timely, PassInv
  <2>4. Owed(p)' = Owed(p) \ {i} /\ Window(p)' = Window(p) /\ \A c : ~Ahead(p, c)
    BY <2>1 DEF Owed, Window, PassAt, Ahead
  <2>5. \A c \in Comments \ skipped : Sees(p, c)' /\ Keeps(p, c)'
    <3>1. TAKE c \in Comments \ skipped
    <3>2. Sees(p, c) /\ Keeps(p, c)
      BY <2>2 DEF PassInv
    <3>3. Keeps(p, c)'
      BY <2>0, <2>4, <3>2 DEF Keeps
    <3>4. Sees(p, c)'
      BY <2>0, <2>1, <2>4, <3>2 DEF Sees
    <3> QED BY <3>3, <3>4
  <2> QED BY <2>0, <2>3, <2>5 DEF PassInv
<1> QED BY <1>1, <1>2

LEMMA StoreFailInv == ASSUME ThreadInv, NEW p \in Passes, StoreFails(p) PROVE ThreadInv'
<1>1. /\ PassAt(p, "store") /\ UNCHANGED <<provider, outside, board>>
      /\ PassBecomes(p, AfterThread(p, Min(pass[p].todo))) /\ UNCHANGED copy
  BY DEF StoreFails, board
<1>2. Min(pass[p].todo) \in CardIssues
  <2>1. pass[p].todo \subseteq CardIssues /\ pass[p].todo # {}
    BY <1>1 DEF ThreadInv, TypesInv, PassOK, PassRecord, PassAt
  <2> QED BY <2>1, Threads, LowestIn
<1>3. PassOK(pass'[p]) /\ PassBecomes(p, pass'[p])
  BY <1>1, <1>2, AfterOK DEF ThreadInv
<1>4. PassInv(p)'
  BY <1>1, <1>2, AfterThreadInv
<1> QED BY <1>1, <1>3, <1>4, PassStepInv

LEMMA StoreThreadInv == ASSUME ThreadInv, NEW p \in Passes, store_comments(p) PROVE ThreadInv'
<1> DEFINE me == pass[p]
           i == Min(me.todo)
<1>1. /\ PassAt(p, "store") /\ UNCHANGED <<provider, outside>>
      /\ UNCHANGED <<provider, now, host, written, skipped>>
      /\ PassBecomes(p, AfterThread(p, i))
      /\ copy' = [c \in Comments |->
                    IF IssueOf[c] = i /\ me.got[c] # 0 THEN me.got[c] ELSE copy[c]]
      /\ synced' = [synced EXCEPT ![i] = me.stamp]
  BY DEF store_comments, marker, outside
<1>2. i \in me.todo /\ i \in CardIssues /\ me \in PassRecord
  <2>1. me.todo \subseteq CardIssues /\ me.todo # {} /\ me \in PassRecord
    BY <1>1 DEF ThreadInv, TypesInv, PassOK, PassRecord, PassAt
  <2> QED BY <2>1, Threads, LowestIn
<1> HIDE DEF i, me
<1>3. PassOK(pass'[p]) /\ PassBecomes(p, pass'[p])
  BY <1>1, <1>2, AfterOK DEF ThreadInv
<1>4. PassInv(p)'
  BY <1>1, <1>2, AfterThreadInv
<1>5. TypesInv'
  <2>1. copy' \in [Comments -> Times \cup {0}] /\ synced' \in [CardIssues -> Times \cup {Null}]
    <3>1. me.got \in [Comments -> Times \cup {0}] /\ me.stamp \in Times \cup {Null}
      BY <1>2 DEF PassRecord
    <3>2. copy \in [Comments -> Times \cup {0}] /\ synced \in [CardIssues -> Times \cup {Null}]
      BY DEF ThreadInv, TypesInv
    <3> QED BY <1>1, <3>1, <3>2
  <2> QED BY <1>1, <1>3, <2>1, PassMoves DEF ThreadInv, TypesInv
<1>6. PlatformInv' /\ AgeInv'
  <2>1. me.stamp <= now
    BY <1>1 DEF ThreadInv, PassInv, PassAt, Timely, me
  <2> QED BY <1>1, <2>1 DEF ThreadInv, PlatformInv, AgeInv, TypesInv
\* What the pass read is what the host has, or the host moved on since it began.
<1>7. /\ PassInv(p) /\ ~PassAt(p, "idle")
      /\ now \in Nat /\ Overlap \in Nat /\ me.began \in Nat /\ now < me.began + Overlap
      /\ \A c \in Comments : host[c] \in Nat
  BY <1>1, Clocks DEF ThreadInv, PassInv, PassAt, Timely, me
<1>8. \A c \in Comments \ skipped :
         host[c] # 0 => me.got[c] \in {0, host[c]} \/ host[c] >= me.began
  <2>1. TAKE c \in Comments \ skipped
  <2>2. Sees(p, c)
    BY <1>7 DEF PassInv
  <2> QED BY <1>7, <2>2 DEF Sees, me
<1>9. ASSUME NEW q \in Passes, q # p PROVE PassInv(q)'
  <2>1. pass'[q] = pass[q]
    BY <1>3, <1>9, PassMoves DEF ThreadInv
  <2>2. /\ PassAt(q, "idle")' <=> PassAt(q, "idle")
        /\ \A c : Sees(q, c) => Sees(q, c)'
        /\ Owed(q)' = Owed(q) /\ Window(q)' = Window(q)
    BY <1>1, <2>1, SamePass DEF PassAt
  <2>3. SUFFICES ASSUME ~PassAt(q, "idle") PROVE Timely(q)' /\ \A c \in Comments \ skipped :
                           Sees(q, c)' /\ Keeps(q, c)'
    BY <1>1, <2>2 DEF PassInv
  <2>4. Timely(q) /\ \A c \in Comments \ skipped : Sees(q, c) /\ Keeps(q, c)
    BY <2>3 DEF ThreadInv, PassInv
  <2>5. Timely(q)'
    BY <1>1, <2>1, <2>4 DEF Timely
  <2>6. ASSUME NEW c \in Comments \ skipped PROVE Keeps(q, c)'
    <3>1. SUFFICES ASSUME host[c] # 0, IssueOf[c] \in Owed(q), host[c] <= Window(q)
                   PROVE  copy'[c] = host[c]
      BY <1>1, <2>2 DEF Keeps
    <3>2. copy[c] = host[c]
      BY <2>4, <3>1 DEF Keeps
    <3>3. Window(q) + Overlap <= now /\ Window(q) \in Nat
      BY <1>7, <2>4, <3>1, Clocks DEF ThreadInv, Timely, Window, Null
    <3>4. ~(host[c] >= me.began)
      BY <1>7, <3>1, <3>3
    <3> QED BY <1>1, <1>8, <3>1, <3>2, <3>4
  <2> QED BY <2>2, <2>4, <2>5, <2>6
<1>10. ThreadsAreWhole'
  <2>1. SUFFICES ASSUME NEW c \in Comments \ skipped, host[c] # 0, copy'[c] # host[c],
                        synced'[IssueOf[c]] # Null
                 PROVE  host[c] > synced'[IssueOf[c]] - Overlap
    BY <1>1 DEF ThreadsAreWhole, Behind
  <2>2. IssueOf[c] \in CardIssues
    BY Threads
  <2>3. CASE IssueOf[c] # i
    <3>1. copy'[c] = copy[c] /\ synced'[IssueOf[c]] = synced[IssueOf[c]]
      BY <1>1, <2>2, <2>3 DEF ThreadInv, TypesInv
    <3> QED BY <2>1, <3>1 DEF ThreadInv, ThreadsAreWhole, Behind
  <2>4. CASE IssueOf[c] = i
    <3>1. synced'[i] = me.stamp /\ me.stamp \in Nat /\ me.stamp <= now
      BY <1>1, <1>2, <1>7, Clocks DEF ThreadInv, TypesInv, PassInv, Timely, me
    <3>2. CASE host[c] >= me.began
      BY <1>7, <2>4, <3>1, <3>2
    <3>3. CASE ~(host[c] >= me.began)
      <4>1. Sees(p, c) /\ Keeps(p, c) /\ IssueOf[c] \in Owed(p) /\ ~Ahead(p, c)
        BY <1>1, <1>2, <1>7, <2>4 DEF PassInv, Owed, PassAt, Ahead, me
      <4>2. host[c] <= Window(p) \/ me.got[c] = host[c]
        BY <1>7, <2>1, <3>3, <4>1 DEF Sees, me
      <4>3. me.got[c] # host[c]
        BY <1>1, <2>1, <2>4
      <4>4. copy[c] = host[c]
        BY <2>1, <4>1, <4>2, <4>3 DEF Keeps
      <4>5. me.got[c] = 0
        BY <1>8, <2>1, <3>3, <4>3
      <4> QED BY <1>1, <2>1, <4>4, <4>5
    <3> QED BY <3>2, <3>3
  <2> QED BY <2>3, <2>4
<1> QED BY <1>4, <1>5, <1>6, <1>9, <1>10 DEF ThreadInv

-----------------------------------------------------------------------------
(* The host, the clock and a restart.                                      *)

LEMMA HostStepInv ==
    ASSUME ThreadInv, NEW h \in [Comments -> Times \cup {0}], NEW hidden \in SUBSET Comments,
           HostBecomes(h, hidden), written' \in Nat,
           \A c \in Comments : h[c] \in {0, now, host[c]} /\ (c > written' => h[c] = 0),
           AgeInv'
    PROVE  ThreadInv'
<1>0. /\ UNCHANGED <<provider, now, copy, synced, pass>> /\ host' = h
      /\ skipped' = skipped \cup hidden \cup UNION {ShiftedPast(p, h) : p \in Passes}
  BY DEF HostBecomes, board
<1>1. /\ now \in Nat /\ Overlap \in Nat /\ Overlap >= 1
      /\ \A c \in Comments : host[c] \in Nat /\ h[c] \in Nat /\ IssueOf[c] \in CardIssues
      /\ \A j \in CardIssues : synced[j] \in Nat /\ synced[j] <= now
  BY Clocks, CommentBounds DEF ThreadInv, PlatformInv, Times
<1>2. TypesInv'
  <2>1. \A p \in Passes : ShiftedPast(p, h) \subseteq Comments
    BY PagesAreParts DEF ShiftedPast
  <2>2. skipped' \subseteq Comments
    BY <1>0, <2>1 DEF ThreadInv, TypesInv
  <2> QED BY <1>0, <2>2 DEF ThreadInv, TypesInv
<1>3. PlatformInv'
  BY <1>0, <1>1 DEF ThreadInv, PlatformInv
<1>4. skipped \subseteq skipped'
  BY <1>0
<1>5. ASSUME NEW p \in Passes PROVE PassInv(p)'
  <2>1. SUFFICES ASSUME ~PassAt(p, "idle") PROVE Timely(p)' /\ \A c \in Comments \ skipped' :
                           Sees(p, c)' /\ Keeps(p, c)'
    BY <1>0 DEF PassInv, PassAt
  <2>2. Timely(p) /\ \A c \in Comments \ skipped' : Sees(p, c) /\ Keeps(p, c)
    BY <1>4, <2>1 DEF ThreadInv, PassInv
  <2>3. Timely(p)'
    BY <1>0, <2>2 DEF Timely
  <2>4. ASSUME NEW c \in Comments \ skipped' PROVE Sees(p, c)'
    BY <2>1, <2>2, <1>4, HostSees DEF ThreadInv
  <2>5. ASSUME NEW c \in Comments \ skipped' PROVE Keeps(p, c)'
    <3>1. SUFFICES ASSUME h[c] # 0, IssueOf[c] \in Owed(p), h[c] <= Window(p)
                   PROVE  copy[c] = h[c]
      BY <1>0 DEF Keeps, Owed, Window, PassAt
    <3>2. Window(p) \in Nat /\ (Window(p) = Null \/ Window(p) + Overlap <= now)
      BY <2>2, Clocks DEF ThreadInv, Timely, Window
    <3>3. h[c] = host[c]
      BY <1>1, <3>1, <3>2 DEF Null
    <3> QED BY <2>2, <3>1, <3>3 DEF Keeps
  <2> QED BY <2>3, <2>4, <2>5
<1>6. ThreadsAreWhole'
  <2>1. SUFFICES ASSUME NEW c \in Comments \ skipped', h[c] # 0, copy[c] # h[c],
                        synced[IssueOf[c]] # Null
                 PROVE  h[c] > synced[IssueOf[c]] - Overlap
    BY <1>0 DEF ThreadsAreWhole, Behind
  <2>2. CASE h[c] = host[c]
    BY <1>4, <2>1, <2>2 DEF ThreadInv, ThreadsAreWhole, Behind
  <2>3. CASE h[c] = now
    BY <1>1, <2>3
  <2> QED BY <2>1, <2>2, <2>3
<1> QED BY <1>2, <1>3, <1>5, <1>6 DEF ThreadInv

LEMMA WriteCommentInv == ASSUME ThreadInv, WriteComment PROVE ThreadInv'
<1> DEFINE n == written + 1
           h == [host EXCEPT ![n] = now]
<1>1. HostBecomes(h, {}) /\ written' = n /\ written < Cardinality(Comments)
  BY DEF WriteComment
<1>2. /\ written \in Nat /\ now \in Times /\ host \in [Comments -> Times \cup {0}]
      /\ \A c \in Comments : host[c] <= now /\ (c > written => host[c] = 0)
  BY DEF ThreadInv, TypesInv, PlatformInv
<1>3. n \in Comments /\ n \in Nat /\ \A c \in Comments : c \in Nat
  <2>1. Cardinality(Comments) \in Nat /\ Comments = 1 .. Cardinality(Comments)
    BY Threads, FS_CardinalityType
  <2> QED BY <1>1, <1>2, <2>1
<1>4. h \in [Comments -> Times \cup {0}] /\ h[n] = now /\ \A c \in Comments \ {n} : h[c] = host[c]
  BY <1>2, <1>3
<1> HIDE DEF h
<1>5. \A c \in Comments : h[c] \in {0, now, host[c]} /\ (c > written' => h[c] = 0)
  BY <1>1, <1>2, <1>3, <1>4
<1>6. AgeInv'
  <2>1. host' = h /\ provider' = provider /\ skipped \subseteq skipped'
    BY <1>1 DEF HostBecomes
  <2>2. SUFFICES ASSUME provider = "azure_devops", NEW c \in Comments \ skipped,
                        NEW d \in Comments, IssueOf[c] = IssueOf[d], c < d,
                        h[c] # 0, h[d] # 0
                 PROVE  h[c] <= h[d]
    BY <2>1 DEF AgeInv
  <2>3. CASE d = n
    BY <1>2, <1>3, <1>4, <2>2, <2>3
  <2>4. CASE d # n
    <3>1. h[d] = host[d] /\ d <= written
      BY <1>2, <1>3, <1>4, <2>2, <2>4
    <3>2. c # n /\ h[c] = host[c]
      BY <1>2, <1>3, <1>4, <2>2, <3>1
    <3> QED BY <2>2, <3>1, <3>2 DEF ThreadInv, AgeInv
  <2> QED BY <2>3, <2>4
<1> QED BY <1>1, <1>2, <1>3, <1>4, <1>5, <1>6, HostStepInv

LEMMA EditCommentInv ==
    ASSUME ThreadInv, NEW e \in Comments, EditComment(e) PROVE ThreadInv'
<1> DEFINE h == [host EXCEPT ![e] = now]
<1>1. HostBecomes(h, Hidden(e)) /\ written' = written
  BY DEF EditComment
<1>2. /\ written \in Nat /\ now \in Times /\ host \in [Comments -> Times \cup {0}]
      /\ \A c \in Comments : host[c] <= now /\ (c > written => host[c] = 0)
      /\ host[e] # 0
  BY DEF ThreadInv, TypesInv, PlatformInv, EditComment
<1>3. h \in [Comments -> Times \cup {0}] /\ h[e] = now /\ \A c \in Comments \ {e} : h[c] = host[c]
  BY <1>2
<1>4. Hidden(e) \in SUBSET Comments
  BY DEF Hidden
<1> HIDE DEF h
<1>5. \A c \in Comments : h[c] \in {0, now, host[c]} /\ (c > written' => h[c] = 0)
  BY <1>1, <1>2, <1>3
<1>6. AgeInv'
  <2>1. /\ host' = h /\ provider' = provider
        /\ skipped \subseteq skipped' /\ Hidden(e) \subseteq skipped'
    BY <1>1 DEF HostBecomes
  <2>2. SUFFICES ASSUME provider = "azure_devops", NEW c \in Comments \ skipped',
                        NEW d \in Comments, IssueOf[c] = IssueOf[d], c < d,
                        h[c] # 0, h[d] # 0
                 PROVE  h[c] <= h[d]
    BY <2>1 DEF AgeInv
  <2>3. c \in Nat /\ d \in Nat /\ c # d
    BY <2>2, CommentsAreNat
  <2>4. CASE c = e
    <3>1. h[d] = host[d]
      BY <1>3, <2>3, <2>4
    <3>2. c \in Hidden(e)
      BY <2>2, <2>3, <2>4, <3>1 DEF Hidden
    <3> QED BY <2>1, <2>2, <3>2
  <2>5. CASE d = e
    <3>1. h[c] = host[c] /\ h[d] = now
      BY <1>3, <2>3, <2>5
    <3> QED BY <1>2, <3>1
  <2>6. CASE c # e /\ d # e
    <3>1. h[c] = host[c] /\ h[d] = host[d]
      BY <1>3, <2>6
    <3> QED BY <2>1, <2>2, <3>1 DEF ThreadInv, AgeInv
  <2> QED BY <2>4, <2>5, <2>6
<1> QED BY <1>1, <1>2, <1>3, <1>4, <1>5, <1>6, HostStepInv

LEMMA DeleteCommentInv ==
    ASSUME ThreadInv, NEW e \in Comments, DeleteComment(e) PROVE ThreadInv'
<1> DEFINE h == [host EXCEPT ![e] = 0]
<1>1. HostBecomes(h, {}) /\ written' = written
  BY DEF DeleteComment
<1>2. /\ written \in Nat /\ host \in [Comments -> Times \cup {0}]
      /\ \A c \in Comments : c > written => host[c] = 0
  BY DEF ThreadInv, TypesInv, PlatformInv
<1>3. h \in [Comments -> Times \cup {0}] /\ h[e] = 0 /\ \A c \in Comments \ {e} : h[c] = host[c]
  BY <1>2
<1> HIDE DEF h
<1>4. \A c \in Comments : h[c] \in {0, now, host[c]} /\ (c > written' => h[c] = 0)
  BY <1>1, <1>2, <1>3
<1>5. AgeInv'
  <2>1. host' = h /\ provider' = provider /\ skipped \subseteq skipped'
    BY <1>1 DEF HostBecomes
  <2>2. \A c \in Comments : h[c] # 0 => h[c] = host[c]
    BY <1>3
  <2> QED BY <2>1, <2>2 DEF ThreadInv, AgeInv
<1> QED BY <1>1, <1>2, <1>3, <1>4, <1>5, HostStepInv

LEMMA TickInv == ASSUME ThreadInv, Tick PROVE ThreadInv'
<1>1. /\ now < MaxTime /\ now' = now + 1
      /\ UNCHANGED <<provider, host, written, skipped, copy, synced, pass>>
      /\ \A p \in Passes : ~PassAt(p, "idle") => now + 1 < pass[p].began + Overlap
  BY DEF Tick, board
<1>2. /\ now \in Nat /\ Overlap \in Nat
      /\ \A c \in Comments : host[c] \in Nat /\ host[c] <= now
      /\ \A j \in CardIssues : synced[j] \in Nat /\ synced[j] <= now
  BY Clocks DEF ThreadInv, PlatformInv
<1>3. TypesInv'
  <2>1. now + 1 \in Times
    BY <1>1, <1>2, CommentBounds DEF ThreadInv, TypesInv, Times
  <2> QED BY <1>1, <2>1 DEF ThreadInv, TypesInv
<1>4. PlatformInv' /\ AgeInv' /\ ThreadsAreWhole'
  <2>1. PlatformInv'
    BY <1>1, <1>2 DEF ThreadInv, PlatformInv
  <2> QED BY <1>1, <2>1 DEF ThreadInv, AgeInv, ThreadsAreWhole, Behind
<1>5. ASSUME NEW p \in Passes PROVE PassInv(p)'
  <2>1. SUFFICES ASSUME ~PassAt(p, "idle") PROVE Timely(p)' /\ \A c \in Comments \ skipped :
                           Sees(p, c)' /\ Keeps(p, c)'
    BY <1>1 DEF PassInv, PassAt
  <2>2. Timely(p) /\ \A c \in Comments \ skipped : Sees(p, c) /\ Keeps(p, c)
    BY <2>1 DEF ThreadInv, PassInv
  <2>3. Timely(p)'
    <3>1. /\ pass[p].began \in Nat /\ pass[p].stamp \in Nat /\ pass[p].since \in Nat
      BY Clocks DEF ThreadInv
    <3> QED BY <1>1, <1>2, <2>1, <2>2, <3>1 DEF Timely
  <2>4. \A c : Sees(p, c) => Sees(p, c)'
    BY <1>1, SamePass
  <2>5. \A c : Keeps(p, c) => Keeps(p, c)'
    BY <1>1, SamePass DEF Keeps
  <2> QED BY <2>2, <2>3, <2>4, <2>5
<1> QED BY <1>3, <1>4, <1>5 DEF ThreadInv

LEMMA PassesRestart == ASSUME ThreadInv, RestartPasses PROVE ThreadInv'
<1>1. /\ UNCHANGED <<provider, now, host, written, skipped, copy, synced>>
      /\ pass' = [p \in Passes |-> IdlePass]
  BY DEF RestartPasses, outside, board
<1>2. TypesInv'
  BY <1>1, IdleOK DEF ThreadInv, TypesInv
<1>3. \A p \in Passes : PassInv(p)'
  BY <1>1, IdleOK DEF PassInv, PassAt
<1>4. PlatformInv' /\ AgeInv' /\ ThreadsAreWhole'
  BY <1>1 DEF ThreadInv, PlatformInv, AgeInv, ThreadsAreWhole, Behind
<1> QED BY <1>2, <1>3, <1>4 DEF ThreadInv

-----------------------------------------------------------------------------
(* The theorem.                                                            *)

LEMMA ThreadsBegin == CommentInit => ThreadInv
<1> SUFFICES ASSUME CommentInit PROVE ThreadInv
  OBVIOUS
<1>1. now \in Times /\ now \in Nat
  BY CommentBounds DEF CommentInit, Times
<1>2. /\ \A c \in Comments : host[c] \in {0, now} /\ (c > written => host[c] = 0)
      /\ host \in [Comments -> Times \cup {0}]
  <2>1. \A c \in Comments : c \in Nat
    BY CommentsAreNat
  <2> QED BY <1>1, <2>1, CommentBounds DEF CommentInit
<1>3. TypesInv
  BY <1>1, <1>2, IdleOK, Threads, CommentBounds DEF CommentInit, TypesInv
<1>4. PlatformInv /\ AgeInv /\ ThreadsAreWhole
  <2>1. \A i \in CardIssues : synced[i] = 0
    BY DEF CommentInit, Null
  <2>2. PlatformInv
    BY <1>1, <1>2, <2>1 DEF PlatformInv
  <2>3. AgeInv
    <3>1. \A c \in Comments : host[c] # 0 => host[c] = now
      BY <1>2
    <3> QED BY <1>1, <3>1 DEF AgeInv
  <2>4. ThreadsAreWhole
    <3>1. \A c \in Comments : synced[IssueOf[c]] = Null
      BY <2>1, Threads DEF Null
    <3> QED BY <3>1 DEF ThreadsAreWhole
  <2> QED BY <2>2, <2>3, <2>4
<1>5. \A p \in Passes : PassInv(p)
  BY IdleOK DEF CommentInit, PassInv, PassAt
<1> QED BY <1>3, <1>4, <1>5 DEF ThreadInv

LEMMA ThreadsGoOn == ThreadInv /\ [CommentNext]_commentVars => ThreadInv'
<1> SUFFICES ASSUME ThreadInv, [CommentNext]_commentVars PROVE ThreadInv'
  OBVIOUS
<1>1. CASE \E p \in Passes : BeginPass(p) \/ PassStep(p) \/ ReadFails(p)
  BY <1>1, BeginPassInv, ReadPageInv, GiveUpInv, StampInv, StoreThreadInv, StoreFailInv DEF PassStep
<1>2. CASE RestartPasses
  BY <1>2, PassesRestart
<1>3. CASE WriteComment
  BY <1>3, WriteCommentInv
<1>4. CASE \E c \in Comments : EditComment(c) \/ DeleteComment(c)
  BY <1>4, EditCommentInv, DeleteCommentInv
<1>5. CASE Tick
  BY <1>5, TickInv
<1>6. CASE UNCHANGED commentVars
  <2>1. UNCHANGED <<provider, now, host, written, skipped, copy, synced, pass>>
    BY <1>6 DEF commentVars, outside, board
  <2>2. TypesInv' /\ PlatformInv' /\ AgeInv' /\ ThreadsAreWhole'
    BY <2>1 DEF ThreadInv, TypesInv, PlatformInv, AgeInv, ThreadsAreWhole, Behind
  <2>3. ASSUME NEW p \in Passes PROVE PassInv(p)'
    <3>1. /\ PassAt(p, "idle")' <=> PassAt(p, "idle")
          /\ \A c : (Sees(p, c) => Sees(p, c)') /\ (Keeps(p, c) => Keeps(p, c)')
      BY <2>1, SamePass DEF PassAt, Keeps
    <3> QED BY <2>1, <3>1 DEF ThreadInv, PassInv, Timely
  <2> QED BY <2>2, <2>3 DEF ThreadInv
<1> QED BY <1>1, <1>2, <1>3, <1>4, <1>5, <1>6 DEF CommentNext

THEOREM ThreadsInductive == CommentSpec => []ThreadInv
BY ThreadsBegin, ThreadsGoOn, PTL DEF CommentSpec

\* What a thread with a marker lacks is in the window of a later pass, for any
\* number of passes, comments and failures.
THEOREM ThreadsStayWhole == CommentSpec => []ThreadsAreWhole
<1>1. ThreadInv => ThreadsAreWhole
  BY DEF ThreadInv
<1> QED BY <1>1, ThreadsInductive, PTL

=============================================================================
