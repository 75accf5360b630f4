---------------------------- MODULE CommentSync ----------------------------
(***************************************************************************)
(* The discussion of imported cards (_sync_comments of issue_import.py,    *)
(* store_comments of cards.py, and the comment reads of the providers).    *)
(*                                                                         *)
(* A pass sorts the cards of one project into warm ones, whose thread has  *)
(* been read before, and cold ones, reads each group from the host page by *)
(* page while people write, edit and delete comments there, and stores the *)
(* threads card by card.  The poll and a press of "Sync now" may overlap.  *)
(*                                                                         *)
(* Comments are numbered in the order they are written, and a comment's    *)
(* content is the time of its last edit: a stored copy is current when it  *)
(* carries the same time.                                                  *)
(***************************************************************************)
EXTENDS Naturals, FiniteSets, FiniteSetsExt

CONSTANTS
    CardIssues,        \* numbers of the issues that have a card
    Comments,          \* numbers of comments
    IssueOf,           \* the issue each comment belongs to
    Providers,         \* the kinds of host: "github", "gitlab", "azure_devops"
    Backlog,           \* how many comments there are when the project is connected
    PageSize,          \* comments on a page
    MaxPages,          \* _COMMENT_MAX_PAGES
    BackfillMax,       \* Settings.import_comment_backfill_max
    Overlap,           \* _COMMENT_OVERLAP, in ticks
    Polls,             \* the pass of the poll
    Presses,           \* the pass of a press of "Sync now"
    MaxTime,           \* bound: the last tick
    MaxChanges,        \* bound: edits and deletions on the host
    MaxCommentMishaps  \* bound: reads and writes that fail

ASSUME Threads ==
    /\ IsFiniteSet(CardIssues) /\ CardIssues \subseteq Nat
    /\ IsFiniteSet(Comments) /\ Comments = 1 .. Cardinality(Comments)
    /\ IssueOf \in [Comments -> CardIssues]
    /\ Providers \subseteq {"github", "gitlab", "azure_devops"}
ASSUME CommentBounds ==
    /\ Backlog \in Nat /\ PageSize \in Nat \ {0} /\ MaxPages \in Nat
    /\ Overlap \in Nat \ {0} /\ MaxTime \in Nat /\ MaxTime > Overlap

VARIABLES
    provider,        \* the kind of host of the project's connection
    now,             \* the time
    host,            \* host[c]: when comment c was last edited; 0: it is not there
    written,         \* how many comments were ever written
    copy,            \* copy[c]: card_comments.updated_at of c; 0: no row
    synced,          \* synced[i]: cards.comments_synced_at; 0: NULL
    pass,            \* what each pass is doing
    changes,         \* how many edits and deletions there were
    commentMishaps,  \* how many failures there were
    skipped          \* history: comments a walk missed because a page had shifted

outside == <<now, host, written, changes, skipped>>
board == <<copy, synced>>
commentVars == <<provider, outside, board, pass, commentMishaps>>

-----------------------------------------------------------------------------
(* Vocabulary.                                                             *)

Passes == Polls \cup Presses

Null == 0
Times == Overlap + 1 .. MaxTime

\* got[c] is the version of c that the pass read last, twice what it read again.
NothingRead == [c \in Comments |-> 0]

IdlePass == [pc |-> "idle", group |-> "warm", warm |-> {}, cold |-> {},
             since |-> Null, todo |-> {}, page |-> 1, token |-> 0,
             got |-> NothingRead, twice |-> {}, began |-> Null, stamp |-> Null]

PassAt(p, step) == pass[p].pc = step
PassBecomes(p, r) == pass' = [pass EXCEPT ![p] = r]
CommentMishap == commentMishaps < MaxCommentMishaps /\ commentMishaps' = commentMishaps + 1

Warm == {i \in CardIssues : synced[i] # Null}

-----------------------------------------------------------------------------
(* The providers: what a listing holds, and where a walk of it stops.      *)

\* GitHub answers for the whole repository when there is a window.
Bulk(p) == provider = "github" /\ pass[p].group = "warm"

Window(p) == IF pass[p].group = "warm" THEN pass[p].since ELSE Null

\* What the host lists, were its comments h: a window of the repository, or
\* one thread.
Listed(p, h) ==
    LET there == {c \in Comments : h[c] # 0}
    IN  IF Bulk(p) THEN {c \in there : h[c] >= Window(p)}
        ELSE {c \in there : IssueOf[c] = Min(pass[p].todo)}

\* A window is listed by last edit, a thread oldest first; GitLab lists the
\* last edit first, and Azure DevOps the newest comment.
Before(p, h, a, b) ==
    LET Older(c, d) == h[c] < h[d] \/ (h[c] = h[d] /\ c < d)
    IN  CASE Bulk(p) -> Older(a, b)
          [] provider = "github" /\ ~Bulk(p) -> a < b
          [] provider = "gitlab" -> Older(b, a)
          [] provider = "azure_devops" -> a > b

Place(p, h, c) == Cardinality({d \in Listed(p, h) : Before(p, h, d, c)})

\* Pages are counted, except on Azure DevOps, whose token is the last comment
\* that was read.
Offset(p) == PageSize * (pass[p].page - 1)

Rest(p, h) ==
    IF provider = "azure_devops"
    THEN {c \in Listed(p, h) : pass[p].token = 0 \/ c < pass[p].token}
    ELSE {c \in Listed(p, h) : Place(p, h, c) >= Offset(p)}

Page(p) ==
    LET rest == Rest(p, host)
    IN  IF provider = "azure_devops"
        THEN {c \in rest : Cardinality({d \in rest : d > c}) < PageSize}
        ELSE {c \in rest : Place(p, host, c) < Offset(p) + PageSize}

\* A newest-first walk stops at the first comment the window leaves out.
Kept(p) ==
    LET upTo(c) == {c} \cup {d \in Page(p) : Before(p, host, d, c)}
    IN  IF Window(p) = Null \/ provider = "github" THEN Page(p)
        ELSE {c \in Page(p) : \A d \in upTo(c) : host[d] > Window(p)}

\* A page that is not full is the last one; Azure DevOps gives no token.
LastPage(p) ==
    \/ Kept(p) # Page(p)
    \/ IF provider = "azure_devops" THEN Page(p) = Rest(p, host)
       ELSE Cardinality(Listed(p, host)) < Offset(p) + PageSize

-----------------------------------------------------------------------------
(* A pass over the threads of the project's cards.                         *)

Reading(r, group) ==
    [r EXCEPT !.pc = "read", !.group = group, !.page = 1, !.token = 0,
              !.todo = IF group = "warm" THEN r.warm ELSE r.cold,
              !.got = NothingRead, !.twice = {}, !.began = now]

\* The group after the one that was just stored or given up.
NextGroup(r) ==
    IF r.group = "warm" /\ r.cold # {}
    THEN Reading([IdlePass EXCEPT !.cold = r.cold], "cold") ELSE IdlePass

give_up(r) == NextGroup(r)

\* Mutant: the newest copy of the group decides the window.
since_newest == IF Warm = {} THEN Null ELSE Max({synced[i] : i \in Warm}) - Overlap

\* min(card.comments_synced_at), minus the overlap.
since == IF Warm = {} THEN Null ELSE Min({synced[i] : i \in Warm}) - Overlap

\* The never-read cards a pass takes, oldest first.
Backfill ==
    {i \in CardIssues \ Warm :
        Cardinality({j \in CardIssues \ Warm : j < i}) < BackfillMax}

\* The cards are read once, for both groups; a pass with no thread to read is
\* over.  Bound: a pass that overlaps another one counts as a mishap.
BeginPass(p) ==
    /\ PassAt(p, "idle")
    /\ Warm \cup Backfill # {}
    /\ IF \E q \in Passes : ~PassAt(q, "idle") THEN CommentMishap ELSE UNCHANGED commentMishaps
    /\ LET r == [IdlePass EXCEPT !.warm = Warm, !.cold = Backfill, !.since = since]
       IN  PassBecomes(p, IF Warm # {} THEN Reading(r, "warm") ELSE Reading(r, "cold"))
    /\ UNCHANGED <<provider, outside, board>>

\* One page of the walk: of the repository, or of the first thread to do.
ReadPage(p) ==
    /\ PassAt(p, "read")
    /\ pass[p].page <= MaxPages
    /\ LET kept == Kept(p)
           left == IF Bulk(p) THEN {} ELSE pass[p].todo \ {Min(pass[p].todo)}
           r == [pass[p] EXCEPT
                   !.got = [c \in Comments |-> IF c \in kept THEN host[c] ELSE @[c]],
                   !.twice = @ \cup {c \in kept : pass[p].got[c] # 0}]
       IN  PassBecomes(p,
             IF ~LastPage(p)
             THEN [r EXCEPT !.page = @ + 1,
                            !.token = IF provider = "azure_devops" THEN Min(Page(p)) ELSE 0]
             ELSE [r EXCEPT !.page = 1, !.token = 0, !.todo = left,
                            !.pc = IF left = {} THEN "stamp" ELSE "read"])
    /\ UNCHANGED <<provider, outside, board, commentMishaps>>

\* Longer than _COMMENT_MAX_PAGES: an error, never a truncation.
PagesRunOut(p) ==
    /\ PassAt(p, "read")
    /\ pass[p].page > MaxPages
    /\ PassBecomes(p, give_up(pass[p]))
    /\ UNCHANGED <<provider, outside, board, commentMishaps>>

ReadFails(p) ==
    /\ PassAt(p, "read")
    /\ CommentMishap
    /\ PassBecomes(p, give_up(pass[p]))
    /\ UNCHANGED <<provider, outside, board>>

\* synced_at: when the read of the group was over.
Stamp(p) ==
    /\ PassAt(p, "stamp")
    /\ PassBecomes(p, [pass[p] EXCEPT !.pc = "store", !.stamp = now,
                                      !.todo = IF pass[p].group = "warm"
                                               THEN pass[p].warm ELSE pass[p].cold])
    /\ UNCHANGED <<provider, outside, board, commentMishaps>>

\* The unique index refuses a comment that is new and was read twice; of one
\* that has a row each version is written, and the last one stays.
Refused(p, i) == \E c \in pass[p].twice : IssueOf[c] = i /\ copy[c] = 0

marker(p) == pass[p].stamp

AfterThread(p, i) ==
    LET r == [pass[p] EXCEPT !.todo = @ \ {i},
                             !.got = [c \in Comments |-> IF IssueOf[c] = i THEN 0 ELSE @[c]],
                             !.twice = {c \in @ : IssueOf[c] # i}]
    IN  IF r.todo = {} THEN NextGroup(r) ELSE r

\* Upsert one card's comments and mark its thread, in one transaction.
store_comments(p) ==
    /\ PassAt(p, "store")
    /\ LET i == Min(pass[p].todo)
       IN  /\ ~Refused(p, i)
           /\ copy' = [c \in Comments |->
                          IF IssueOf[c] = i /\ pass[p].got[c] # 0 THEN pass[p].got[c] ELSE copy[c]]
           /\ synced' = [synced EXCEPT ![i] = marker(p)]
           /\ PassBecomes(p, AfterThread(p, i))
    /\ UNCHANGED <<provider, outside, commentMishaps>>

\* One card's write fails: its rows and its marker stay, the others go on.
StoreFails(p) ==
    /\ PassAt(p, "store")
    /\ LET i == Min(pass[p].todo)
       IN  /\ \/ Refused(p, i) /\ UNCHANGED commentMishaps
              \/ ~Refused(p, i) /\ CommentMishap
           /\ PassBecomes(p, AfterThread(p, i))
    /\ UNCHANGED <<provider, outside, board>>

\* The process restarts.
RestartPasses ==
    /\ \E p \in Passes : ~PassAt(p, "idle")
    /\ CommentMishap
    /\ pass' = [p \in Passes |-> IdlePass]
    /\ UNCHANGED <<provider, outside, board>>

-----------------------------------------------------------------------------
(* The host, and time.                                                     *)

\* The comments that p has not read yet and that h puts on a page it has read.
ShiftedPast(p, h) ==
    IF PassAt(p, "read") THEN {c \in Rest(p, host) : h[c] = host[c]} \ Rest(p, h) ELSE {}

\* An edit of a comment that newer ones hide from a newest-first walk.
Hidden(c) ==
    IF provider = "azure_devops" /\ \E d \in Comments :
            d > c /\ host[d] # 0 /\ IssueOf[d] = IssueOf[c]
    THEN {c} ELSE {}

HostBecomes(h, hidden) ==
    /\ host' = h
    /\ skipped' = skipped \cup hidden \cup UNION {ShiftedPast(p, h) : p \in Passes}
    /\ UNCHANGED <<provider, now, board, pass, commentMishaps>>

WriteComment ==
    /\ written < Cardinality(Comments)
    /\ written' = written + 1
    /\ HostBecomes([host EXCEPT ![written + 1] = now], {})
    /\ UNCHANGED changes

Change == changes < MaxChanges /\ changes' = changes + 1

\* Two edits in one tick would not be two versions.
EditComment(c) ==
    /\ host[c] \notin {0, now}
    /\ Change
    /\ HostBecomes([host EXCEPT ![c] = now], Hidden(c))
    /\ UNCHANGED written

DeleteComment(c) ==
    /\ host[c] # 0
    /\ Change
    /\ HostBecomes([host EXCEPT ![c] = 0], {})
    /\ UNCHANGED written

\* Bound: a group, from its first page to its last store, takes less than the
\* overlap.
Tick ==
    /\ now < MaxTime
    /\ \A p \in Passes : ~PassAt(p, "idle") => now + 1 < pass[p].began + Overlap
    /\ now' = now + 1
    /\ UNCHANGED <<provider, host, written, changes, skipped, board, pass, commentMishaps>>

-----------------------------------------------------------------------------
(* The specification.                                                      *)

CommentInit ==
    /\ provider \in Providers
    /\ now = Overlap + 1
    /\ host = [c \in Comments |-> IF c <= Backlog THEN now ELSE 0]
    /\ written = Backlog
    /\ copy = [c \in Comments |-> 0]
    /\ synced = [i \in CardIssues |-> Null]
    /\ pass = [p \in Passes |-> IdlePass]
    /\ changes = 0
    /\ commentMishaps = 0
    /\ skipped = {}

PassStep(p) ==
    \/ ReadPage(p)
    \/ PagesRunOut(p)
    \/ Stamp(p)
    \/ store_comments(p)
    \/ StoreFails(p)

CommentNext ==
    \/ \E p \in Passes : BeginPass(p) \/ PassStep(p) \/ ReadFails(p)
    \/ RestartPasses
    \/ WriteComment
    \/ \E c \in Comments : EditComment(c) \/ DeleteComment(c)
    \/ Tick

CommentSpec == CommentInit /\ [][CommentNext]_commentVars

-----------------------------------------------------------------------------
(* Properties.                                                             *)

CommentTypeOK ==
    /\ provider \in Providers
    /\ now \in Times
    /\ host \in [Comments -> Times \cup {0}]
    /\ copy \in [Comments -> Times \cup {0}]
    /\ synced \in [CardIssues -> Times \cup {Null}]
    /\ \A p \in Passes :
          /\ pass[p].pc \in {"idle", "read", "stamp", "store"}
          /\ pass[p].warm \cup pass[p].cold \subseteq CardIssues
          /\ pass[p].warm \cap pass[p].cold = {}
          /\ pass[p].pc \in {"read", "store"} => pass[p].todo # {}
          /\ pass[p].page \in 1 .. MaxPages + 1

Behind(c) == host[c] # 0 /\ copy[c] # host[c]

\* What a card's thread lacks is in the window of a later pass: a thread
\* with a marker lacks no comment and no edit older than the marker minus the
\* overlap, however passes overlap, fail and store out of order, while the group
\* of a pass takes less than the overlap (see Tick).  The window of a later pass
\* starts no later than that (issue_import.py:380-390), so nothing falls into
\* the gap; what a shifted page or a newest-first walk put out of reach is
\* excepted.
ThreadsAreWhole ==
    \A c \in Comments \ skipped :
        Behind(c) /\ synced[IssueOf[c]] # Null
            => host[c] > synced[IssueOf[c]] - Overlap

=============================================================================
