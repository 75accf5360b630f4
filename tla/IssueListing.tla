---------------------------- MODULE IssueListing ---------------------------
(***************************************************************************)
(* How a repository's issues are listed for the import: fetch_issues of    *)
(* the three providers, and what import_issues makes of the answer.        *)
(*                                                                         *)
(* GitHub is read page by page, newest issue first, while people file,     *)
(* edit, close and reopen issues; GitLab answers one page and no more;     *)
(* Azure DevOps answers a list of numbers that are then read one by one.   *)
(* IssueImport takes the listing as one step: this module shows what the   *)
(* step hides.                                                             *)
(***************************************************************************)
EXTENDS Naturals, Sequences, FiniteSets, SequencesExt, FiniteSetsExt

CONSTANTS
    Numbers,          \* numbers of issues, in the order they are filed
    Pulls,            \* the numbers that are pull requests
    Backlog,          \* how many there are when the repository is connected
    Providers,        \* the kinds of host: "github", "gitlab", "azure_devops"
    Limits,           \* the values import_max may have
    PageSize,         \* _GITHUB_PAGE_SIZE
    HostCap,          \* the largest page GitLab serves, whatever it is asked for
    Overlap,          \* _OVERLAP, in ticks
    MaxTime,          \* bound: the last tick
    MaxIssueChanges,  \* bound: edits, closures and reopenings
    MaxMishaps        \* bound: reads that fail

ASSUME IssueNumbers == IsFiniteSet(Numbers) /\ Numbers = 1 .. Cardinality(Numbers)
ASSUME ListingBounds ==
    /\ Backlog \in 0 .. Cardinality(Numbers) /\ Limits \subseteq Nat
    /\ PageSize \in Nat \ {0} /\ HostCap \in Nat /\ Overlap \in Nat /\ MaxTime \in Nat

VARIABLES
    provider,      \* the kind of host of the repository's connection
    limit,         \* import_max
    now,           \* the time
    host,          \* the issues on the host
    filed,         \* how many were ever filed
    board,         \* the version of each issue that its card mirrors
    watermark,     \* card_import_state.last_synced_at
    pass,          \* the pass that runs
    issueChanges,  \* how many changes there were
    mishaps,       \* how many failures there were
    slipped        \* history: issues a walk missed because a page had shifted

outside == <<now, host, filed, issueChanges, slipped>>
state == <<board, watermark>>
listingVars == <<provider, limit, outside, state, pass, mishaps>>

-----------------------------------------------------------------------------
(* Vocabulary.                                                             *)

Null == 0
FirstTick == Overlap + 1
Times == FirstTick .. MaxTime

NoIssue == [updated |-> Null, open |-> FALSE]
Issue == [updated: Times \cup {Null}, open: BOOLEAN]

\* refs is what Azure DevOps has named and the pass has not read yet.
Idle == [pc |-> "idle", since |-> Null, page |-> 1, refs |-> <<>>,
         got |-> <<>>, began |-> Null]

ListingAt(step) == pass.pc = step
Becomes(r) == pass' = r
Mishap == mishaps < MaxMishaps /\ mishaps' = mishaps + 1

Read(i) == [id |-> i, issue |-> host[i]]

-----------------------------------------------------------------------------
(* The listing.                                                            *)

\* Mutant: an incremental pass asks for open issues too.
state_open(since) == {TRUE}

\* The backfill asks for open issues, an incremental pass for all of them.
state_filter(since) == IF since = Null THEN {TRUE} ELSE BOOLEAN

\* What h holds of what the pass asks for; only GitHub is asked by date.
Matching(h, since) ==
    {i \in Numbers :
        /\ h[i] # NoIssue
        /\ h[i].open \in state_filter(since)
        /\ provider = "github" => h[i].updated >= since}

\* Numbers in the order they are listed.
NewestFirst(S) ==
    CHOOSE s \in [1 .. Cardinality(S) -> S] : \A j, k \in DOMAIN s : j < k => s[j] > s[k]

Listing(h, since) == NewestFirst(Matching(h, since))

Offset == PageSize * (pass.page - 1)

FirstOf(n, s) == IF Len(s) <= n THEN s ELSE SubSeq(s, 1, n)

last_page(page) == Cardinality(page) < PageSize

-----------------------------------------------------------------------------
(* The import of the repository.                                           *)

\* import_issues: the watermark is read, and the listing begins.
BeginListing ==
    /\ ListingAt("idle")
    /\ Becomes([Idle EXCEPT !.pc = "read", !.since = watermark, !.began = now])
    /\ UNCHANGED <<provider, limit, outside, state, mishaps>>

\* HttpGitHubProvider.fetch_issues: one page of the walk.
ReadPage ==
    /\ ListingAt("read")
    /\ provider = "github"
    /\ LET listed == Listing(host, pass.since)
           page == {listed[k] : k \in DOMAIN listed \cap (Offset + 1 .. Offset + PageSize)}
           issues == NewestFirst(page \ Pulls)
           got == pass.got \o [k \in DOMAIN issues |-> Read(issues[k])]
       IN  Becomes(IF last_page(page) \/ Len(got) >= limit
                   THEN [pass EXCEPT !.pc = "import", !.got = FirstOf(limit, got)]
                   ELSE [pass EXCEPT !.page = @ + 1, !.got = got])
    /\ UNCHANGED <<provider, limit, outside, state, mishaps>>

\* GitLabProvider.fetch_issues: per_page is the limit, and one page is read.
ReadOnce ==
    /\ ListingAt("read")
    /\ provider = "gitlab"
    /\ LET listed == NewestFirst(Matching(host, pass.since) \ Pulls)
           issues == FirstOf(Min({limit, HostCap}), listed)
       IN  Becomes([pass EXCEPT !.pc = "import",
                                !.got = [k \in DOMAIN issues |-> Read(issues[k])]])
    /\ UNCHANGED <<provider, limit, outside, state, mishaps>>

\* AzureDevOpsProvider.fetch_issues: the query names the work items ...
Query ==
    /\ ListingAt("read")
    /\ provider = "azure_devops"
    /\ LET listed == NewestFirst(Matching(host, pass.since) \ Pulls)
       IN  Becomes([pass EXCEPT !.pc = "refs", !.refs = FirstOf(limit, listed)])
    /\ UNCHANGED <<provider, limit, outside, state, mishaps>>

\* ... which are read one by one; one that cannot be read is left out.
ReadRef ==
    /\ ListingAt("refs")
    /\ IF pass.refs = <<>>
       THEN Becomes([pass EXCEPT !.pc = "import"]) /\ UNCHANGED mishaps
       ELSE \/ /\ Becomes([pass EXCEPT !.refs = Tail(@),
                                       !.got = Append(@, Read(Head(pass.refs)))])
               /\ UNCHANGED mishaps
            \/ Mishap /\ Becomes([pass EXCEPT !.refs = Tail(@)])
    /\ UNCHANGED <<provider, limit, outside, state>>

\* The listing fails, or the process restarts.
Fail ==
    /\ ~ListingAt("idle")
    /\ Mishap
    /\ Becomes(Idle)
    /\ UNCHANGED <<provider, limit, outside, state>>

\* _next_watermark: the newest update seen, minus the overlap.
next_watermark(got) ==
    IF got = <<>> THEN pass.since
    ELSE Max({got[k].issue.updated : k \in DOMAIN got}) - Overlap

\* The cards are written in the order of the listing, then the watermark.
Import ==
    /\ ListingAt("import")
    /\ board' = [i \in Numbers |->
                    LET read == SelectSeq(pass.got, LAMBDA x : x.id = i)
                    IN  IF read = <<>> THEN board[i] ELSE Last(read).issue]
    /\ watermark' = next_watermark(pass.got)
    /\ Becomes(Idle)
    /\ UNCHANGED <<provider, limit, outside, mishaps>>

-----------------------------------------------------------------------------
(* The host, and time.                                                     *)

\* The issues not read yet that h puts on a page that has been read.
ShiftedPast(h) ==
    IF ~ListingAt("read") THEN {}
    ELSE LET before == Listing(host, pass.since)
             after == Listing(h, pass.since)
         IN  {before[k] : k \in DOMAIN before \ (1 .. Offset)}
                 \cap {after[k] : k \in DOMAIN after \cap (1 .. Offset)}

HostBecomes(h) ==
    /\ host' = h
    /\ slipped' = slipped \cup ShiftedPast(h)
    /\ UNCHANGED <<provider, limit, now, state, pass, mishaps>>

File ==
    /\ filed < Cardinality(Numbers)
    /\ filed' = filed + 1
    /\ HostBecomes([host EXCEPT ![filed + 1] = [updated |-> now, open |-> TRUE]])
    /\ UNCHANGED issueChanges

\* An issue is edited, closed or reopened; two changes in one tick would not
\* be two versions.
Touch(i, open) ==
    /\ host[i].updated \notin {Null, now}
    /\ issueChanges < MaxIssueChanges
    /\ issueChanges' = issueChanges + 1
    /\ HostBecomes([host EXCEPT ![i] = [updated |-> now, open |-> open]])
    /\ UNCHANGED filed

\* Bound: a listing takes no longer than the overlap.
Tick ==
    /\ now < MaxTime
    /\ ~ListingAt("idle") => now < pass.began + Overlap
    /\ now' = now + 1
    /\ UNCHANGED <<provider, limit, host, filed, issueChanges, slipped, state, pass, mishaps>>

-----------------------------------------------------------------------------
(* The specification.                                                      *)

ListingInit ==
    /\ provider \in Providers
    /\ limit \in Limits
    /\ now = FirstTick
    /\ host = [i \in Numbers |->
                  IF i <= Backlog THEN [updated |-> now, open |-> TRUE] ELSE NoIssue]
    /\ filed = Backlog
    /\ board = [i \in Numbers |-> NoIssue]
    /\ watermark = Null
    /\ pass = Idle
    /\ issueChanges = 0
    /\ mishaps = 0
    /\ slipped = {}

Listed == ReadPage \/ ReadOnce \/ Query \/ ReadRef \/ Import

ListingNext ==
    \/ BeginListing \/ Listed \/ Fail
    \/ File
    \/ \E i \in Numbers, open \in BOOLEAN : Touch(i, open)
    \/ Tick

ListingSpec == ListingInit /\ [][ListingNext]_listingVars

-----------------------------------------------------------------------------
(* Properties.                                                             *)

ListingTypeOK ==
    /\ provider \in Providers /\ limit \in Limits /\ now \in Times
    /\ host \in [Numbers -> Issue] /\ board \in [Numbers -> Issue]
    /\ watermark \in {Null} \cup 1 .. MaxTime
    /\ pass.pc \in {"idle", "read", "refs", "import"}
    /\ pass.since \in {Null} \cup 1 .. MaxTime
    /\ Len(pass.got) <= limit
    /\ \A k \in DOMAIN pass.got : pass.got[k].issue \in Issue

\* Only the first read can miss an issue in that way: an incremental pass asks
\* for every state, so that what changes during the read can only move
\* further up the listing, never out of it (issue_import.py:228-245).
IncrementalReadsMissNothing ==
    [][pass.since # Null => slipped' = slipped]_listingVars

=============================================================================
