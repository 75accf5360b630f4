---------------------------- MODULE MCGitHubSync ----------------------------
(* A card and its issue, and the discussion of imported issues, for TLC.    *)
(* As modelled they share no state: a behaviour moves one part, and the     *)
(* other stays where it began.                                              *)
EXTENDS GitHubSync, CommentSync, TLC

VARIABLE part  \* the part that moves

-----------------------------------------------------------------------------
(* Cards and issues.                                                        *)

CONSTANTS w1, w2, x, y

TwoWorkers == {w1, w2}
TwoTitles == {x, y}

-----------------------------------------------------------------------------
(* Comments.                                                                *)

CONSTANTS poll1, press1

TwoIssues == {1, 2}
ThreeComments == 1 .. 3
TwoOnTheFirst == <<1, 1, 2>>
AllProviders == {"github", "gitlab", "azure_devops"}
ThePoll == {poll1}
APress == {press1}

-----------------------------------------------------------------------------
(* The parts together.                                                      *)

Alike == Permutations(Workers) \cup Permutations(Titles)

AllInit ==
    /\ part \in {"cards", "comments"}
    /\ Init /\ CommentInit
    /\ part # "cards" => project
    /\ part # "comments" => provider = "github"

AllNext ==
    /\ UNCHANGED part
    /\ \/ part = "cards" /\ Next /\ UNCHANGED commentVars
       \/ part = "comments" /\ CommentNext /\ UNCHANGED vars

AllSpec == AllInit /\ [][AllNext]_<<vars, commentVars, part>>

=============================================================================
