----------------------------- MODULE MCRequests -----------------------------
(* The work items and the Git connections, for TLC.  As modelled they share  *)
(* no state: a behaviour moves one part, and the other stays where it began. *)
EXTENDS WorkItemStore, GitConnections, TLC

VARIABLE part  \* the part that moves

-----------------------------------------------------------------------------
(* Work items: two tasks of one service, newest first in its listing.       *)

CONSTANTS loop, button, issue, af1, af2

TwoTasks == {1, 2}
SameService == [t \in TwoTasks |-> 1]
NewestFirst == [t \in TwoTasks |-> 3 - t]
OneIssue == {issue, af1, af2}
OwnKeys == [t \in TwoTasks |-> IF t = 1 THEN af1 ELSE af2]

OneLoop == {loop}
OneButton == {button}

ThreeStatuses == {"coding", "stalled", "done"}

-----------------------------------------------------------------------------
(* Git connections.                                                         *)

CONSTANTS w1, w2, github, gitlab, board, site

TwoThreads == {w1, w2}
TwoHosts == {github, gitlab}
OneProject == {board}

\* A tenant that never configured anything, and one with a phase-2 row.
Fresh == [host |-> NoHost, project |-> NoProject, verify |-> "never", secret |-> FALSE]
Phase2 == [host |-> github, project |-> board, verify |-> "rejected", secret |-> TRUE]
FreshOrPhase2 == {Fresh, Phase2}

Reachable == {"ok"}

-----------------------------------------------------------------------------
(* The parts together.                                                      *)

\* The tenant with nothing to adopt is explored without overlaps or crashes.
Calm == part = "connections" /\ legacy = Fresh => connMishaps = 0

Alike == Permutations(TwoThreads)

AllInit ==
    /\ part \in {"store", "connections"}
    /\ Init /\ ConnInit
    /\ part # "connections" => legacy = Fresh

AllNext ==
    /\ UNCHANGED part
    /\ \/ part = "store" /\ Next /\ UNCHANGED connVars
       \/ part = "connections" /\ ConnNext /\ UNCHANGED vars

AllSpec == AllInit /\ [][AllNext]_<<vars, connVars, part>>

=============================================================================
