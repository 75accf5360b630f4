------------------------------ MODULE MCPolling ------------------------------
(* The work items under the progress loop, for TLC: two tasks of one service, *)
(* oldest first in its listing.                                               *)
EXTENDS WorkItemStore

CONSTANTS loop, issue, af1, af2

TwoTasks == {1, 2}
SameService == [t \in TwoTasks |-> 1]
OldestFirst == [t \in TwoTasks |-> t]
OneIssue == {issue, af1, af2}
OwnKeys == [t \in TwoTasks |-> IF t = 1 THEN af1 ELSE af2]

OneLoop == {loop}
NoButton == {}

ThreeStatuses == {"coding", "stalled", "done"}

=============================================================================
