--------------------------- MODULE MCIssueImport ---------------------------
(* Instances of IssueImport for TLC.                                        *)
EXTENDS IssueImport

CONSTANTS p1, p2, m1

TwoIssues == {1, 2}
TwoReplicas == {p1, p2}
OnePerson == {m1}

\* "Sync now".
SinceWatermark == {FALSE}

\* A ceiling the repository stays below.
Enough == {3}

=============================================================================
