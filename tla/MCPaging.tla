------------------------------- MODULE MCPaging -------------------------------
(* Two walks over pages of something that grows meanwhile, for TLC: the audit *)
(* trail as an auditor reads it, and the issues of a repository as the import *)
(* lists them.  They share no state: a behaviour moves one part, and the      *)
(* other stays where it began.                                                *)
EXTENDS AuditChain, IssueListing

VARIABLE part  \* the part that moves

-----------------------------------------------------------------------------
(* The audit trail.                                                           *)

CONSTANTS p1, p2

TwoAppenders == {p1, p2}
TwoFields == {"approve", "dispatch"}

\* The empty table, and one with a fork: rows 2 and 3 were both chained to
\* row 1 by builds that did not take the lock.
First == Entry("approve", None)
Second == Entry("approve", First.hash)
Third == Entry("dispatch", First.hash)
NoRows == [i \in {} |-> First]
ForkedRows == 1 :> First @@ 2 :> Second @@ 3 :> Third
EmptyOrForked == {NoRows, ForkedRows}

\* The fork is explained, and so is an id that carries no fork.
TheFork == {3, 4}

-----------------------------------------------------------------------------
(* The issues.                                                                *)

ThreeNumbers == 1 .. 3
OnePull == {2}
AllProviders == {"github", "gitlab", "azure_devops"}

\* A ceiling that cuts the listing off, and one that does not.
TightAndWide == {1, 4}

-----------------------------------------------------------------------------
(* The parts together.                                                        *)

AllInit ==
    /\ part \in {"trail", "issues"}
    /\ Init /\ ListingInit
    /\ part # "trail" => rows = NoRows
    /\ part # "issues" => provider = "github" /\ limit = 4

AllNext ==
    /\ UNCHANGED part
    /\ \/ part = "trail" /\ Next /\ UNCHANGED listingVars
       \/ part = "issues" /\ ListingNext /\ UNCHANGED vars

AllSpec == AllInit /\ [][AllNext]_<<vars, listingVars, part>>

=============================================================================
