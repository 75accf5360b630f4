--------------------------- MODULE MCGitInstalls ---------------------------
(* Instances of GitInstalls for TLC.                                        *)
EXTENDS GitInstalls

CONSTANTS t1, t2

TwoThreads == {t1, t2}
Both == {"github", "gitlab"}

=============================================================================
