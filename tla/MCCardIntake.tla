---------------------------- MODULE MCCardIntake ----------------------------
(* Instances of CardIntake for TLC.                                         *)
EXTENDS CardIntake, TLC

CONSTANTS w1, w2

OneWorker == {w1}
TwoWorkers == {w1, w2}

\* A factory that threads one key through every stage of the card.
OneKey == {"k1"}
\* Doors that each answer a key of their own, or none.
TwoKeys == {"k1", "k2"}
MaybeKey == {"k1", NoKey}

ButtonsOnly == {}
Promotions == {"ready"}
Moves == {"ready", "backlog"}

Routes == {"low", "hard"}
AnyTier == {"low", "hard", NoTier}
LowTier == {"low"}

NoReports == {}
Stuck == {"stuck"}
AllReports == {"active", "stuck"}

Post == {"post"}
PostAndRelay == {"post", "relay"}

Threads == Permutations(Workers)

=============================================================================
