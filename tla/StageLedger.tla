---------------------------- MODULE StageLedger ----------------------------
(***************************************************************************)
(* What the dispatch records of a card promise (card_intake.py, the module *)
(* docstring and the comments on stage_runs): a stage that is done stays   *)
(* done, a stage is not dispatched while it is in flight, a verification   *)
(* needs a finished build, a sequence is queued as a whole, and the        *)
(* correlation key is written once, by the first dispatch to land.         *)
(***************************************************************************)
CONSTANTS Stages, Keys, NoKey

VARIABLES record, key

ledger == <<record, key>>

Init ==
    /\ record = [s \in Stages |-> "absent"]
    /\ key = NoKey

\* A sequence starts: everything still owed is queued, nothing is in flight.
Queue ==
    /\ \A s \in Stages : record[s] # "dispatched"
    /\ record' = [s \in Stages |->
                     IF record[s] = "done" THEN "done" ELSE "queued"]
    /\ UNCHANGED key

MaySend(s) ==
    /\ record[s] \notin {"dispatched", "done"}
    /\ s = "test" => key # NoKey /\ record["code"] = "done"

Dispatch(s) ==
    /\ MaySend(s)
    /\ record' = [record EXCEPT ![s] = "dispatched"]
    /\ IF key = NoKey THEN key' \in Keys ELSE UNCHANGED key

DispatchFails(s) ==
    /\ MaySend(s)
    /\ record' = [record EXCEPT ![s] = "failed"]
    /\ UNCHANGED key

\* One completion event may settle several in-flight stages.
Settle ==
    /\ record' \in [Stages -> {"absent", "queued", "dispatched", "done", "failed"}]
    /\ \A s \in Stages :
          \/ record'[s] = record[s]
          \/ record[s] = "dispatched" /\ record'[s] \in {"done", "failed"}
    /\ UNCHANGED key

Next ==
    \/ Queue
    \/ \E s \in Stages : Dispatch(s) \/ DispatchFails(s)
    \/ Settle

Spec == Init /\ [][Next]_ledger

=============================================================================
