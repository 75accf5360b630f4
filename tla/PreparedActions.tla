-------------------------- MODULE PreparedActions --------------------------
(***************************************************************************)
(* Prepared actions (actions.py, routes_actions.py): somebody asks what    *)
(* could be done about a work item, looks at the proposal for a while, and *)
(* confirms it; the service then writes to the factory that holds the      *)
(* task, step by step, prunes its own row when the task was to be removed, *)
(* and records the action in the audit trail.                              *)
(*                                                                         *)
(* The row a proposal is made from is a copy of what the factory said at   *)
(* the last poll; between the proposal and the write everything may move.  *)
(***************************************************************************)
EXTENDS Naturals, Sequences, FiniteSets, SequencesExt

CONSTANTS
    Stages,           \* the stages of a work item, the furthest one first
    Callers,          \* people who act on the work item
    MaxMoves,         \* bound: what the factories do by themselves
    MaxActions,       \* bound: actions that are executed
    MaxActionMishaps  \* bound: lost answers, refusals and crashes

VARIABLES
    upstream,       \* the task of each factory, as the factory has it
    pr,             \* the pull request of each factory's task
    row,            \* the work item's row: the task of each stage
    onBoard,        \* is there a row?
    listing,        \* what a poll has read of a factory and not stored yet
    caller,         \* what each caller is at
    trail,          \* the audit trail: an entry for each action recorded
    moves,          \* how often a factory moved by itself
    actions,        \* how many actions were executed
    actionMishaps,  \* how much went wrong
    effects,        \* history: the steps of actions that changed a factory
    cut             \* history: the actions a crash cut off

world == <<upstream, pr, moves>>
store == <<row, onBoard>>
actionVars == <<world, store, listing, caller, trail, actions, actionMishaps, effects, cut>>

-----------------------------------------------------------------------------
(* Vocabulary.                                                             *)

Service == ToSet(Stages)
Kinds == {"approve_plan", "approve_review", "reject_review", "recover", "delete_task"}

\* A stage has no task, one in flight, or one that is done or failed.
TaskStates == {"none", "live", "over"}

NoTarget == "nothing"
NoListing == [service |-> NoTarget, state |-> "none"]

\* steps are the writes still to make, answers what each write came back with.
IdleCaller == [pc |-> "idle", id |-> 0, kind |-> "none", target |-> NoTarget,
         steps |-> <<>>, answers |-> <<>>, ok |-> FALSE]

-----------------------------------------------------------------------------
(* The proposals.                                                          *)

Furthest(Wanted(_)) ==
    LET found == SelectSeq(Stages, Wanted) IN
    IF found = <<>> THEN NoTarget ELSE Head(found)

review_target == Furthest(LAMBDA s : row[s] = "live")

delete_target == Furthest(LAMBDA s : row[s] # "none")

\* A plan session has no endpoint that deletes it.
target_of(kind) ==
    CASE kind = "approve_plan" -> IF row["pfactory"] # "none" THEN "pfactory" ELSE NoTarget
      [] kind = "delete_task" -> IF delete_target = "pfactory" THEN NoTarget ELSE delete_target
      [] OTHER -> review_target

\* Code that is approved is a pull request opened, and then merged.
steps_of(kind, service) ==
    CASE kind \in {"approve_plan", "approve_review"} /\ service = "pfactory" -> <<"approve">>
      [] kind = "approve_review" -> <<"create_pr", "merge">>
      [] kind = "delete_task" -> <<"delete">>
      [] OTHER -> <<"write">>

Propose(c, kind) ==
    /\ caller[c].pc = "idle"
    /\ onBoard
    /\ target_of(kind) # NoTarget
    /\ caller' = [caller EXCEPT ![c] =
           [IdleCaller EXCEPT !.pc = "proposed", !.kind = kind, !.target = target_of(kind),
                        !.steps = steps_of(kind, target_of(kind))]]
    /\ UNCHANGED <<world, store, listing, trail, actions, actionMishaps, effects, cut>>

-----------------------------------------------------------------------------
(* execute_action.                                                         *)

Confirm(c) ==
    /\ caller[c].pc = "proposed"
    /\ actions < MaxActions
    /\ actions' = actions + 1
    /\ caller' = [caller EXCEPT ![c].pc = "writing", ![c].id = actions + 1]
    /\ UNCHANGED <<world, store, listing, trail, actionMishaps, effects, cut>>

\* What a write does to the factory that takes it.
Takes(s, step) ==
    CASE step = "merge" -> pr[s] = "open"
      [] OTHER -> upstream[s] # "none"

Effect(s, step) ==
    /\ upstream' = CASE step = "delete" -> [upstream EXCEPT ![s] = "none"]
                     [] step \in {"approve", "merge"} -> [upstream EXCEPT ![s] = "over"]
                     [] OTHER -> upstream
    /\ pr' = CASE step = "create_pr" -> [pr EXCEPT ![s] = "open"]
               [] step = "merge" -> [pr EXCEPT ![s] = "merged"]
               [] OTHER -> pr

Untouched == UNCHANGED <<upstream, pr>>

\* A body may say that the operation failed under a status that says it did not.
ActionAnswers == {"done", "refused", "refused_in_body", "not_found"}

is_ok(answer) == answer = "done"

\* The chain stops at the first write that failed.
remaining(steps, answer) == IF is_ok(answer) THEN Tail(steps) ELSE <<>>

\* _do: one write and its answer.
ActionStep(c) ==
    /\ caller[c].pc = "writing"
    /\ caller[c].steps # <<>>
    /\ LET s == caller[c].target
           step == Head(caller[c].steps)
       IN \E answer \in ActionAnswers :
          /\ \/ /\ answer = "done"
                /\ Takes(s, step)
                /\ Effect(s, step)
                /\ effects' = effects \cup {<<caller[c].id, step>>}
                /\ UNCHANGED actionMishaps
             \/ /\ answer \in {"refused", "refused_in_body"}
                /\ actionMishaps < MaxActionMishaps
                /\ actionMishaps' = actionMishaps + 1
                /\ Untouched
                /\ UNCHANGED effects
             \/ /\ answer = IF upstream[s] = "none" THEN "not_found" ELSE "refused"
                /\ ~Takes(s, step)
                /\ Untouched
                /\ UNCHANGED <<effects, actionMishaps>>
          /\ caller' = [caller EXCEPT
                 ![c].answers = Append(@, answer),
                 ![c].steps = remaining(@, answer)]
    /\ UNCHANGED <<moves, store, listing, trail, actions, cut>>

\* The connection breaks or times out, before the write or after it.
StepLost(c) ==
    /\ caller[c].pc = "writing"
    /\ caller[c].steps # <<>>
    /\ actionMishaps < MaxActionMishaps
    /\ actionMishaps' = actionMishaps + 1
    /\ LET s == caller[c].target
           step == Head(caller[c].steps)
       IN \/ /\ Takes(s, step)
             /\ Effect(s, step)
             /\ effects' = effects \cup {<<caller[c].id, step>>}
          \/ Untouched /\ UNCHANGED effects
    /\ caller' = [caller EXCEPT ![c].answers = Append(@, "lost"), ![c].steps = <<>>]
    /\ UNCHANGED <<moves, store, listing, trail, actions, cut>>

all_ok(answers) == \A i \in DOMAIN answers : is_ok(answers[i])

AnswerAction(c) ==
    /\ caller[c].pc = "writing"
    /\ caller[c].steps = <<>>
    /\ caller' = [caller EXCEPT
           ![c].ok = all_ok(caller[c].answers),
           ![c].pc = IF caller[c].kind = "delete_task" THEN "prune" ELSE "audit"]
    /\ UNCHANGED <<world, store, listing, trail, actions, actionMishaps, effects, cut>>

-----------------------------------------------------------------------------
(* execute_prepared_action: the row is pruned whatever the factory said,   *)
(* and a task that was gone already is a task removed.                     *)

removal_ok(c) == caller[c].ok \/ (onBoard /\ Last(caller[c].answers) = "not_found")

Prune(c) ==
    /\ caller[c].pc = "prune"
    /\ caller' = [caller EXCEPT ![c].pc = "audit", ![c].ok = removal_ok(c)]
    /\ onBoard' = FALSE
    /\ row' = [s \in Service |-> "none"]
    /\ UNCHANGED <<world, listing, trail, actions, actionMishaps, effects, cut>>

\* MUTANT: only what succeeded is recorded.
RecordAction_ok(c) ==
    /\ caller[c].pc = "audit"
    /\ trail' = IF caller[c].ok
                THEN trail \cup {[id |-> caller[c].id, ok |-> TRUE]}
                ELSE trail
    /\ caller' = [caller EXCEPT ![c] = IdleCaller]
    /\ UNCHANGED <<world, store, listing, actions, actionMishaps, effects, cut>>

RecordAction(c) ==
    /\ caller[c].pc = "audit"
    /\ trail' = trail \cup {[id |-> caller[c].id, ok |-> caller[c].ok]}
    /\ caller' = [caller EXCEPT ![c] = IdleCaller]
    /\ UNCHANGED <<world, store, listing, actions, actionMishaps, effects, cut>>

\* The process dies; proposals are in browsers and survive.
CrashAction ==
    /\ actionMishaps < MaxActionMishaps
    /\ actionMishaps' = actionMishaps + 1
    /\ \E c \in Callers : caller[c].pc \notin {"idle", "proposed"}
    /\ cut' = cut \cup {caller[c].id : c \in {d \in Callers :
                                        caller[d].pc \notin {"idle", "proposed"}}}
    /\ caller' = [c \in Callers |-> IF caller[c].pc = "proposed" THEN caller[c] ELSE IdleCaller]
    /\ listing' = NoListing
    /\ UNCHANGED <<world, store, trail, actions, effects>>

-----------------------------------------------------------------------------
(* The factories, and the poll that mirrors them (WorkItemStore has its    *)
(* details): a task that is listed is stored, one in flight that is not    *)
(* listed any more is cleared, one that is over stays.                     *)

Move(s) ==
    /\ moves < MaxMoves
    /\ moves' = moves + 1
    /\ \E state \in TaskStates \ {upstream[s]} : upstream' = [upstream EXCEPT ![s] = state]
    /\ pr' = [pr EXCEPT ![s] = IF upstream[s] = "none" THEN "none" ELSE @]
    /\ UNCHANGED <<store, listing, caller, trail, actions, actionMishaps, effects, cut>>

List(s) ==
    /\ listing = NoListing
    /\ listing' = [service |-> s, state |-> upstream[s]]
    /\ UNCHANGED <<world, store, caller, trail, actions, actionMishaps, effects, cut>>

Store ==
    /\ listing # NoListing
    /\ LET s == listing.service IN
       row' = [row EXCEPT ![s] = IF listing.state = "none" /\ @ = "over" THEN @
                                 ELSE listing.state]
    /\ onBoard' = (onBoard \/ listing.state # "none")
    /\ listing' = NoListing
    /\ UNCHANGED <<world, caller, trail, actions, actionMishaps, effects, cut>>

-----------------------------------------------------------------------------
ActionInit ==
    /\ upstream \in [Service -> TaskStates]
    /\ pr = [s \in Service |-> "none"]
    /\ row = upstream
    /\ onBoard = TRUE
    /\ listing = NoListing
    /\ caller = [c \in Callers |-> IdleCaller]
    /\ trail = {}
    /\ moves = 0 /\ actions = 0 /\ actionMishaps = 0
    /\ effects = {} /\ cut = {}

Executing(c) == ActionStep(c) \/ AnswerAction(c) \/ Prune(c) \/ RecordAction(c)

ActionNext ==
    \/ \E c \in Callers : \/ \E kind \in Kinds : Propose(c, kind)
                          \/ Confirm(c) \/ Executing(c) \/ StepLost(c)
    \/ \E s \in Service : Move(s) \/ List(s)
    \/ Store
    \/ CrashAction

ActionSpec == ActionInit /\ [][ActionNext]_actionVars

-----------------------------------------------------------------------------
(* Properties.                                                             *)

\* Every variable keeps its type, and no plan session is ever asked to be
\* deleted, which has no endpoint (actions.py:325-331).
ActionTypeOK ==
    /\ upstream \in [Service -> TaskStates]
    /\ pr \in [Service -> {"none", "open", "merged"}]
    /\ row \in [Service -> TaskStates]
    /\ onBoard \in BOOLEAN
    /\ listing \in [service: Service \cup {NoTarget}, state: TaskStates]
    /\ \A c \in Callers :
          /\ caller[c].pc \in {"idle", "proposed", "writing", "prune", "audit"}
          /\ caller[c].id \in 0 .. MaxActions
          /\ caller[c].kind \in Kinds \cup {"none"}
          /\ caller[c].target \in Service \cup {NoTarget}
          /\ caller[c].kind = "delete_task" => caller[c].target # "pfactory"
          /\ Len(caller[c].answers) + Len(caller[c].steps) <= 2
    /\ trail \subseteq [id: 1 .. actions, ok: BOOLEAN]
    /\ moves \in 0 .. MaxMoves /\ actions \in 0 .. MaxActions /\ actionMishaps \in 0 .. MaxActionMishaps
    /\ cut \subseteq 1 .. actions

\* Whatever an action changed in a factory is in the trail, even when its answer
\* was lost or a later step failed; only a crash leaves an action out
\* (routes_actions.py:97-106).
EffectsAreRecorded ==
    \A e \in effects :
        \/ \E entry \in trail : entry.id = e[1]
        \/ \E c \in Callers : caller[c].id = e[1]
        \/ e[1] \in cut

=============================================================================
