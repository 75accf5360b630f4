------------------------------ MODULE MCSurfaces ------------------------------
(* The two surfaces of the board, and the prepared actions, for TLC.  As     *)
(* modelled they share no state: a behaviour moves one part, and the other   *)
(* stays where it began.                                                     *)
EXTENDS Surfaces, PreparedActions, TLC

VARIABLE part  \* the part that moves

-----------------------------------------------------------------------------
(* The surfaces.                                                             *)

Deployment(multi, keys, secret, allow, open, ready) ==
    [multi |-> multi, keys |-> keys, apiOpen |-> open, secret |-> secret, allow |-> allow,
     mcpOpen |-> open, sealing |-> ready, app |-> ready, issuer |-> ready]

\* Hosted for one tenant and for many, in the middle of the move away from the
\* MCP secret, with only the secret left, open for a developer, and unconfigured.
Hosts ==
    {Deployment(TRUE, TRUE, FALSE, FALSE, FALSE, TRUE),
     Deployment(FALSE, TRUE, TRUE, TRUE, FALSE, FALSE),
     Deployment(TRUE, TRUE, TRUE, FALSE, FALSE, TRUE),
     Deployment(FALSE, FALSE, TRUE, TRUE, FALSE, TRUE),
     Deployment(FALSE, FALSE, FALSE, FALSE, TRUE, FALSE),
     Deployment(FALSE, FALSE, FALSE, FALSE, FALSE, TRUE)}

TwoTenants == {DEFAULT_TENANT, "acme"}

-----------------------------------------------------------------------------
(* Prepared actions.                                                         *)

CONSTANTS caller1, caller2

\* A stage of code, after the plan session.
CodeAndPlan == <<"aifactory", "pfactory">>

TwoCallers == {caller1, caller2}

\* One factory moves by itself, or one thing goes wrong.
Calm == moves + actionMishaps <= 1

-----------------------------------------------------------------------------
(* The parts together.                                                       *)

Alike == Permutations(TwoCallers)

AllInit ==
    /\ part \in {"surfaces", "actions"}
    /\ Init /\ ActionInit
    /\ part # "surfaces" => deploy = CHOOSE d \in Deployments : d.multi
    /\ part # "actions" => upstream = [s \in Service |-> "live"]

AllNext ==
    /\ UNCHANGED part
    /\ \/ part = "surfaces" /\ Next /\ UNCHANGED actionVars
       \/ part = "actions" /\ ActionNext /\ UNCHANGED vars

AllSpec == AllInit /\ [][AllNext]_<<vars, actionVars, part>>

=============================================================================
