------------------------------ MODULE Surfaces ------------------------------
(* The two ways into the board: the REST routes (app.py, auth.py,             *)
(* routes_cards.py, routes_git_config.py) and the MCP tools (mcp.py).  Both   *)
(* end in the same card_ops and git_config_ops functions; what differs is who *)
(* is let in, how the tenant is chosen and how a failure is told.             *)
EXTENDS Naturals, FiniteSets

CONSTANTS
    Deployments,  \* [multi, keys, apiOpen, secret, allow, mcpOpen, sealing, app, issuer : BOOLEAN]
    Tenants,      \* the tenants X-Tenant-Id may name, DEFAULT_TENANT among them
    MaxMishaps    \* lost answers, restarts and failures of the audit store

DEFAULT_TENANT == "default"

ASSUME DeploymentAssumption ==
    Deployments \subseteq [multi : BOOLEAN, keys : BOOLEAN, apiOpen : BOOLEAN, secret : BOOLEAN,
                           allow : BOOLEAN, mcpOpen : BOOLEAN, sealing : BOOLEAN, app : BOOLEAN,
                           issuer : BOOLEAN]
ASSUME TenantAssumption == DEFAULT_TENANT \in Tenants
ASSUME MishapAssumption == MaxMishaps \in Nat

READ == "read"
WRITE == "write"

VARIABLES
    deploy,   \* how this process was configured
    rows,     \* what each tenant has: a card, a connection, a repository
    call,     \* the request under way, or the last one
    mishaps

vars == <<deploy, rows, call, mishaps>>

-----------------------------------------------------------------------------
(* The catalogue: what each operation needs, makes and may fail with.        *)

CardReads == {"list", "get", "card_comments", "sync_state"}
StageTools == {"plan", "code", "test", "run"}
CardEdits == {"create", "update", "move", "reprioritise", "sync_github"}
CardWrites == CardEdits \cup StageTools \cup {"import", "delete"}

GitReads == {"get_git_config", "git_capabilities", "list_git_connections", "list_git_repositories"}
ConfigWrites == {"set_git_config", "verify_git_config", "set_git_credential", "delete_git_credential"}
ConnectionWrites ==
    {"update_git_connection", "delete_git_connection", "verify_git_connection",
     "set_git_connection_credential", "delete_git_connection_credential",
     "start_git_install", "delete_git_install"}
RepositoryWrites == {"update_git_repository", "delete_git_repository", "set_default_git_repository"}
Creates == {"create", "create_git_connection", "create_git_repository"}

TenantRoutes ==
    GitReads \cup ConfigWrites \cup ConnectionWrites \cup RepositoryWrites
        \cup (Creates \ {"create"})

BOARD_OPERATIONS == CardReads \cup CardWrites \cup TenantRoutes

\* The one resource an operation names; without it the operation says "missing".
Needs(op) ==
    CASE op \in ({"get", "card_comments"} \cup CardWrites) \ {"create", "import"} -> {"card"}
      [] op \in ConnectionWrites \cup {"create_git_repository"} -> {"connection"}
      [] op \in RepositoryWrites -> {"repository"}
      [] OTHER -> {}

Makes(op) ==
    CASE op = "create" -> {"card"}
      [] op \in {"create_git_connection", "set_git_credential"} -> {"connection"}
      [] op = "create_git_repository" -> {"repository"}
      [] op = "set_git_config" -> {"connection", "repository"}
      [] OTHER -> {}

Drops(op) ==
    CASE op = "delete" -> {"card"}
      [] op = "delete_git_connection" -> {"connection", "repository"}
      [] op = "delete_git_repository" -> {"repository"}
      [] OTHER -> {}

\* How the request itself may be turned down, besides what it names.  An empty
\* credential is invalid to the route, and to the tool one that cannot be stored.
Rejections(op) ==
    CASE op \in {"create", "update"} -> {"duplicate", "invalid"}
      [] op \in {"move", "reprioritise"} -> {"invalid"}
      [] op \in StageTools -> {"refused"}
      [] op \in {"set_git_config", "create_git_connection", "update_git_connection",
                 "create_git_repository", "update_git_repository"} -> {"rejected", "invalid"}
      [] op \in {"set_git_credential", "set_git_connection_credential"} ->
             (IF call.surface = "rest" THEN {"invalid"} ELSE {"unsealed"})
                 \cup (IF deploy.sealing THEN {} ELSE {"unsealed"})
      [] op = "start_git_install" -> IF deploy.app THEN {} ELSE {"noinstall"}
      [] OTHER -> {}

Mutates(op) == op \notin CardReads \cup GitReads

\* Each surface declares the scope of an operation by itself.
RouteScope(op) == IF Mutates(op) THEN WRITE ELSE READ

\* A tool that is not in the table asks for WRITE.
TOOL_SCOPES(op) == IF op \in CardReads \cup GitReads THEN READ ELSE WRITE

-----------------------------------------------------------------------------
(* Who is asking.                                                            *)

\* person presents a key that may write beside a verified ID token; secret is
\* the MCP bearer and stranger a key nobody issued.
Credentials == {"nobody", "stranger", "reader", "writeonly", "writer", "person", "secret"}

parse_api_keys == [reader |-> {READ}, writeonly |-> {WRITE}, writer |-> {READ, WRITE}, person |-> {READ, WRITE}]

Known(who) == deploy.keys /\ who \in DOMAIN parse_api_keys

\* Why a caller is turned away: "" when it is not.
authorize(who, scope) ==
    IF ~deploy.keys THEN IF deploy.apiOpen THEN "" ELSE "401"
    ELSE IF ~Known(who) THEN "401"
    ELSE IF scope \notin parse_api_keys[who] THEN "403"
    ELSE ""

_authenticate(who) ==
    IF deploy.secret /\ who = "secret" /\ deploy.allow THEN {READ, WRITE}
    ELSE IF Known(who) THEN parse_api_keys[who]
    ELSE IF deploy.secret \/ deploy.keys THEN {}
    ELSE IF deploy.mcpOpen THEN {READ, WRITE} ELSE {}

_require_tool_scope(c) ==
    IF TOOL_SCOPES(c.op) \in _authenticate(c.who) THEN ""
    ELSE IF _authenticate(c.who) = {} THEN "401" ELSE "403"

resolve_tenant(header) == IF deploy.multi THEN header ELSE DEFAULT_TENANT

tenant_dep_trusting(c) == ""

tenant_dep(c) ==
    IF c.op \in TenantRoutes /\ c.path # resolve_tenant(c.header) THEN "403" ELSE ""

\* The routes: the key middleware asks for READ, then the route for its own.
enforce_api_key(c) == authorize(c.who, READ)

require_scope(c) == authorize(c.who, RouteScope(c.op))

FirstOf(reasons) == IF \A i \in 1..3 : reasons[i] = "" THEN ""
                    ELSE reasons[CHOOSE i \in 1..3 : reasons[i] # "" /\ \A j \in 1..(i - 1) : reasons[j] = ""]

TurnedAway(c) ==
    IF c.surface = "rest" THEN FirstOf(<<enforce_api_key(c), tenant_dep(c), require_scope(c)>>)
    ELSE _require_tool_scope(c)

\* The named person, when there is an issuer to verify the token with.
oidc_actor(who) == IF who = "person" /\ deploy.issuer THEN {"user"} ELSE {}

identity_dep_rebound(who) == IF Known(who) THEN who ELSE "local"

identity_dep(who) ==
    IF oidc_actor(who) # {} THEN "user"
    ELSE IF Known(who) THEN who
    ELSE "local"

cards_store_dep(c) == resolve_tenant(c.header)

-----------------------------------------------------------------------------
(* How a failure is told.                                                    *)

Reasons == {"missing", "duplicate", "refused", "rejected", "unsealed", "noinstall", "invalid", "gone"}

\* What each route catches of the operation behind it.
CardCatches(op) ==
    (IF Needs(op) = {"card"} THEN {"missing"} ELSE {})
        \cup (IF op \in {"create", "update"} THEN {"duplicate"} ELSE {})
        \cup (IF op \in StageTools THEN {"refused"} ELSE {})

ConfigCatches(op) ==
    (IF op = "set_git_config" THEN {"rejected"} ELSE {})
        \cup (IF op = "set_git_credential" THEN {"unsealed"} ELSE {})

ConnectionCatches(op) ==
    (IF op \in ConnectionWrites THEN {"missing"} ELSE {})
        \cup (IF op \in {"create_git_connection", "update_git_connection"} THEN {"rejected"} ELSE {})

CredentialCatches(op) == IF op = "set_git_connection_credential" THEN {"unsealed"} ELSE {}

InstallCatches(op) == IF op = "start_git_install" THEN {"noinstall"} ELSE {}

RepositoryCatches(op) ==
    (IF op \in RepositoryWrites \cup {"create_git_repository"} THEN {"missing"} ELSE {})
        \cup (IF op \in {"create_git_repository", "update_git_repository"} THEN {"rejected"} ELSE {})

\* A body that is not of its model is answered before the route is entered.
RouteCatches(op) ==
    {"invalid"} \cup CardCatches(op) \cup ConfigCatches(op) \cup ConnectionCatches(op)
        \cup CredentialCatches(op) \cup InstallCatches(op) \cup RepositoryCatches(op)

\* The tools share one table, and a repository that is gone is in it too.
_TOOL_ERRORS == Reasons

Told(c, reason) ==
    IF reason \in (IF c.surface = "rest" THEN RouteCatches(c.op) ELSE _TOOL_ERRORS) THEN reason
    ELSE "broken"

-----------------------------------------------------------------------------
(* One request at a time, and its retry.                                     *)

Answers == Reasons \cup {"none", "401", "403", "202", "ok", "broken", "lost"}

\* keyed: the new card names its key; id: the JSON-RPC message has an id;
\* hit and entries are what the request wrote, to whose rows, and told.
Call == [at : {"idle", "sent", "allowed", "stored", "answered"}, surface : {"rest", "mcp"},
         op : BOARD_OPERATIONS, who : Credentials, header : Tenants, path : Tenants,
         keyed : BOOLEAN, id : BOOLEAN, hit : SUBSET Tenants,
         entries : SUBSET [kind : BOARD_OPERATIONS, actor : Credentials \cup {"user", "local"}],
         answer : Answers, again : BOOLEAN]

NoCall == [at |-> "idle", surface |-> "rest", op |-> "list", who |-> "nobody", header |-> DEFAULT_TENANT,
           path |-> DEFAULT_TENANT, keyed |-> TRUE, id |-> TRUE, hit |-> {},
           entries |-> {}, answer |-> "none", again |-> FALSE]

Init ==
    /\ deploy \in Deployments
    /\ rows = [t \in Tenants |-> {}]
    /\ call = NoCall
    /\ mishaps = 0

Answer(reason) == call' = [call EXCEPT !.at = "answered", !.answer = reason]

Send(surface, op, who, header) ==
    /\ call.at = "idle"
    /\ \E path \in IF surface = "rest" /\ op \in TenantRoutes THEN Tenants ELSE {header},
          keyed \in IF op = "create" THEN BOOLEAN ELSE {TRUE},
          id \in IF surface = "mcp" THEN BOOLEAN ELSE {TRUE} :
          call' = [NoCall EXCEPT !.at = "sent", !.surface = surface, !.op = op, !.who = who,
                                 !.header = header, !.path = path, !.keyed = keyed, !.id = id]
    /\ UNCHANGED <<deploy, rows, mishaps>>

Leave ==
    /\ call.at = "answered"
    /\ call' = NoCall
    /\ UNCHANGED <<deploy, rows, mishaps>>

\* A client that learned nothing sends the same request once more.
Retry ==
    /\ call.at = "answered" /\ call.answer \in {"broken", "lost"} /\ ~call.again
    /\ call' = [call EXCEPT !.at = "sent", !.answer = "none", !.again = TRUE, !.entries = {},
                            !.hit = {}]
    /\ UNCHANGED <<deploy, rows, mishaps>>

route ==
    /\ call.at = "sent" /\ call.surface = "rest"
    /\ IF TurnedAway(call) # "" THEN Answer(TurnedAway(call))
       ELSE call' = [call EXCEPT !.at = "allowed"]
    /\ UNCHANGED <<deploy, rows, mishaps>>

\* A notification is acknowledged and dropped, whatever it asked for.
mcp_endpoint ==
    /\ call.at = "sent" /\ call.surface = "mcp"
    /\ IF _authenticate(call.who) = {} THEN Answer("401")
       ELSE IF ~call.id THEN Answer("202")
       ELSE IF TurnedAway(call) # "" THEN Answer(TurnedAway(call))
       ELSE call' = [call EXCEPT !.at = "allowed"]
    /\ UNCHANGED <<deploy, rows, mishaps>>

Mine == rows[cards_store_dep(call)]

Read ==
    /\ call.at = "allowed"
    /\ ~Mutates(call.op)
    /\ Answer(IF Needs(call.op) \subseteq Mine THEN "ok" ELSE Told(call, "missing"))
    /\ UNCHANGED <<deploy, rows, mishaps>>

\* Two rows of one key, one host or one path would be told apart by nothing.
Taken(c) == (c.op \in Creates /\ c.keyed) /\ Makes(c.op) \subseteq Mine

\* A credential is refused only after a connection to hang it on was made.
FoundLate == {"unsealed"}

Hang(reason) ==
    /\ rows' = [rows EXCEPT ![cards_store_dep(call)] = @ \cup Makes(call.op)]
    /\ call' = [call EXCEPT !.at = "answered", !.answer = Told(call, reason),
                            !.hit = IF Makes(call.op) \subseteq Mine THEN @ ELSE @ \cup {cards_store_dep(call)}]

Refuse(reason) ==
    /\ call.at = "allowed" /\ Mutates(call.op)
    /\ \/ reason = "missing" /\ ~(Needs(call.op) \subseteq Mine)
       \/ reason = "duplicate" /\ call.op = "create" /\ Taken(call)
       \/ reason = "rejected" /\ call.op \in Creates \ {"create"} /\ Taken(call)
       \/ reason \in Rejections(call.op) /\ (Needs(call.op) \subseteq Mine \/ reason = "invalid")
    /\ IF reason \in FoundLate THEN Hang(reason) ELSE Answer(Told(call, reason)) /\ UNCHANGED rows
    /\ UNCHANGED <<deploy, mishaps>>


\* The work of the operation; some of it may find it has nothing to do.
Commit ==
    /\ call.at = "allowed" /\ Mutates(call.op)
    /\ Needs(call.op) \subseteq Mine /\ ~Taken(call)
    /\ ~(call.op \in {"set_git_credential", "set_git_connection_credential"} /\ ~deploy.sealing)
    /\ ~(call.op = "start_git_install" /\ ~deploy.app)
    /\ rows' = [rows EXCEPT ![cards_store_dep(call)] = (@ \cup Makes(call.op)) \ Drops(call.op)]
    /\ call' = [call EXCEPT !.at = "stored", !.hit = @ \cup {cards_store_dep(call)}]
    /\ UNCHANGED <<deploy, mishaps>>

\* A verification with nothing to call, or nothing to call it with, is no entry.
Verifications == {"verify_git_config", "verify_git_connection"}

_record(c) == c.entries \cup {[kind |-> c.op, actor |-> identity_dep(c.who)]}

\* A card that names a repository of the past is answered after the write was
\* stored and told.
Gone(op) == op \in {"create", "update", "move", "reprioritise"} /\ "repository" \notin Mine

Record ==
    /\ call.at = "stored"
    /\ \E answer \in {"ok"} \cup (IF Gone(call.op) THEN {Told(call, "gone")} ELSE {}),
          entries \in {_record(call)} \cup (IF call.op \in Verifications THEN {{}} ELSE {}) :
          call' = [call EXCEPT !.at = "answered", !.answer = answer, !.entries = entries]
    /\ UNCHANGED <<deploy, rows, mishaps>>

\* The import, the sync and the stages resolve the repository before they start.
Unresolved ==
    /\ call.at = "allowed" /\ call.op \in {"import", "sync_github"} \cup StageTools
    /\ Needs(call.op) \subseteq Mine /\ "repository" \notin Mine
    /\ Answer(Told(call, "gone"))
    /\ UNCHANGED <<deploy, rows, mishaps>>

\* The audit store fails after the write was stored; the process dies; or the
\* answer does not arrive.
Fail ==
    /\ mishaps < MaxMishaps
    /\ mishaps' = mishaps + 1
    /\ \/ call.at = "stored" /\ Answer("broken")
       \/ call.at \in {"allowed", "stored"} /\ Answer("lost")
       \/ call.at = "answered" /\ call.answer = "ok" /\ Answer("lost")
    /\ UNCHANGED <<deploy, rows>>

Next ==
    \/ \E surface \in {"rest", "mcp"}, op \in BOARD_OPERATIONS, who \in Credentials, header \in Tenants :
          Send(surface, op, who, header)
    \/ \E reason \in Reasons : Refuse(reason)
    \/ Leave \/ Retry \/ route \/ mcp_endpoint \/ Read \/ Commit \/ Record \/ Unresolved \/ Fail

Spec == Init /\ [][Next]_vars

-----------------------------------------------------------------------------
(* Properties.                                                               *)

TypeOK ==
    /\ deploy \in Deployments
    /\ rows \in [Tenants -> SUBSET {"card", "connection", "repository"}]
    /\ call \in Call
    /\ mishaps \in 0..MaxMishaps
    /\ \A t \in Tenants : "repository" \in rows[t] => "connection" \in rows[t]

OwnTenant == IF deploy.multi THEN call.header ELSE DEFAULT_TENANT

\* A request writes to the rows of its own tenant alone, whichever surface it
\* came in by, and a path that names another tenant writes nothing at all.
OwnTenantOnly ==
    /\ call.hit \subseteq {OwnTenant}
    /\ call.hit # {} /\ call.surface = "rest" /\ call.op \in TenantRoutes => call.path = OwnTenant

Attributed == IF call.who = "person" /\ deploy.issuer THEN "user"
              ELSE IF deploy.keys /\ call.who \in {"reader", "writeonly", "writer", "person"} THEN call.who
              ELSE "local"

\* A write that was answered without a mishap is in the audit trail once, with
\* the caller that made it; and what wrote nothing is not in it.
EveryWriteIsTold ==
    call.at = "answered" /\ mishaps = 0 =>
        /\ call.entries \subseteq {[kind |-> call.op, actor |-> Attributed]}
        /\ call.entries # {} => call.hit # {}
        /\ call.hit # {} /\ call.op \notin Verifications /\ call.answer # "unsealed" =>
               call.entries # {}

=============================================================================
