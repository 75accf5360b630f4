--------------------------- MODULE GitConnections ---------------------------
(* The git configuration of one tenant: connections to hosts, repositories   *)
(* on them, the default repository, and the sealed credentials.  A handler   *)
(* of git_config_ops.py is a list of the transactions its CardStore method   *)
(* opens one after the other (cards.py); each transaction is a step, and     *)
(* other requests, other replicas and a crash come between the steps.        *)
EXTENDS Integers, Sequences, FiniteSets

CONSTANTS
    Workers,        \* threads of the request pool, and booting replicas
    Hosts,          \* (provider, base_url) pairs
    Projects,       \* repository paths
    MaxConn,        \* highest connection id
    MaxRepo,        \* highest repository id
    Legacies,       \* the phase-2 rows the tenant may come with
    EnvHost,        \* what the deployment's environment describes
    EnvProject,
    VerifyAnswers,  \* what a verify may record
    Keyed,          \* does the process hold the credential key?
    MaxConnMishaps  \* how often a request may begin beside another, or crash

NoHost == "no host"
NoProject == "no project"
NoConn == 0
NoRepo == 0

Conns == 1..MaxConn
Repos == 1..MaxRepo

\* verify is verified_at, verify_error and credential_rejected together.
Verdicts == {"never", "ok", "error", "rejected"}
\* A credential is bound to nobody's, to the tenant, or to its connection.
Sealing == {"none", "tenant", "connection"}

\* proved is history: the host the recorded verify was about, or NoHost when
\* a request that was not alone wrote the row.
Connection == [host : Hosts \cup {NoHost}, verify : Verdicts,
               proved : Hosts \cup {NoHost}]
Repository == [conn : Conns \cup {NoConn}, project : Projects \cup {NoProject},
               default : BOOLEAN]
LegacyRow == [host : Hosts \cup {NoHost}, project : Projects \cup {NoProject},
              verify : Verdicts, secret : BOOLEAN]

ASSUME IdBounds == MaxConn \in Nat /\ MaxRepo \in Nat
ASSUME Environment == EnvHost \in Hosts /\ EnvProject \in Projects \cup {NoProject}
ASSUME LegacyRows == Legacies \subseteq LegacyRow
ASSUME Sentinels == NoHost \notin Hosts /\ NoProject \notin Projects
ASSUME Recorded == VerifyAnswers \subseteq Verdicts \ {"never"}
ASSUME Switches == Keyed \in BOOLEAN /\ MaxConnMishaps \in Nat

NoConnection == [host |-> NoHost, verify |-> "never", proved |-> NoHost]
NoRepository == [conn |-> NoConn, project |-> NoProject, default |-> FALSE]

VARIABLES
    conns,       \* git_connection
    repos,       \* git_repository
    secrets,     \* tenant_git_credential; NoConn is the row bound to no connection
    legacy,      \* tenant_git_config
    work,        \* the requests in flight
    serving,     \* has a process finished its boot?
    connMishaps  \* requests that began beside another one, and crashes

connVars == <<conns, repos, secrets, legacy, work, serving, connMishaps>>
tables == <<conns, repos, secrets, legacy>>

Handlers == {"idle", "create_git_connection", "update_git_connection", "delete_git_connection",
             "create_git_repository", "update_git_repository", "delete_git_repository",
             "set_default_git_repository", "set_connection_credential", "set_git_credential",
             "verify_git_connection", "verify_git_config", "set_git_config", "boot"}
Transactions == {"create_connection", "connection_for", "read_connection", "write_connection",
                 "insert_repository", "write_repository", "set_default", "ensure_default",
                 "store_sealed", "purge", "default_repository", "drop_repository",
                 "default_connection", "unreject", "git_target_for", "record", "shim_connection",
                 "unverify", "place_project", "carry_verification", "adopt_project",
                 "attach_credential", "reseal", "seed", "serve"}

\* A request: what it is, the transactions it still has to do, its locals, and
\* whether it has been the only one since it began.
Request == [op : Handlers, todo : Seq(Transactions), conn : Conns \cup {NoConn},
            repo : Repos \cup {NoRepo}, host : Hosts \cup {NoHost},
            seen : Hosts \cup {NoHost}, project : Projects \cup {NoProject},
            make : BOOLEAN, alone : BOOLEAN]

NoRequest == [op |-> "idle", todo |-> <<>>, conn |-> NoConn, repo |-> NoRepo, host |-> NoHost,
         seen |-> NoHost, project |-> NoProject, make |-> FALSE,
         alone |-> TRUE]

-----------------------------------------------------------------------------
(* Reads.                                                                    *)

HasConn(c) == c # NoConn /\ conns[c].host # NoHost
HasRepo(r) == r # NoRepo /\ repos[r].conn # NoConn

connections == {c \in Conns : HasConn(c)}
repositories == {r \in Repos : HasRepo(r)}
On(c) == {r \in repositories : repos[r].conn = c}

Oldest(ids) == CHOOSE i \in ids : \A j \in ids : i <= j
\* SQLite gives a row the highest id plus one, so an id may come back; an
\* insert past MaxConn or MaxRepo is refused.
NextId(ids) == IF ids = {} THEN 1 ELSE 1 + CHOOSE i \in ids : \A j \in ids : j <= i

Defaults == {r \in repositories : repos[r].default}

\* The default repository, if its connection is there.
default_repository ==
    LET named == {r \in Defaults : HasConn(repos[r].conn)}
    IN  IF named = {} THEN NoRepo ELSE Oldest(named)

\* A row, its path, or the tenant default; a named row that is gone raises.
resolve_repository(id, path) ==
    LET matches == {r \in repositories : repos[r].project = path}
        preferred == IF matches \cap Defaults = {} THEN matches ELSE matches \cap Defaults
        chosen == IF preferred = {} THEN NoRepo ELSE Oldest(preferred)
    IN  IF id # NoRepo /\ HasRepo(id) /\ HasConn(repos[id].conn) THEN id
        ELSE IF chosen # NoRepo /\ HasConn(repos[chosen].conn) THEN chosen
        ELSE default_repository

\* The default repository's connection, else the oldest.
default_connection ==
    IF default_repository # NoRepo THEN repos[default_repository].conn
    ELSE IF connections # {} THEN Oldest(connections) ELSE NoConn

Named(host) == {c \in connections : conns[c].host = host}

-----------------------------------------------------------------------------
(* Requests and their steps.                                                 *)

NoOverlap == \A w \in Workers : work[w] = NoRequest

\* The request w begins; if others run, none of them is alone any more.
Begin(w, op, todo, locals) ==
    /\ work[w] = NoRequest
    /\ connMishaps' = connMishaps + IF NoOverlap THEN 0 ELSE 1
    /\ connMishaps' <= MaxConnMishaps
    /\ work' = [v \in Workers |->
                  IF v = w THEN [locals EXCEPT !.op = op, !.todo = todo, !.alone = NoOverlap]
                  ELSE IF work[v] = NoRequest THEN NoRequest ELSE [work[v] EXCEPT !.alone = FALSE]]
    /\ UNCHANGED serving

RequestAt(w, step) == work[w].todo # <<>> /\ Head(work[w].todo) = step

\* The step is over: the locals become t, and more steps may come first.
Then(w, t, more) ==
    LET rest == more \o Tail(t.todo)
    IN  /\ work' = [work EXCEPT ![w] = IF rest = <<>> THEN NoRequest ELSE [t EXCEPT !.todo = rest]]
        /\ UNCHANGED <<serving, connMishaps>>

\* An exception: the transactions already committed stay.
Raises(w) == work' = [work EXCEPT ![w] = NoRequest] /\ UNCHANGED <<tables, serving, connMishaps>>

CrashRequest(w) ==
    /\ work[w] # NoRequest
    /\ connMishaps < MaxConnMishaps
    /\ connMishaps' = connMishaps + 1
    /\ work' = [work EXCEPT ![w] = NoRequest]
    /\ UNCHANGED <<tables, serving>>

-----------------------------------------------------------------------------
(* Transactions that several operations share.                               *)

\* _patch_connection by the request t.
Patched(t, verify, proved) ==
    [conns EXCEPT ![t.conn].verify = verify,
                  ![t.conn].proved = IF t.alone THEN proved ELSE NoHost]

create_connection(w) ==
    /\ RequestAt(w, "create_connection")
    /\ LET t == work[w]
           c == NextId(connections)
       IN  IF Named(t.host) # {} \/ c \notin Conns THEN Raises(w)
           ELSE /\ conns' = [conns EXCEPT ![c] = [NoConnection EXCEPT !.host = t.host]]
                /\ Then(w, [t EXCEPT !.conn = c], <<>>)
                /\ UNCHANGED <<repos, secrets, legacy>>

\* create_connection, and the lookup when the unique index refuses it.
_connection_for(w) ==
    /\ RequestAt(w, "connection_for")
    /\ LET t == work[w]
           c == NextId(connections)
       IN  IF Named(t.host) # {}
           THEN Then(w, [t EXCEPT !.conn = Oldest(Named(t.host))], <<>>) /\ UNCHANGED tables
           ELSE IF c \notin Conns THEN Raises(w)
           ELSE /\ conns' = [conns EXCEPT ![c] = [NoConnection EXCEPT !.host = t.host]]
                /\ Then(w, [t EXCEPT !.conn = c], <<>>)
                /\ UNCHANGED <<repos, secrets, legacy>>

\* update_connection: the row is read, and what was read decides whether the
\* write moves the connection and clears its verification.
read_connection(w) ==
    /\ RequestAt(w, "read_connection")
    /\ LET t == work[w]
       IN  IF ~HasConn(t.conn) THEN Raises(w)
           ELSE /\ Then(w, [t EXCEPT !.seen = conns[t.conn].host,
                                     !.host = IF @ = NoHost THEN conns[t.conn].host ELSE @], <<>>)
                /\ UNCHANGED tables

\* Mutant: the verification survives the move.
write_connection_verified(w) ==
    /\ RequestAt(w, "write_connection")
    /\ IF ~HasConn(work[w].conn) \/ Named(work[w].host) \ {work[w].conn} # {} THEN Raises(w)
       ELSE /\ conns' = [conns EXCEPT ![work[w].conn].host = work[w].host]
            /\ Then(w, [work[w] EXCEPT !.seen = NoHost], <<>>)
            /\ UNCHANGED <<repos, secrets, legacy>>

write_connection(w) ==
    /\ RequestAt(w, "write_connection")
    /\ LET t == work[w]
           row == conns[t.conn]
           moved == t.host # t.seen
       IN  IF ~HasConn(t.conn) THEN Raises(w)
           ELSE IF Named(t.host) \ {t.conn} # {}
           THEN \/ t.op = "update_git_connection" /\ Raises(w)
                \/ t.op # "update_git_connection" /\ Then(w, t, <<"connection_for">>)
                   /\ UNCHANGED tables
           ELSE /\ conns' = [conns EXCEPT ![t.conn] =
                      [host |-> t.host, verify |-> IF moved THEN "never" ELSE row.verify,
                       proved |-> IF moved \/ ~t.alone THEN NoHost ELSE row.proved]]
                /\ Then(w, [t EXCEPT !.seen = NoHost], <<>>)
                /\ UNCHANGED <<repos, secrets, legacy>>

insert_repository(w) ==
    /\ RequestAt(w, "insert_repository")
    /\ LET t == work[w]
           r == NextId(repositories)
           row == [conn |-> t.conn, project |-> t.project, default |-> FALSE]
       IN  IF r \notin Repos \/ \E s \in On(t.conn) : repos[s].project = t.project THEN Raises(w)
           ELSE /\ repos' = [repos EXCEPT ![r] = row]
                /\ Then(w, [t EXCEPT !.repo = r], IF t.make THEN <<"set_default">> ELSE <<>>)
                /\ UNCHANGED <<conns, secrets, legacy>>

write_repository(w) ==
    /\ RequestAt(w, "write_repository")
    /\ LET t == work[w]
       IN  IF \/ ~HasRepo(t.repo)
              \/ \E s \in On(repos[t.repo].conn) \ {t.repo} : repos[s].project = t.project
           THEN Raises(w)
           ELSE /\ repos' = [repos EXCEPT ![t.repo].project = t.project]
                /\ Then(w, t, <<>>)
                /\ UNCHANGED <<conns, secrets, legacy>>

\* The old default goes and the new one comes in one transaction.
set_default(w) ==
    /\ RequestAt(w, "set_default")
    /\ LET r == work[w].repo
       IN  IF ~HasRepo(r) THEN Raises(w)
           ELSE /\ repos' = [s \in Repos |-> [repos[s] EXCEPT !.default = (s = r)]]
                /\ Then(w, work[w], <<>>)
                /\ UNCHANGED <<conns, secrets, legacy>>

\* Mutant: a default is promoted only for a tenant that has one.
_ensure_default_kept(w) ==
    /\ RequestAt(w, "ensure_default")
    /\ IF Defaults = {} THEN Then(w, work[w], <<>>)
       ELSE Then(w, [work[w] EXCEPT !.repo = Oldest(Defaults)], <<"set_default">>)
    /\ UNCHANGED tables

_ensure_default_repository(w) ==
    /\ RequestAt(w, "ensure_default")
    /\ IF repositories = {} \/ Defaults # {} THEN Then(w, work[w], <<>>)
       ELSE Then(w, [work[w] EXCEPT !.repo = Oldest(repositories)], <<"set_default">>)
    /\ UNCHANGED tables

\* Without the key nothing is stored.
_store_sealed(w) ==
    /\ RequestAt(w, "store_sealed")
    /\ IF ~Keyed THEN Raises(w)
       ELSE /\ secrets' = [secrets EXCEPT ![work[w].conn] = "connection"]
            /\ Then(w, work[w], <<>>)
            /\ UNCHANGED <<conns, repos, legacy>>

-----------------------------------------------------------------------------
(* The two-level model: connections and their repositories.                  *)

create_git_connection(w, host) ==
    Begin(w, "create_git_connection", <<"create_connection">>, [NoRequest EXCEPT !.host = host])
    /\ UNCHANGED tables

\* host is NoHost when the body does not send one, a rename.
update_git_connection(w, c, host) ==
    /\ HasConn(c)
    /\ Begin(w, "update_git_connection", <<"read_connection", "write_connection">>,
             [NoRequest EXCEPT !.conn = c, !.host = host])
    /\ UNCHANGED tables

delete_git_connection(w, c) ==
    /\ HasConn(c)
    /\ Begin(w, "delete_git_connection", <<"purge", "ensure_default">>, [NoRequest EXCEPT !.conn = c])
    /\ UNCHANGED tables

\* The connection and everything that hangs off it, in one transaction.
delete_connection(w) ==
    /\ RequestAt(w, "purge")
    /\ LET c == work[w].conn
       IN  /\ conns' = [conns EXCEPT ![c] = NoConnection]
           /\ repos' = [r \in Repos |-> IF repos[r].conn = c THEN NoRepository ELSE repos[r]]
           /\ secrets' = [secrets EXCEPT ![c] = "none"]
    /\ Then(w, work[w], <<>>)
    /\ UNCHANGED legacy

create_git_repository(w, c, project, make) ==
    /\ HasConn(c)
    /\ Begin(w, "create_git_repository", <<"default_repository", "insert_repository">>,
             [NoRequest EXCEPT !.conn = c, !.project = project, !.make = make])
    /\ UNCHANGED tables

\* The first repository of a tenant becomes its default in any case.
create_repository(w) ==
    /\ RequestAt(w, "default_repository")
    /\ Then(w, [work[w] EXCEPT !.make = @ \/ default_repository = NoRepo], <<>>)
    /\ UNCHANGED tables

update_git_repository(w, r, project) ==
    /\ HasRepo(r)
    /\ HasConn(repos[r].conn)
    /\ Begin(w, "update_git_repository", <<"write_repository">>,
             [NoRequest EXCEPT !.repo = r, !.project = project])
    /\ UNCHANGED tables

delete_git_repository(w, r) ==
    /\ HasRepo(r)
    /\ Begin(w, "delete_git_repository", <<"drop_repository", "ensure_default">>,
             [NoRequest EXCEPT !.repo = r])
    /\ UNCHANGED tables

delete_repository(w) ==
    /\ RequestAt(w, "drop_repository")
    /\ repos' = [repos EXCEPT ![work[w].repo] = NoRepository]
    /\ Then(w, work[w], <<>>)
    /\ UNCHANGED <<conns, secrets, legacy>>

set_default_git_repository(w, r) ==
    /\ HasRepo(r)
    /\ Begin(w, "set_default_git_repository", <<"set_default">>, [NoRequest EXCEPT !.repo = r])
    /\ UNCHANGED tables

\* The steps of set_git_config, below.
Shim == <<"shim_connection", "unverify", "place_project">>

-----------------------------------------------------------------------------
(* Credentials and verification.                                             *)

set_connection_credential(w, c) ==
    /\ HasConn(c)
    /\ Begin(w, "set_connection_credential", <<"store_sealed", "unreject">>,
             [NoRequest EXCEPT !.conn = c])
    /\ UNCHANGED tables

\* Storing for the tenant makes a connection if there is none.
set_git_credential(w) ==
    /\ Begin(w, "set_git_credential", <<"default_connection", "store_sealed", "unreject">>,
             [NoRequest EXCEPT !.host = EnvHost])
    /\ UNCHANGED tables

_default_connection(w) ==
    /\ RequestAt(w, "default_connection")
    /\ IF default_connection # NoConn
       THEN Then(w, [work[w] EXCEPT !.conn = default_connection], <<>>)
       ELSE Then(w, work[w], <<"connection_for">>)
    /\ UNCHANGED tables

\* A rejection was about the credential that this one replaces.
unreject(w) ==
    /\ RequestAt(w, "unreject")
    /\ LET c == work[w].conn
           verify == IF conns[c].verify = "rejected" THEN "error" ELSE conns[c].verify
       IN  IF ~HasConn(c) THEN Raises(w)
           ELSE /\ conns' = Patched(work[w], verify, conns[c].proved)
                /\ Then(w, work[w], <<>>)
                /\ UNCHANGED <<repos, secrets, legacy>>

clear_connection_credential(c) ==
    /\ HasConn(c)
    /\ secrets[c] # "none"
    /\ connMishaps' = connMishaps + IF NoOverlap THEN 0 ELSE 1
    /\ connMishaps' <= MaxConnMishaps
    /\ secrets' = [secrets EXCEPT ![c] = "none"]
    /\ work' = [w \in Workers |-> IF work[w] = NoRequest THEN NoRequest ELSE [work[w] EXCEPT !.alone = FALSE]]
    /\ UNCHANGED <<conns, repos, legacy, serving>>

clear_git_credential ==
    default_connection # NoConn /\ clear_connection_credential(default_connection)

\* One read of the connection's default repository, else of its oldest.
verify_git_connection(w, c) ==
    /\ HasConn(c)
    /\ On(c) # {}
    /\ Begin(w, "verify_git_connection", <<"git_target_for", "record">>,
             [NoRequest EXCEPT !.repo = Oldest(IF On(c) \cap Defaults = {} THEN On(c)
                                          ELSE On(c) \cap Defaults)])
    /\ UNCHANGED tables

verify_git_config(w) ==
    Begin(w, "verify_git_config", <<"git_target_for", "record">>, NoRequest)
    /\ UNCHANGED tables

\* The target is a copy: the host and the credential handle as they are now.
\* No repository at all means the environment's target, and no usable
\* credential, neither stored nor in the environment, ends it here.
git_target_for(w) ==
    /\ RequestAt(w, "git_target_for")
    /\ LET t == work[w]
           r == resolve_repository(t.repo, NoProject)
           c == repos[r].conn
       IN  IF t.repo # NoRepo /\ ~HasRepo(t.repo) THEN Raises(w)
           ELSE IF r = NoRepo
           THEN \/ /\ EnvProject # NoProject
                   /\ Then(w, [t EXCEPT !.repo = NoRepo, !.conn = NoConn, !.host = EnvHost], <<>>)
                   /\ UNCHANGED tables
                \/ Raises(w)
           ELSE \/ /\ secrets[c] = "none" \/ Keyed
                   /\ Then(w, [t EXCEPT !.repo = NoRepo, !.conn = c, !.host = conns[c].host], <<>>)
                   /\ UNCHANGED tables
                \/ (secrets[c] = "none" \/ ~Keyed) /\ Raises(w)

\* After the provider call, which comes to one of Answers.  The outcome goes to
\* the connection of the target.  That of the environment's
\* target goes to the default connection, made as the seed would have if there
\* is none; it is about no connection's host, and proved stays empty.
_record_verification(w) ==
    /\ RequestAt(w, "record")
    /\ LET t == work[w]
       IN  IF t.conn = NoConn
           THEN /\ Then(w, [t EXCEPT !.project = EnvProject],
                        IF connections = {}
                        THEN Shim \o <<"default_connection", "record">>
                        ELSE <<"default_connection", "record">>)
                /\ UNCHANGED tables
           ELSE IF ~HasConn(t.conn) THEN Raises(w)
           ELSE /\ \E outcome \in VerifyAnswers :
                       conns' = Patched(t, outcome, IF t.project = NoProject THEN t.host ELSE NoHost)
                /\ Then(w, t, <<>>)
                /\ UNCHANGED <<repos, secrets, legacy>>

-----------------------------------------------------------------------------
(* The single configuration of phase 2, as a shim over the two levels.       *)

set_git_config(w, host, project) ==
    Begin(w, "set_git_config", Shim, [NoRequest EXCEPT !.host = host, !.project = project])
    /\ UNCHANGED tables

\* The connection with this host; else the default one, or the only one, is
\* moved to it; else one is created.
_shim_connection(w) ==
    /\ RequestAt(w, "shim_connection")
    /\ LET t == work[w]
           editable == IF default_repository # NoRepo THEN repos[default_repository].conn
                       ELSE IF Cardinality(connections) = 1 THEN Oldest(connections) ELSE NoConn
       IN  IF Named(t.host) # {} THEN Then(w, [t EXCEPT !.conn = Oldest(Named(t.host))], <<>>)
           ELSE IF editable # NoConn
           THEN Then(w, [t EXCEPT !.conn = editable], <<"read_connection", "write_connection">>)
           ELSE Then(w, t, <<"connection_for">>)
    /\ UNCHANGED tables

\* Any write of the configuration invalidates the verification.
unverify(w) ==
    /\ RequestAt(w, "unverify")
    /\ IF ~HasConn(work[w].conn) THEN Raises(w)
       ELSE /\ conns' = Patched(work[w], "never", NoHost)
            /\ Then(w, work[w], <<>>)
            /\ UNCHANGED <<repos, secrets, legacy>>

\* A cleared project clears the default and deletes nothing.
place_project(w) ==
    /\ RequestAt(w, "place_project")
    /\ LET t == work[w]
           same == {r \in On(t.conn) : repos[r].project = t.project}
       IN  IF t.project = NoProject
           THEN /\ repos' = [r \in Repos |-> [repos[r] EXCEPT !.default = FALSE]]
                /\ Then(w, t, <<>>)
                /\ UNCHANGED <<conns, secrets, legacy>>
           ELSE IF same # {}
           THEN /\ Then(w, [t EXCEPT !.repo = Oldest(same)], <<"write_repository", "set_default">>)
                /\ UNCHANGED tables
           ELSE IF ~HasConn(t.conn) THEN Raises(w)
           ELSE /\ Then(w, [t EXCEPT !.make = TRUE], <<"insert_repository">>)
                /\ UNCHANGED tables

-----------------------------------------------------------------------------
(* Boot: the phase-2 row is adopted, or the environment is the seed.         *)

Adoption == <<"create_connection", "carry_verification", "adopt_project",
              "attach_credential", "reseal">>

\* A tenant that has a connection is left alone.
adopt_legacy_git_config(w) ==
    /\ IF legacy.host # NoHost /\ connections = {}
       THEN Begin(w, "boot", Adoption \o <<"seed", "serve">>,
                  [NoRequest EXCEPT !.host = legacy.host, !.project = legacy.project])
       ELSE Begin(w, "boot", <<"seed", "serve">>, NoRequest)
    /\ UNCHANGED tables

carry_verification(w) ==
    /\ RequestAt(w, "carry_verification")
    /\ IF ~HasConn(work[w].conn) THEN Raises(w)
       ELSE /\ conns' = Patched(work[w], legacy.verify, legacy.host)
            /\ Then(w, work[w], <<>>)
            /\ UNCHANGED <<repos, secrets, legacy>>

_adopt_one(w) ==
    /\ RequestAt(w, "adopt_project")
    /\ LET t == work[w]
       IN  IF t.project = NoProject THEN Then(w, t, <<>>) /\ UNCHANGED tables
           ELSE IF ~HasConn(t.conn) THEN Raises(w)
           ELSE Then(w, [t EXCEPT !.make = TRUE], <<"insert_repository">>) /\ UNCHANGED tables

\* The credential moves to the connection still bound to the tenant.
_adopt_credential(w) ==
    /\ RequestAt(w, "attach_credential")
    /\ LET t == work[w]
       IN  IF secrets[NoConn] = "none" THEN Then(w, t, <<>>) /\ UNCHANGED tables
           ELSE IF secrets[t.conn] # "none" THEN Raises(w)
           ELSE /\ secrets' = [secrets EXCEPT ![NoConn] = "none", ![t.conn] = "tenant"]
                /\ Then(w, t, <<>>)
                /\ UNCHANGED <<conns, repos, legacy>>

\* Without the key the record stays as it is.
reseal(w) ==
    /\ RequestAt(w, "reseal")
    /\ LET c == work[w].conn
       IN  secrets' = [secrets EXCEPT ![c] = IF @ = "tenant" /\ Keyed THEN "connection" ELSE @]
    /\ Then(w, work[w], <<>>)
    /\ UNCHANGED <<conns, repos, legacy>>

seed_git_config_from_env(w) ==
    /\ RequestAt(w, "seed")
    /\ IF connections # {} \/ EnvProject = NoProject THEN Then(w, work[w], <<>>)
       ELSE Then(w, [work[w] EXCEPT !.host = EnvHost, !.project = EnvProject], Shim)
    /\ UNCHANGED tables

\* The lifespan yields: requests come in from here on.
serve(w) ==
    /\ RequestAt(w, "serve")
    /\ work' = [work EXCEPT ![w] = NoRequest]
    /\ serving' = TRUE
    /\ UNCHANGED <<tables, connMishaps>>

-----------------------------------------------------------------------------
(* Specification.                                                            *)

ConnInit ==
    /\ conns = [c \in Conns |-> NoConnection]
    /\ repos = [r \in Repos |-> NoRepository]
    /\ legacy \in Legacies
    /\ secrets = [c \in Conns \cup {NoConn} |->
                     IF c = NoConn /\ legacy.secret THEN "tenant" ELSE "none"]
    /\ work = [w \in Workers |-> NoRequest]
    /\ serving = FALSE
    /\ connMishaps = 0

RequestStep(w) ==
    \/ create_connection(w) \/ _connection_for(w) \/ read_connection(w) \/ write_connection(w)
    \/ insert_repository(w) \/ write_repository(w) \/ set_default(w)
    \/ _ensure_default_repository(w) \/ _store_sealed(w) \/ delete_connection(w)
    \/ create_repository(w) \/ delete_repository(w) \/ _default_connection(w) \/ unreject(w)
    \/ git_target_for(w) \/ _record_verification(w)
    \/ _shim_connection(w) \/ unverify(w) \/ place_project(w)
    \/ carry_verification(w) \/ _adopt_one(w) \/ _adopt_credential(w) \/ reseal(w)
    \/ seed_git_config_from_env(w) \/ serve(w)

Asked(w) ==
    /\ serving
    /\ work[w] = NoRequest
    /\ \/ \E h \in Hosts : create_git_connection(w, h)
       \/ \E c \in Conns : \/ \E h \in Hosts \cup {NoHost} : update_git_connection(w, c, h)
                          \/ \E p \in Projects, make \in BOOLEAN : create_git_repository(w, c, p, make)
                          \/ delete_git_connection(w, c)
                          \/ set_connection_credential(w, c)
                          \/ verify_git_connection(w, c)
       \/ \E r \in Repos : \/ \E p \in Projects : update_git_repository(w, r, p)
                          \/ delete_git_repository(w, r)
                          \/ set_default_git_repository(w, r)
       \/ \E h \in Hosts, p \in Projects \cup {NoProject} : set_git_config(w, h, p)
       \/ set_git_credential(w)
       \/ verify_git_config(w)

ConnNext ==
    \/ \E w \in Workers : adopt_legacy_git_config(w) \/ Asked(w) \/ RequestStep(w) \/ CrashRequest(w)
    \/ serving /\ (clear_git_credential \/ \E c \in Conns : clear_connection_credential(c))

ConnSpec == ConnInit /\ [][ConnNext]_connVars

-----------------------------------------------------------------------------
(* Properties.                                                               *)

\* Types; at most one default, one connection per host and one repository per
\* path (the unique indexes), and nothing in a row that is not there.
ConnTypeOK ==
    /\ conns \in [Conns -> Connection]
    /\ repos \in [Repos -> Repository]
    /\ secrets \in [Conns \cup {NoConn} -> Sealing]
    /\ legacy \in Legacies
    /\ work \in [Workers -> Request]
    /\ serving \in BOOLEAN
    /\ connMishaps \in 0..MaxConnMishaps
    /\ Cardinality({r \in Repos : repos[r].default}) <= 1
    /\ \A c \in Conns : HasConn(c) => Named(conns[c].host) = {c}
    /\ \A r \in Repos : ~HasRepo(r) => repos[r] = NoRepository

\* The last step of a request that ran alone and was not refused.
Finishes(w, ops) ==
    /\ Len(work[w].todo) = 1
    /\ work[w].op \in ops
    /\ work[w].alone
    /\ work'[w].todo = <<>>
    /\ connMishaps' = connMishaps
    /\ RequestAt(w, "insert_repository") => repos' # repos

Tidying == {"create_git_repository", "delete_git_repository", "delete_git_connection"}

\* "A tenant that still has repositories always has a default": each of these
\* requests, when it runs alone, leaves one, whatever an earlier crash or race
\* left behind.
LeavesDefault ==
    [][\A w \in Workers : Finishes(w, Tidying) => repositories' = {} \/ Defaults' # {}]_connVars

\* A recorded verify is about the host the connection names now, unless
\* requests overlapped on the row.
ProofIsCurrent ==
    \A c \in connections :
        conns[c].verify # "never" => conns[c].proved \in {conns[c].host, NoHost}

=============================================================================
