----------------------------- MODULE SchemaBoot ----------------------------
(***************************************************************************)
(* How the database gets its schema when the service starts:               *)
(* bootstrap_schema (db.py) decides between running the Alembic revisions  *)
(* and stamping a database that create_all made, and then the stores run   *)
(* create_all and their guards for late columns and indexes.               *)
(*                                                                         *)
(* PostgreSQL runs an upgrade in one transaction. The driver for SQLite    *)
(* commits every CREATE, ALTER and DROP by itself, and the revision number *)
(* after them, so a service that stops half way leaves half a revision.    *)
(***************************************************************************)
EXTENDS Naturals, Sequences, FiniteSets, SequencesExt

CONSTANTS
    Unmanaged,  \* releases whose create_all may have made the database
    Managed,    \* revisions a database under Alembic may have reached
    MaxCrashes  \* bound: how often the service stops

\* No guard gives a database that create_all made its hash chain: one from before
\* the chain (release 3) is not healed.
ASSUME BootAssumption ==
    /\ Unmanaged \subseteq 3 .. 14
    /\ Managed \subseteq 0 .. 14

VARIABLES
    transactional,  \* does the database run DDL in transactions?
    duplicates,     \* do two cards of the board mirror one issue?
    disk,           \* the database: its objects, its version table, its revision
    work,           \* the same, as the transaction that is open sees it
    partial,        \* is a part of an unfinished unit of DDL on disk?
    stage,          \* what the boot is at
    at,             \* how many statements of the list at hand are done
    crashes,        \* how often the service stopped
    torn            \* history: has it stopped half way through a unit?

database == <<transactional, duplicates>>
bootVars == <<database, disk, work, partial, stage, at, crashes, torn>>

-----------------------------------------------------------------------------
(* Statements. An object is a table, or a late column or an index of one;  *)
(* the columns a table is created with are part of it.                     *)

Create(object) == [verb |-> "create", object |-> object]
Table(t) == Create(<<t, "table", t>>)
Column(t, c) == Create(<<t, "column", c>>)
Index(t, i) == Create(<<t, "index", i>>)
DropIndex(t, i) == [verb |-> "drop", object |-> <<t, "index", i>>]

IssueIndex == <<"cards", "index", "ix_tenant_id_issue_ref">>

\* A table, a column or an index that is there cannot be made again; a unique
\* index cannot be made over duplicates.
Applies(statement, schema) ==
    LET o == statement.object IN
    /\ statement.verb = "drop" <=> o \in schema
    /\ o[2] # "table" => <<o[1], "table", o[1]>> \in schema
    /\ ~(o = IssueIndex /\ duplicates)

RunOn(statement, schema) ==
    IF statement.verb = "drop" THEN schema \ {statement.object}
    ELSE schema \cup {statement.object}

-----------------------------------------------------------------------------
(* The revisions, in the order Alembic runs them (stage_runs and           *)
(* issue_import are siblings that tenant_git_config joins).                *)

create_work_items ==
    << Table("work_items"), Index("work_items", "ix_correlation_key") >>

create_audit ==
    << Table("audit_entries"), Index("audit_entries", "ix_correlation_key"),
       Index("audit_entries", "ix_ts") >>

audit_hmac_chain ==
    << Column("audit_entries", "prev_hash"), Column("audit_entries", "entry_hash") >>

work_items_tenant_id ==
    << Column("work_items", "tenant_id"), Index("work_items", "ix_tenant_id") >>

create_cards ==
    << Table("cards"), Index("cards", "ix_tenant_id"), Index("cards", "ix_correlation_key"),
       Index("cards", "ix_tenant_id_card_key") >>

cards_github_sync ==
    << Column("cards", "issue_ref"), Column("cards", "issue_state"),
       Column("cards", "labels"), Column("cards", "github_sync_error"),
       Index("cards", "ix_issue_ref") >>

cards_stage_runs == << Column("cards", "stage_runs") >>

cards_issue_import ==
    << Column("cards", "description"), Column("cards", "deleted_at"),
       Index("cards", "ix_tenant_id_issue_ref"), Table("card_import_state"),
       Index("card_import_state", "ix_tenant_project") >>

create_tenant_git_config ==
    << Table("tenant_git_config"), Index("tenant_git_config", "ix_tenant") >>

create_tenant_git_credential ==
    << Table("tenant_git_credential"), Index("tenant_git_credential", "ix_tenant"),
       Column("tenant_git_config", "credential_rejected") >>

\* _adopt_existing_configurations follows: rows, which roll back with the
\* revision number.
git_connections_and_repositories ==
    << Table("git_connection"), Index("git_connection", "ix_tenant_id"),
       Index("git_connection", "ix_tenant_provider_base"),
       Table("git_repository"), Index("git_repository", "ix_tenant_id"),
       Index("git_repository", "ix_connection_id"),
       Index("git_repository", "ix_connection_project"),
       Index("git_repository", "ix_default"),
       Column("tenant_git_credential", "connection_id"),
       Column("tenant_git_credential", "aad_version"),
       DropIndex("tenant_git_credential", "ix_tenant"),
       Index("tenant_git_credential", "ix_tenant_id"),
       Index("tenant_git_credential", "ix_connection"),
       Column("cards", "repository_id") >>

card_import_poll_lease ==
    << Column("card_import_state", "poll_leased_until"),
       Column("card_import_state", "last_polled_at") >>

card_comments ==
    << Table("card_comments"), Index("card_comments", "ix_tenant_card"),
       Index("card_comments", "ix_tenant_card_comment"),
       Column("cards", "comments_synced_at") >>

git_install_flow ==
    << Table("git_install"), Index("git_install", "ix_tenant_id"),
       Index("git_install", "ix_connection"),
       Table("git_install_state"), Index("git_install_state", "ix_state_hash") >>

Revisions ==
    << create_work_items, create_audit, audit_hmac_chain, work_items_tenant_id,
       create_cards, cards_github_sync, cards_stage_runs, cards_issue_import,
       create_tenant_git_config, create_tenant_git_credential,
       git_connections_and_repositories, card_import_poll_lease, card_comments,
       git_install_flow >>

Latest == Len(Revisions)

Statements(release) == UNION {ToSet(Revisions[r]) : r \in 1 .. release}
Objects(verb, statements) == {s.object : s \in {q \in statements : q.verb = verb}}

\* What the first revisions make, which is what the models of that release
\* declare (test_schema_bootstrap.py:108). No revision makes again what one
\* before it dropped.
SchemaAt(release) ==
    Objects("create", Statements(release)) \ Objects("drop", Statements(release))

Models == SchemaAt(Latest)

ColumnsOf(t) == {o \in Models : o[1] = t[1] /\ o[2] = "column"}
IndexesOf(t) == {o \in Models : o[1] = t[1] /\ o[2] = "index"}

-----------------------------------------------------------------------------
(* The guards for what create_all does not add to a table that is there.   *)

late_config_columns == << Column("tenant_git_config", "credential_rejected") >>

late_credential_columns ==
    << Column("tenant_git_credential", "connection_id"),
       Column("tenant_git_credential", "aad_version") >>

late_import_state_columns ==
    << Column("card_import_state", "poll_leased_until"),
       Column("card_import_state", "last_polled_at") >>

dropped_indexes == << DropIndex("tenant_git_credential", "ix_tenant") >>

\* MUTANT: the guard was not told of the newest column.
late_columns_short ==
    << Column("cards", "issue_ref"), Column("cards", "issue_state"),
       Column("cards", "labels"), Column("cards", "github_sync_error"),
       Column("cards", "stage_runs"), Column("cards", "description"),
       Column("cards", "deleted_at"), Column("cards", "repository_id") >>

late_columns ==
    << Column("cards", "issue_ref"), Column("cards", "issue_state"),
       Column("cards", "labels"), Column("cards", "github_sync_error"),
       Column("cards", "stage_runs"), Column("cards", "description"),
       Column("cards", "deleted_at"), Column("cards", "repository_id"),
       Column("cards", "comments_synced_at") >>

late_indexes ==
    << Index("cards", "ix_issue_ref"), Index("cards", "ix_tenant_id_issue_ref"),
       Index("tenant_git_credential", "ix_connection"),
       Index("tenant_git_credential", "ix_tenant_id") >>

late_statements ==
    late_config_columns \o late_credential_columns \o late_import_state_columns
        \o dropped_indexes \o late_columns \o late_indexes

\* The column and its index, only when the column is missing.
tenant_statements == << Column("work_items", "tenant_id"), Index("work_items", "ix_tenant_id") >>

-----------------------------------------------------------------------------
(* Writing to the database. Without transactions for DDL a statement is on *)
(* disk at once; with them, at the commit.                                 *)

\* A statement of a unit that is not finished.
ToDisk(new) ==
    /\ work' = new
    /\ disk' = IF transactional THEN disk ELSE new
    /\ partial' = ~transactional

\* The last statement of a unit; commits says whether the transaction ends.
FinishWrite(new, commits) ==
    /\ work' = new
    /\ disk' = IF transactional /\ ~commits THEN disk ELSE new
    /\ partial' = FALSE

Goto(step) == stage' = step /\ at' = 0

-----------------------------------------------------------------------------
(* bootstrap_schema.                                                       *)

bootstrap_path ==
    IF disk.versioned \/ disk.schema = {} THEN "upgrade" ELSE "stamp"

Boot ==
    /\ stage = "down"
    /\ Goto(bootstrap_path)
    /\ UNCHANGED <<database, disk, work, partial, crashes, torn>>

\* Alembic makes its version table first.
MakeVersionTable ==
    /\ stage \in {"upgrade", "stamp"}
    /\ ~work.versioned
    /\ IF stage = "stamp" THEN ToDisk([work EXCEPT !.versioned = TRUE])
                       ELSE FinishWrite([work EXCEPT !.versioned = TRUE], FALSE)
    /\ UNCHANGED <<database, stage, at, crashes, torn>>

Pending == Revisions[work.revision + 1]

RunStatement ==
    /\ stage = "upgrade"
    /\ work.versioned
    /\ work.revision < Latest
    /\ at < Len(Pending)
    /\ LET statement == Pending[at + 1] IN
       IF Applies(statement, work.schema)
       THEN /\ ToDisk([work EXCEPT !.schema = RunOn(statement, @)])
            /\ at' = at + 1
            /\ stage' = stage
       ELSE /\ Goto("failed")
            /\ UNCHANGED <<disk, work, partial>>
    /\ UNCHANGED <<database, crashes, torn>>

RecordRevision ==
    /\ stage = "upgrade"
    /\ work.versioned
    /\ work.revision < Latest
    /\ at = Len(Pending)
    /\ FinishWrite([work EXCEPT !.revision = @ + 1], FALSE)
    /\ at' = 0
    /\ UNCHANGED <<database, stage, crashes, torn>>

Upgraded ==
    /\ stage = "upgrade"
    /\ work.versioned
    /\ work.revision = Latest
    /\ FinishWrite(work, TRUE)
    /\ Goto("create")
    /\ UNCHANGED <<database, crashes, torn>>

StampDatabase ==
    /\ stage = "stamp"
    /\ work.versioned
    /\ FinishWrite([work EXCEPT !.revision = Latest], TRUE)
    /\ Goto("create")
    /\ UNCHANGED <<database, crashes, torn>>

-----------------------------------------------------------------------------
(* The stores: create_all makes the tables that are missing, each with its *)
(* indexes; then each store runs its guards.                               *)

\* The tables have no order among themselves but the one they are taken in.
Tables ==
    << "work_items", "audit_entries", "cards", "card_import_state", "tenant_git_config",
       "tenant_git_credential", "git_connection", "git_repository", "card_comments",
       "git_install", "git_install_state" >>
TableAtHand == Table(Tables[at + 1]).object

SkipTable ==
    /\ stage = "create"
    /\ at < Len(Tables)
    /\ TableAtHand \in work.schema
    /\ at' = at + 1
    /\ UNCHANGED <<database, disk, work, partial, stage, crashes, torn>>

CreateTable ==
    /\ stage = "create"
    /\ at < Len(Tables)
    /\ TableAtHand \notin work.schema
    /\ ToDisk([work EXCEPT !.schema = @ \cup {TableAtHand} \cup ColumnsOf(TableAtHand)])
    /\ stage' = "index"
    /\ UNCHANGED <<database, at, crashes, torn>>

CreateIndexes ==
    /\ stage = "index"
    /\ FinishWrite([work EXCEPT !.schema = @ \cup IndexesOf(TableAtHand)], FALSE)
    /\ stage' = "create"
    /\ at' = at + 1
    /\ UNCHANGED <<database, crashes, torn>>

Created ==
    /\ stage = "create"
    /\ at = Len(Tables)
    /\ FinishWrite(work, TRUE)
    /\ Goto("guards")
    /\ UNCHANGED <<database, crashes, torn>>

\* A guard adds or drops only what is missing or there; an index that cannot be
\* made is logged and left out.
Guard ==
    /\ stage = "guards"
    /\ at < Len(late_statements)
    /\ LET statement == late_statements[at + 1] IN
       IF Applies(statement, work.schema)
       THEN FinishWrite([work EXCEPT !.schema = RunOn(statement, @)], TRUE)
       ELSE UNCHANGED <<disk, work, partial>>
    /\ at' = at + 1
    /\ UNCHANGED <<database, stage, crashes, torn>>

Guarded ==
    /\ stage = "guards"
    /\ at = Len(late_statements)
    /\ Goto(IF tenant_statements[1].object \in work.schema THEN "serving" ELSE "tenant")
    /\ UNCHANGED <<database, disk, work, partial, crashes, torn>>

EnsureTenantColumn ==
    /\ stage = "tenant"
    /\ LET new == [work EXCEPT !.schema = RunOn(tenant_statements[at + 1], @)] IN
       IF at = 0 THEN ToDisk(new) /\ at' = 1 /\ stage' = stage
                 ELSE FinishWrite(new, TRUE) /\ Goto("serving")
    /\ UNCHANGED <<database, crashes, torn>>

-----------------------------------------------------------------------------
(* The service stops: killed, evicted, or replaced by the next deployment. *)

StopService ==
    /\ crashes < MaxCrashes
    /\ stage \notin {"down", "failed"}
    /\ crashes' = crashes + 1
    /\ Goto("down")
    /\ work' = disk
    /\ torn' = (torn \/ partial)
    /\ partial' = FALSE
    /\ UNCHANGED <<database, disk>>

-----------------------------------------------------------------------------
Fresh == [schema |-> {}, versioned |-> FALSE, revision |-> 0]
MadeByModels(release) == [Fresh EXCEPT !.schema = SchemaAt(release)]
UnderAlembic(revision) ==
    [schema |-> SchemaAt(revision), versioned |-> TRUE, revision |-> revision]

\* Two cards may mirror one issue on a board that never had the unique index.
BootInit ==
    /\ transactional \in BOOLEAN
    /\ disk \in {Fresh} \cup {MadeByModels(r) : r \in Unmanaged}
                      \cup {UnderAlembic(r) : r \in Managed}
    /\ duplicates \in BOOLEAN
    /\ duplicates => /\ Column("cards", "issue_ref").object \in disk.schema
                     /\ IssueIndex \notin disk.schema
    /\ work = disk
    /\ partial = FALSE
    /\ stage = "down"
    /\ at = 0
    /\ crashes = 0
    /\ torn = FALSE

BootProgress ==
    \/ Boot \/ MakeVersionTable \/ RunStatement \/ RecordRevision \/ Upgraded \/ StampDatabase
    \/ SkipTable \/ CreateTable \/ CreateIndexes \/ Created
    \/ Guard \/ Guarded \/ EnsureTenantColumn

BootNext == BootProgress \/ StopService

BootSpec == BootInit /\ [][BootNext]_bootVars

-----------------------------------------------------------------------------
(* Properties.                                                             *)

\* Every variable keeps its type, and only a transaction hides work from the
\* disk (migrations/env.py:67-80).
BootTypeOK ==
    /\ transactional \in BOOLEAN
    /\ duplicates \in BOOLEAN
    /\ \A db \in {disk, work} :
          /\ db.schema \subseteq Models \cup {s.object : s \in ToSet(dropped_indexes)}
          /\ db.versioned \in BOOLEAN
          /\ db.revision \in 0 .. Latest
    /\ ~transactional => work = disk
    /\ partial \in BOOLEAN
    /\ stage \in {"down", "upgrade", "stamp", "create", "index", "guards", "tenant", "serving",
               "failed"}
    /\ at \in Nat
    /\ crashes \in 0 .. MaxCrashes
    /\ torn \in BOOLEAN

\* A service that serves has the schema its models declare, no more and no
\* less, and no revision is pending: whichever way the database came to be, and
\* wherever an earlier boot stopped. Exceptions: the unique index over issues
\* that a board with duplicates cannot take, and a boot that stopped between
\* two statements that belong together and are not one transaction
\* (db.py:134-190, cards.py:670-725, store.py:404-430).
ServesItsSchema ==
    stage = "serving" /\ ~torn =>
        /\ disk.revision = Latest
        /\ disk.schema = Models \ (IF duplicates THEN {IssueIndex} ELSE {})

=============================================================================
