----------------------------- MODULE GitInstalls -----------------------------
(* The install flow of one connection and the tokens minted from it           *)
(* (git_install.py, the install methods of cards.py, git_config_ops.py).      *)
(* GitLab rotates the refresh token on every use; the new one is stored in a  *)
(* later transaction, beside other calls, a reconnect, a disconnect, a pasted *)
(* credential, a key rotation and restarts.                                   *)
EXTENDS Integers, FiniteSets

CONSTANTS
    Threads,
    Providers,    \* which of "github" and "gitlab" the connection may be on
    MaxGrant,     \* consents given at the host
    MaxLinks,     \* install links
    MaxKey,       \* credential keys that are rotated through
    MaxFaults     \* restarts, key rotations, lost answers and refusals of the host

ASSUME Bounds == MaxGrant \in Nat /\ MaxLinks \in Nat /\ MaxKey \in Nat \ {0} /\ MaxFaults \in Nat
ASSUME Pool == IsFiniteSet(Threads)
ASSUME Installable == Providers \subseteq {"github", "gitlab"}

NoGrant == 0
Grants == 1..MaxGrant
\* In the order they are issued.
Links == 1..MaxLinks
\* One refresh token more than can be held at once.
Serials == 1..(Cardinality(Threads) + 2)

\* A GitLab refresh token, or a token somebody pasted.
Refresh(g, s) == [kind |-> "refresh", grant |-> g, serial |-> s]
Pasted == [kind |-> "pasted", grant |-> NoGrant, serial |-> 1]
NoSecret == [kind |-> "none", grant |-> NoGrant, serial |-> 1]
Secrets == [kind : {"refresh"}, grant : Grants, serial : Serials] \cup {Pasted, NoSecret}

VARIABLES
    provider,
    row,       \* the connection's rows: itself, its install, its sealed secret
    links,     \* git_install_state
    key,       \* the active key
    cache,     \* _TOKEN_CACHE: the grant of the token, if it is fresh
    thread,
    host,      \* the host: valid refresh tokens, grants given and revoked
    claims,    \* how often a link was accepted; history
    faults

installVars == <<provider, row, links, key, cache, thread, host, claims, faults>>

Row == [there : BOOLEAN, install : {"none", "installed", "credential_missing"},
        grant : Grants \cup {NoGrant}, secret : Secrets, key : 1..MaxKey]
Labels == {"idle", "read", "call", "mint", "check", "seal", "patch", "cache", "recover", "fail",
           "degrade", "exchange", "forget", "record", "drop", "clear", "purge"}
\* grant is the installation a thread works with or the grant of its token, then
\* is where it goes on after it stored its secret, and alone tells that no other
\* thread ran since it began.
Thread == [at : Labels, then : {"idle", "call", "cache", "forget"}, secret : Secrets,
           grant : Grants \cup {NoGrant}, alone : BOOLEAN]

IdleThread == [at |-> "idle", then |-> "idle", secret |-> NoSecret, grant |-> NoGrant, alone |-> FALSE]
Blank == [there |-> FALSE, install |-> "none", grant |-> NoGrant, secret |-> NoSecret, key |-> 1]

-----------------------------------------------------------------------------
Quiet == \A t \in Threads : thread[t] = IdleThread

Begin(t, start) ==
    /\ thread[t] = IdleThread
    /\ thread' = [u \in Threads |-> IF u = t THEN [start EXCEPT !.alone = @ /\ Quiet]
                                    ELSE [thread[u] EXCEPT !.alone = FALSE]]

Go(t, next) == thread' = [thread EXCEPT ![t] = IF next.at = "idle" THEN IdleThread ELSE next]
GoTo(t, label) == Go(t, [thread[t] EXCEPT !.at = label])

Fault == faults < MaxFaults /\ faults' = faults + 1

-----------------------------------------------------------------------------
(* One token for one provider call.                                          *)

\* An install is what a call is made with, whatever credential lies beside it.
connection_credential == row.there /\ row.install # "none"

_fresh == cache # NoGrant

_mint == IF provider = "gitlab" THEN "read" ELSE "mint"

\* A fresh cached token is handed out and changes nothing.
token(t) ==
    /\ connection_credential
    /\ ~_fresh
    /\ Begin(t, [IdleThread EXCEPT !.at = _mint, !.grant = row.grant])
    /\ UNCHANGED <<provider, row, links, key, cache, host, claims, faults>>

Fail(t) == Go(t, [IdleThread EXCEPT !.at = "fail"])

\* The key of its record is not the active one.
rewrap == row.key # key

\* _fetch_credential: such a record is written back re-wrapped, in a transaction
\* of its own.
read_secret(t) ==
    /\ thread[t].at = "read"
    /\ IF row.secret = NoSecret THEN Fail(t)
       ELSE Go(t, [thread[t] EXCEPT !.secret = row.secret, !.then = "call",
                                    !.at = IF rewrap THEN "seal" ELSE "call"])
    /\ UNCHANGED <<provider, row, links, key, cache, host, claims, faults>>

Valid(s) == s.kind = "refresh" /\ host.current[s.grant] = s.serial /\ s.grant \notin host.revoked

\* A refresh token of g that nobody holds.
NewSerial(g) ==
    LET held == {s \in {row.secret} \cup {thread[t].secret : t \in Threads} : s.grant = g}
        unused == Serials \ ({s.serial : s \in held} \cup {host.current[g]})
    IN  CHOOSE n \in unused : \A k \in unused : n <= k

\* Mutant: the new refresh token is not written back.
refresh_tokens_unwritten(t) ==
    /\ thread[t].at = "call"
    /\ LET s == thread[t].secret
       IN  IF Valid(s)
           THEN /\ host' = [host EXCEPT !.current[s.grant] = NewSerial(s.grant)]
                /\ Go(t, [thread[t] EXCEPT !.at = "cache", !.grant = s.grant])
           ELSE Fail(t) /\ UNCHANGED host
    /\ UNCHANGED <<provider, row, links, key, cache, claims, faults>>

\* The host spends the token it is given and answers with the next one.  It may
\* do so and the answer be lost, or not answer at all.
refresh_tokens(t) ==
    /\ thread[t].at = "call"
    /\ LET s == thread[t].secret
           next == Refresh(s.grant, NewSerial(s.grant))
           rotated == [host EXCEPT !.current[s.grant] = next.serial]
       IN  \/ /\ Valid(s)
              /\ host' = rotated
              /\ Go(t, [thread[t] EXCEPT !.at = "check", !.then = "cache", !.secret = next,
                                         !.grant = s.grant])
              /\ UNCHANGED faults
           \/ Valid(s) /\ Fault /\ host' \in {rotated, host} /\ Fail(t)
           \/ ~Valid(s) /\ Fail(t) /\ UNCHANGED <<host, faults>>
    /\ UNCHANGED <<provider, row, links, key, cache, claims>>

mint_installation_token(t) ==
    /\ thread[t].at = "mint"
    /\ \/ thread[t].grant \notin host.revoked /\ GoTo(t, "cache") /\ UNCHANGED faults
       \/ thread[t].grant \in host.revoked /\ Fail(t) /\ UNCHANGED faults
       \/ Fault /\ Fail(t)
    /\ UNCHANGED <<provider, row, links, key, cache, host, claims>>

keep_token(t) ==
    /\ thread[t].at = "cache"
    /\ cache' = thread[t].grant
    /\ Go(t, [IdleThread EXCEPT !.at = "recover"])
    /\ UNCHANGED <<provider, row, links, key, host, claims, faults>>

\* Mutant: a degraded install stays degraded.
recover_never(t) ==
    /\ thread[t].at = "recover"
    /\ GoTo(t, "idle")
    /\ UNCHANGED <<provider, row, links, key, cache, host, claims, faults>>

recover_install(t) ==
    /\ thread[t].at = "recover"
    /\ row' = [row EXCEPT !.install = IF @ = "none" THEN @ ELSE "installed"]
    /\ GoTo(t, "idle")
    /\ UNCHANGED <<provider, links, key, cache, host, claims, faults>>

mint_failed(t) ==
    /\ thread[t].at = "fail"
    /\ cache' = NoGrant
    /\ GoTo(t, "degrade")
    /\ UNCHANGED <<provider, row, links, key, host, claims, faults>>

degrade_install(t) ==
    /\ thread[t].at = "degrade"
    /\ row' = [row EXCEPT !.install = IF @ = "none" THEN @ ELSE "credential_missing"]
    /\ GoTo(t, "idle")
    /\ UNCHANGED <<provider, links, key, cache, host, claims, faults>>

-----------------------------------------------------------------------------
(* Storing the secret.                                                       *)

\* A connection that is gone raises: that fails a mint, and ends anything else.
OnConnection(t, label) ==
    IF row.there THEN GoTo(t, label)
    ELSE IF thread[t].then = "cache" THEN Fail(t) ELSE GoTo(t, "idle")

set_connection_credential(t) ==
    /\ thread[t].at = "check"
    /\ OnConnection(t, "seal")
    /\ UNCHANGED <<provider, row, links, key, cache, host, claims, faults>>

\* Clears credential_rejected, once the secret is stored.
_patch_connection(t) ==
    /\ thread[t].at = "patch"
    /\ OnConnection(t, thread[t].then)
    /\ UNCHANGED <<provider, row, links, key, cache, host, claims, faults>>

seal(secret) == [row EXCEPT !.secret = secret, !.key = key]

_store_sealed(t) ==
    /\ thread[t].at = "seal"
    /\ row' = seal(thread[t].secret)
    /\ GoTo(t, IF thread[t].then = "call" THEN "call" ELSE "patch")
    /\ UNCHANGED <<provider, links, key, cache, host, claims, faults>>

Paste(t) ==
    /\ row.there
    /\ Begin(t, [IdleThread EXCEPT !.at = "check", !.secret = Pasted])
    /\ UNCHANGED <<provider, row, links, key, cache, host, claims, faults>>

-----------------------------------------------------------------------------
(* Connecting.                                                               *)

start_install(l) ==
    /\ row.there
    /\ links[l] = "unused"
    /\ \A k \in 1..(l - 1) : links[k] # "unused"
    /\ links' = [links EXCEPT ![l] = "pending"]
    /\ UNCHANGED <<provider, row, key, cache, thread, host, claims, faults>>

\* Mutant: the link is left to its expiry.
consume_install_state_kept(t, l) ==
    /\ links[l] = "pending"
    /\ claims' = [claims EXCEPT ![l] = IF @ = 2 THEN 2 ELSE @ + 1]
    /\ Begin(t, [IdleThread EXCEPT !.at = "exchange", !.alone = TRUE])
    /\ UNCHANGED <<provider, row, links, key, cache, host, faults>>

\* The redirect comes back, perhaps twice.  The link is gone after the first
\* time, and one that expired is worth nothing.
consume_install_state(t, l) ==
    /\ links[l] \in {"pending", "expired"}
    /\ links' = [links EXCEPT ![l] = "spent"]
    /\ IF links[l] = "pending"
       THEN /\ claims' = [claims EXCEPT ![l] = IF @ = 2 THEN 2 ELSE @ + 1]
            /\ Begin(t, [IdleThread EXCEPT !.at = "exchange", !.alone = TRUE])
       ELSE thread[t] = IdleThread /\ UNCHANGED <<claims, thread>>
    /\ UNCHANGED <<provider, row, key, cache, host, faults>>

\* GitLab exchanges the code of a new consent; only its refresh token is kept.
exchange_code(t, g) ==
    Go(t, [thread[t] EXCEPT !.at = "check", !.then = "forget",
                            !.secret = Refresh(g, host.current[g])])

\* GitHub knows the installation.
verify_installation(t, g) == Go(t, [thread[t] EXCEPT !.at = "forget", !.grant = g])

\* What the redirect claims is confirmed by the host first.
complete_git_install(t) ==
    /\ thread[t].at = "exchange"
    /\ \/ ~row.there /\ GoTo(t, "idle") /\ UNCHANGED <<host, faults>>
       \/ Fault /\ GoTo(t, "idle") /\ UNCHANGED host
       \/ /\ row.there
          /\ host.given < MaxGrant
          /\ LET g == host.given + 1
             IN  /\ host' = [host EXCEPT !.given = g]
                 /\ IF provider = "gitlab" THEN exchange_code(t, g) ELSE verify_installation(t, g)
          /\ UNCHANGED faults
       \/ host.given = MaxGrant /\ GoTo(t, "idle") /\ UNCHANGED <<host, faults>>
    /\ UNCHANGED <<provider, row, links, key, cache, claims>>

record_install(t) ==
    /\ thread[t].at = "forget"
    /\ cache' = IF row.there THEN NoGrant ELSE cache
    /\ GoTo(t, IF row.there THEN "record" ELSE "idle")
    /\ UNCHANGED <<provider, row, links, key, host, claims, faults>>

WriteInstall(t) ==
    /\ thread[t].at = "record"
    /\ row' = [row EXCEPT !.install = "installed", !.grant = thread[t].grant]
    /\ GoTo(t, "idle")
    /\ UNCHANGED <<provider, links, key, cache, host, claims, faults>>

-----------------------------------------------------------------------------
(* Disconnecting.                                                            *)

delete_install(t) ==
    /\ row.there
    /\ Begin(t, [IdleThread EXCEPT !.at = "drop", !.alone = TRUE])
    /\ cache' = NoGrant
    /\ UNCHANGED <<provider, row, links, key, host, claims, faults>>

DropInstall(t) ==
    /\ thread[t].at = "drop"
    /\ row' = [row EXCEPT !.install = "none", !.grant = NoGrant]
    /\ GoTo(t, IF row.install = "none" THEN "idle" ELSE "clear")
    /\ UNCHANGED <<provider, links, key, cache, host, claims, faults>>

\* Mutant: the refresh token stays.
ClearNothing(t) ==
    /\ thread[t].at = "clear"
    /\ GoTo(t, "idle")
    /\ UNCHANGED <<provider, row, links, key, cache, host, claims, faults>>

\* The secret goes whatever it is, a pasted one too.
ClearSecret(t) ==
    /\ thread[t].at = "clear"
    /\ row' = [row EXCEPT !.secret = IF row.there THEN NoSecret ELSE @]
    /\ GoTo(t, "idle")
    /\ UNCHANGED <<provider, links, key, cache, host, claims, faults>>

delete_connection(t) ==
    /\ row.there
    /\ Begin(t, [IdleThread EXCEPT !.at = "purge", !.alone = TRUE])
    /\ cache' = NoGrant
    /\ UNCHANGED <<provider, row, links, key, host, claims, faults>>

Purge(t) ==
    /\ thread[t].at = "purge"
    /\ row' = Blank
    /\ links' = [l \in Links |-> IF links[l] = "unused" THEN "unused" ELSE "spent"]
    /\ GoTo(t, "idle")
    /\ UNCHANGED <<provider, key, cache, host, claims, faults>>

\* The id of a deleted connection is given out again.
create_connection ==
    /\ ~row.there
    /\ row' = [row EXCEPT !.there = TRUE]
    /\ UNCHANGED <<provider, links, key, cache, thread, host, claims, faults>>

-----------------------------------------------------------------------------
(* Around it.                                                                *)

\* _fresh: a token near its end is as good as none.
Expire ==
    /\ cache # NoGrant
    /\ cache' = NoGrant
    /\ UNCHANGED <<provider, row, links, key, thread, host, claims, faults>>

ExpireLink(l) ==
    /\ links[l] = "pending"
    /\ links' = [links EXCEPT ![l] = "expired"]
    /\ UNCHANGED <<provider, row, key, cache, thread, host, claims, faults>>

Revoke(g) ==
    /\ g <= host.given
    /\ g \notin host.revoked
    /\ host' = [host EXCEPT !.revoked = @ \cup {g}]
    /\ UNCHANGED <<provider, row, links, key, cache, thread, claims, faults>>

\* The new key is put first in the environment and the process restarted.
RotateKey ==
    /\ Fault
    /\ Quiet
    /\ key < MaxKey
    /\ key' = key + 1
    /\ cache' = NoGrant
    /\ UNCHANGED <<provider, row, links, thread, host, claims>>

Restart ==
    /\ Fault
    /\ cache' = NoGrant
    /\ thread' = [t \in Threads |-> IdleThread]
    /\ UNCHANGED <<provider, row, links, key, host, claims>>

-----------------------------------------------------------------------------
InstallInit ==
    /\ provider \in Providers
    /\ row = [Blank EXCEPT !.there = TRUE]
    /\ links = [l \in Links |-> "unused"]
    /\ key = 1
    /\ cache = NoGrant
    /\ thread = [t \in Threads |-> IdleThread]
    /\ host = [current |-> [g \in Grants |-> 1], given |-> 0, revoked |-> {}]
    /\ claims = [l \in Links |-> 0]
    /\ faults = 0

Step(t) ==
    \/ read_secret(t) \/ refresh_tokens(t) \/ mint_installation_token(t) \/ keep_token(t)
    \/ recover_install(t) \/ mint_failed(t) \/ degrade_install(t)
    \/ set_connection_credential(t) \/ _store_sealed(t) \/ _patch_connection(t)
    \/ complete_git_install(t) \/ record_install(t) \/ WriteInstall(t)
    \/ DropInstall(t) \/ ClearSecret(t) \/ Purge(t)

Operator(t) ==
    \/ Paste(t) \/ delete_install(t) \/ delete_connection(t)
    \/ \E l \in Links : consume_install_state(t, l)

InstallNext ==
    \/ \E t \in Threads : token(t) \/ Step(t) \/ Operator(t)
    \/ \E l \in Links : start_install(l) \/ ExpireLink(l)
    \/ \E g \in Grants : Revoke(g)
    \/ create_connection \/ Expire \/ RotateKey \/ Restart

InstallSpec == InstallInit /\ [][InstallNext]_installVars

\* A thread that began goes on and tokens run out.  The board calls the host on
\* every poll, and other requests do not keep its call waiting for ever.
FairInstallSpec ==
    /\ InstallSpec
    /\ \A t \in Threads : WF_installVars(Step(t))
    /\ WF_installVars(Expire)
    /\ SF_installVars(\E t \in Threads : token(t))

-----------------------------------------------------------------------------
(* Properties.                                                               *)

\* Types; an installation id only of an install that is there, and a secret
\* is sealed under a key that was active.
InstallTypeOK ==
    /\ provider \in Providers
    /\ row \in Row
    /\ links \in [Links -> {"unused", "pending", "expired", "spent"}]
    /\ key \in 1..MaxKey
    /\ cache \in Grants \cup {NoGrant}
    /\ thread \in [Threads -> Thread]
    /\ host \in [current : [Grants -> Serials], given : 0..MaxGrant, revoked : SUBSET Grants]
    /\ claims \in [Links -> 0..2]
    /\ faults \in 0..MaxFaults
    /\ row.install = "none" => row.grant = NoGrant
    /\ row.key <= key

\* Carries the newest refresh token of g to the row.
Carries(t, g) == thread[t].at \in {"check", "seal"} /\ thread[t].secret.grant = g
                 /\ thread[t].then = "cache"

\* The stored refresh token of an install is the one its host will take next, or a thread is
\* about to write that one.
RefreshKept ==
    row.secret.kind = "refresh" /\ row.install # "none" =>
        \/ row.secret.serial = host.current[row.secret.grant]
        \/ \E t \in Threads : /\ Carries(t, row.secret.grant)
                              /\ thread[t].secret.serial = host.current[row.secret.grant]

\* However the calls that use it overlap, no refresh token is overwritten by one
\* that is spent, as long as no process died and no answer was lost.
RefreshSurvives == faults = 0 => RefreshKept

\* A link completes one install, however often the redirect is repeated.
OneInstallPerLink == \A l \in Links : claims[l] <= 1

Finishes(t, label) == thread[t].at = label /\ thread[t].alone /\ thread'[t] = IdleThread /\ faults' = faults

\* Disconnecting, or deleting the connection, leaves nothing to mint from when
\* no other request overlaps.
DisconnectForgets ==
    [][\A t \in Threads :
          Finishes(t, "clear") \/ Finishes(t, "purge") =>
              row'.install = "none" /\ row'.secret = NoSecret /\ cache' = NoGrant]_installVars

Healthy ==
    IF provider = "gitlab" THEN Valid(row.secret)
    ELSE row.grant # NoGrant /\ row.grant \notin host.revoked

\* An install whose token is good does not stay degraded, whoever lost a race.
InstallRecovers == []<>(~row.there \/ ~Healthy \/ row.install # "credential_missing")

=============================================================================
