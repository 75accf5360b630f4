------------------------- MODULE GitInstallsProofs -------------------------
(* What the install flow promises, for any number of threads and links.      *)
EXTENDS GitInstalls, FiniteSetTheorems, TLAPS

-----------------------------------------------------------------------------
(* The invariant.                                                            *)

\* A link that was accepted is spent.
LinkInv == \A l \in Links : claims[l] \in 0..1 /\ (claims[l] = 1 => links[l] = "spent")

\* A thread of a disconnect that no other overlaps has emptied the cache, and
\* has the connection until it is through.
Undisturbed(me) ==
    /\ me.at # "idle"
    /\ me.at \in {"drop", "clear", "purge"} => cache = NoGrant
    /\ me.at \in {"drop", "clear"} => row.there
    /\ me.at = "clear" => row.install = "none"

AloneInv ==
    \A t \in Threads : thread[t].alone =>
        /\ Undisturbed(thread[t])
        /\ \A u \in Threads : u # t => thread[u] = IdleThread

IInv == InstallTypeOK /\ LinkInv /\ AloneInv

-----------------------------------------------------------------------------
(* Steps of a thread.                                                        *)

LEMMA IdleType == IdleThread \in Thread /\ IdleThread.at = "idle" /\ ~IdleThread.alone
BY Bounds, Pool, FS_CardinalityType DEF IdleThread, Thread, Labels, Secrets, NoSecret

\* A thread moves on and takes nothing from the others.
LEMMA GoTyped ==
    ASSUME thread \in [Threads -> Thread], NEW t \in Threads, NEW next \in Thread, Go(t, next)
    PROVE  /\ thread' \in [Threads -> Thread]
           /\ thread'[t] = IF next.at = "idle" THEN IdleThread ELSE next
           /\ \A u \in Threads : u # t => thread'[u] = thread[u]
BY IdleType DEF Go

LEMMA BeginTyped ==
    ASSUME thread \in [Threads -> Thread], NEW t \in Threads, NEW start \in Thread, Begin(t, start)
    PROVE  /\ thread' \in [Threads -> Thread]
           /\ thread[t] = IdleThread
           /\ thread'[t] = [start EXCEPT !.alone = start.alone /\ Quiet]
           /\ \A u \in Threads : u # t => thread'[u] = [thread[u] EXCEPT !.alone = FALSE]
<1>1. [start EXCEPT !.alone = start.alone /\ Quiet] \in Thread
  BY DEF Thread
<1>2. \A u \in Threads : [thread[u] EXCEPT !.alone = FALSE] \in Thread
  BY DEF Thread
<1> QED BY <1>1, <1>2 DEF Begin

\* While one thread is alone no other takes a step.
LEMMA GoAlone ==
    ASSUME InstallTypeOK, AloneInv, NEW t \in Threads, NEW next \in Thread, Go(t, next),
           thread[t].at # "idle",
           next.alone => thread[t].alone,
           next.at \notin {"drop", "clear", "purge"} \/ Undisturbed(next)'
    PROVE  AloneInv'
<1> USE IdleType, GoTyped DEF InstallTypeOK
<1> SUFFICES ASSUME NEW v \in Threads, thread'[v].alone
             PROVE  /\ Undisturbed(thread[v])'
                    /\ \A u \in Threads : u # v => thread'[u] = IdleThread
  BY DEF AloneInv
<1>1. v = t
  <2> SUFFICES ASSUME v # t PROVE FALSE
    OBVIOUS
  <2>1. thread[v].alone
    OBVIOUS
  <2>2. thread[t] = IdleThread
    BY <2>1 DEF AloneInv
  <2> QED BY <2>2
<1>2. thread'[t] = next /\ next.at # "idle" /\ thread[t].alone
  BY <1>1
<1>3. \A u \in Threads : u # t => thread'[u] = IdleThread
  BY <1>2 DEF AloneInv
<1>4. Undisturbed(next)'
  BY <1>2 DEF Undisturbed
<1> QED BY <1>1, <1>2, <1>3, <1>4

LEMMA BeginAlone ==
    ASSUME InstallTypeOK, NEW t \in Threads, NEW start \in Thread, Begin(t, start),
           start.alone => Undisturbed(start)'
    PROVE  AloneInv'
<1>0. /\ thread \in [Threads -> Thread]
      /\ thread'[t] = [start EXCEPT !.alone = start.alone /\ Quiet]
      /\ \A u \in Threads : u # t => thread'[u] = [thread[u] EXCEPT !.alone = FALSE]
  BY BeginTyped DEF InstallTypeOK
<1> SUFFICES ASSUME NEW v \in Threads, thread'[v].alone
             PROVE  /\ Undisturbed(thread[v])'
                    /\ \A u \in Threads : u # v => thread'[u] = IdleThread
  BY DEF AloneInv
<1>1. v = t
  BY <1>0 DEF Thread
<1>2. Quiet /\ start.alone
  BY <1>0, <1>1 DEF Thread
<1>3. \A u \in Threads : u # t => thread'[u] = IdleThread
  <2>1. [IdleThread EXCEPT !.alone = FALSE] = IdleThread
    BY IdleType DEF Thread
  <2>2. \A u \in Threads : thread[u] = IdleThread
    BY <1>2 DEF Quiet
  <2> QED BY <1>0, <2>1, <2>2
<1>4. thread'[t].at = start.at
  BY <1>0 DEF Thread
<1> QED BY <1>1, <1>2, <1>3, <1>4 DEF Undisturbed

\* What threads hold, when they stand still.
LEMMA StillAlone ==
    ASSUME AloneInv, UNCHANGED thread, cache' \in {cache, NoGrant},
           row'.there = row.there \/ row'.there, row'.install = row.install
    PROVE  AloneInv'
BY DEF AloneInv, Undisturbed

-----------------------------------------------------------------------------
(* Each action keeps the invariant.                                          *)

\* How a thread goes on that does not disconnect.
Onward(me) == {n \in Thread : n.at \notin {"drop", "clear", "purge"} /\ (n.alone => me.alone)}

LEMMA OnwardMoves ==
    ASSUME NEW me \in Thread, NEW l \in Labels \ {"drop", "clear", "purge"}
    PROVE  [me EXCEPT !.at = l] \in Onward(me) /\ [IdleThread EXCEPT !.at = l] \in Onward(me)
BY IdleType DEF Thread, Onward

LEMMA StepKeeps ==
    ASSUME IInv, NEW t \in Threads, NEW next \in Onward(thread[t]),
           Go(t, next), thread[t].at # "idle",
           UNCHANGED <<provider, links, key, claims>>,
           UNCHANGED row \/ ( /\ row' \in Row /\ row'.key <= key
                              /\ row'.install = "none" => row'.grant = NoGrant ),
           cache' \in Grants \cup {NoGrant},
           UNCHANGED host \/ host' \in [current : [Grants -> Serials], given : 0..MaxGrant,
                                        revoked : SUBSET Grants],
           UNCHANGED faults \/ Fault
    PROVE  IInv'
<1>0. next \in Thread
  BY DEF Onward
<1>1. InstallTypeOK'
  <2>1. faults' \in 0..MaxFaults
    BY Bounds DEF IInv, InstallTypeOK, Fault
  <2> QED BY <1>0, <2>1, GoTyped DEF IInv, InstallTypeOK
<1>2. LinkInv'
  BY DEF IInv, LinkInv
<1>3. AloneInv'
  BY <1>0, GoAlone DEF IInv, Onward
<1> QED BY <1>1, <1>2, <1>3 DEF IInv

LEMMA SecretTypes ==
    /\ NoSecret \in Secrets /\ Pasted \in Secrets
    /\ \A g \in Grants, s \in Serials : Refresh(g, s) \in Secrets
    /\ \A s \in Secrets : s.kind = "refresh" => /\ s.grant \in Grants /\ s.serial \in Serials
                                              /\ s = Refresh(s.grant, s.serial)
BY Bounds, Pool, FS_CardinalityType DEF NoSecret, Pasted, Refresh, Secrets

LEMMA MintKeeps ==
    ASSUME IInv, NEW t \in Threads,
           \/ read_secret(t) \/ mint_installation_token(t) \/ keep_token(t)
           \/ recover_install(t) \/ mint_failed(t) \/ degrade_install(t)
    PROVE  IInv'
<1> DEFINE me == thread[t]
<1>1. /\ me \in Thread /\ row \in Row /\ cache \in Grants \cup {NoGrant}
      /\ row.key <= key /\ (row.install = "none" => row.grant = NoGrant)
  BY DEF IInv, InstallTypeOK
<1>2. me.at # "idle" /\ UNCHANGED <<provider, links, key, claims>>
  BY DEF read_secret, mint_installation_token, keep_token, recover_install, mint_failed, degrade_install
<1>3. CASE read_secret(t)
  <2>1. UNCHANGED <<row, cache, host, faults>>
    BY <1>3 DEF read_secret
  <2>2. CASE row.secret = NoSecret
    <3>1. Go(t, [IdleThread EXCEPT !.at = "fail"])
      BY <1>3, <2>2 DEF read_secret, Fail
    <3> QED BY <1>1, <1>2, <2>1, <3>1, OnwardMoves, StepKeeps DEF Labels
  <2>3. CASE row.secret # NoSecret
    <3> DEFINE next == [me EXCEPT !.secret = row.secret, !.then = "call",
                                  !.at = IF rewrap THEN "seal" ELSE "call"]
    <3>1. Go(t, next)
      BY <1>3, <2>3 DEF read_secret
    <3>2. next \in Onward(me)
      BY <1>1 DEF Thread, Labels, Row, Onward
    <3> HIDE DEF next
    <3> QED BY <1>1, <1>2, <2>1, <3>1, <3>2, StepKeeps
  <2> QED BY <2>2, <2>3
<1>4. CASE mint_installation_token(t)
  <2>1. UNCHANGED <<row, cache, host>> /\ (UNCHANGED faults \/ Fault)
    BY <1>4 DEF mint_installation_token
  <2>2. \E next \in Onward(me) : Go(t, next)
    BY <1>1, <1>4, OnwardMoves DEF mint_installation_token, GoTo, Fail, Labels
  <2> QED BY <1>1, <1>2, <2>1, <2>2, StepKeeps
<1>5. CASE keep_token(t)
  <2>1. UNCHANGED <<row, host, faults>> /\ cache' \in Grants \cup {NoGrant}
    BY <1>1, <1>5 DEF keep_token, Thread
  <2>2. \E next \in Onward(me) : Go(t, next)
    BY <1>1, <1>5, OnwardMoves DEF keep_token, Labels
  <2> QED BY <1>1, <1>2, <2>1, <2>2, StepKeeps
<1>6. CASE recover_install(t)
  <2>1. UNCHANGED <<cache, host, faults>> /\ GoTo(t, "idle")
    BY <1>6 DEF recover_install
  <2>2. row' \in Row /\ row'.key <= key /\ (row'.install = "none" => row'.grant = NoGrant)
    BY <1>1, <1>6 DEF recover_install, Row
  <2> QED BY <1>1, <1>2, <2>1, <2>2, OnwardMoves, StepKeeps DEF GoTo, Labels
<1>7. CASE mint_failed(t)
  <2>1. UNCHANGED <<row, host, faults>> /\ cache' = NoGrant /\ GoTo(t, "degrade")
    BY <1>7 DEF mint_failed
  <2> QED BY <1>1, <1>2, <2>1, OnwardMoves, StepKeeps DEF GoTo, Labels
<1>8. CASE degrade_install(t)
  <2>1. UNCHANGED <<cache, host, faults>> /\ GoTo(t, "idle")
    BY <1>8 DEF degrade_install
  <2>2. row' \in Row /\ row'.key <= key /\ (row'.install = "none" => row'.grant = NoGrant)
    BY <1>1, <1>8 DEF degrade_install, Row
  <2> QED BY <1>1, <1>2, <2>1, <2>2, OnwardMoves, StepKeeps DEF GoTo, Labels
<1> QED BY <1>3, <1>4, <1>5, <1>6, <1>7, <1>8

LEMMA Smallest ==
    ASSUME NEW S \in SUBSET Nat, S # {}
    PROVE  \E n \in S : \A k \in S : n <= k
<1> DEFINE R == OpToRel(<, Nat)
<1>1. IsWellFoundedOn(R, Nat)
  BY NatLessThanWellFounded, Zenon
<1>2. PICK n \in S : \A k \in S : ~(<<k, n>> \in R)
  <2> HIDE DEF R
  <2> QED BY <1>1, WFMin
<1>3. \A k \in S : ~(k < n)
  BY <1>2 DEF OpToRel
<1> QED BY <1>3

\* There is a serial that nobody holds: each thread has one secret, the row has
\* one, and the one that is spent is a thread's.
LEMMA NewSerialIsNew ==
    ASSUME InstallTypeOK, NEW t \in Threads, NEW g \in Grants,
           thread[t].secret.serial = host.current[g]
    PROVE  /\ NewSerial(g) \in Serials
           /\ NewSerial(g) # host.current[g]
           /\ row.secret # Refresh(g, NewSerial(g))
           /\ \A u \in Threads : thread[u].secret # Refresh(g, NewSerial(g))
<1> DEFINE held == {s \in {row.secret} \cup {thread[u].secret : u \in Threads} : s.grant = g}
           taken == {s.serial : s \in held} \cup {host.current[g]}
           unused == Serials \ taken
           f == [u \in Threads |-> thread[u].secret.serial]
           image == {thread[u].secret.serial : u \in Threads}
           bound == image \cup {row.secret.serial}
           n == Cardinality(Threads)
<1>1. f \in Surjection(Threads, image)
  BY DEF Surjection
<1>2. IsFiniteSet(image) /\ Cardinality(image) <= n /\ n \in Nat /\ Cardinality(image) \in Nat
  <2> HIDE DEF f, image
  <2> QED BY <1>1, Pool, FS_Surjection, FS_CardinalityType
<1>3. IsFiniteSet(bound) /\ Cardinality(bound) <= n + 1 /\ Cardinality(bound) \in Nat
  <2> HIDE DEF image, n
  <2>1. /\ IsFiniteSet(bound)
        /\ \/ Cardinality(bound) = Cardinality(image)
           \/ Cardinality(bound) = Cardinality(image) + 1
    BY <1>2, FS_AddElement
  <2> HIDE DEF bound
  <2> QED BY <1>2, <2>1
<1>4. Cardinality(Serials) = n + 2
  BY <1>2, FS_Interval DEF Serials
<1>5. taken \subseteq bound
  OBVIOUS
<1>6. ~(Serials \subseteq taken)
  <2> SUFFICES ASSUME Serials \subseteq bound PROVE FALSE
    BY <1>5
  <2>1. Cardinality(Serials) <= Cardinality(bound)
    <3> HIDE DEF bound
    <3> QED BY <1>3, FS_Subset
  <2> HIDE DEF bound, n
  <2> QED BY <1>2, <1>3, <1>4, <2>1
<1>7. unused # {} /\ unused \in SUBSET Nat
  <2>1. unused # {}
    BY <1>6
  <2> QED BY <1>2, <2>1 DEF Serials
<1>8. NewSerial(g) \in unused
  <2>1. \E k \in unused : \A m \in unused : k <= m
    <3> HIDE DEF unused
    <3> QED BY <1>7, Smallest
  <2>2. NewSerial(g) = CHOOSE k \in unused : \A m \in unused : k <= m
    BY DEF NewSerial
  <2> HIDE DEF unused
  <2> QED BY <2>1, <2>2
<1>9. \A s \in {row.secret} \cup {thread[u].secret : u \in Threads} : s # Refresh(g, NewSerial(g))
  <2> SUFFICES ASSUME NEW s \in {row.secret} \cup {thread[u].secret : u \in Threads},
                      s = Refresh(g, NewSerial(g))
               PROVE  FALSE
    OBVIOUS
  <2>1. s \in held /\ s.serial = NewSerial(g)
    BY DEF Refresh
  <2> QED BY <1>8, <2>1
<1> QED BY <1>8, <1>9

\* What the host rotates to is a secret.
LEMMA RotatedTyped ==
    ASSUME InstallTypeOK, NEW t \in Threads, Valid(thread[t].secret)
    PROVE  LET s == thread[t].secret
               next == Refresh(s.grant, NewSerial(s.grant))
           IN  /\ s.grant \in Grants /\ next \in Secrets /\ next.kind = "refresh"
               /\ next.grant = s.grant /\ next.serial = NewSerial(s.grant)
               /\ NewSerial(s.grant) \in Serials
<1>1. thread[t].secret.grant \in Grants /\ thread[t].secret.serial = host.current[thread[t].secret.grant]
  BY SecretTypes DEF InstallTypeOK, Thread, Valid
<1> QED BY <1>1, NewSerialIsNew, SecretTypes DEF Refresh

LEMMA RefreshKeeps == ASSUME IInv, NEW t \in Threads, refresh_tokens(t) PROVE IInv'
<1> DEFINE me == thread[t]
           s == me.secret
           next == Refresh(s.grant, NewSerial(s.grant))
           rotated == [host EXCEPT !.current[s.grant] = next.serial]
           moved == [me EXCEPT !.at = "check", !.then = "cache", !.secret = next, !.grant = s.grant]
<1>1. /\ me \in Thread /\ row \in Row /\ cache \in Grants \cup {NoGrant}
      /\ host \in [current : [Grants -> Serials], given : 0..MaxGrant, revoked : SUBSET Grants]
  BY DEF IInv, InstallTypeOK
<1>2. me.at # "idle" /\ UNCHANGED <<provider, row, links, key, cache, claims>>
  BY DEF refresh_tokens
<1>3. Valid(s) => moved \in Onward(me) /\
         rotated \in [current : [Grants -> Serials], given : 0..MaxGrant, revoked : SUBSET Grants]
  <2> SUFFICES ASSUME Valid(s) PROVE moved \in Onward(me) /\
         rotated \in [current : [Grants -> Serials], given : 0..MaxGrant, revoked : SUBSET Grants]
    OBVIOUS
  <2>1. s.grant \in Grants /\ next \in Secrets /\ next.serial \in Serials
    BY RotatedTyped DEF IInv
  <2> HIDE DEF next, s
  <2>2. moved \in Onward(me)
    BY <1>1, <2>1 DEF Onward, Thread, Labels
  <2>3. rotated \in [current : [Grants -> Serials], given : 0..MaxGrant, revoked : SUBSET Grants]
    BY <1>1, <2>1
  <2> QED BY <2>2, <2>3
<1>4. \/ Valid(s) /\ host' = rotated /\ Go(t, moved) /\ UNCHANGED faults
      \/ Valid(s) /\ Fault /\ host' \in {rotated, host} /\ Fail(t)
      \/ Fail(t) /\ UNCHANGED <<host, faults>>
  BY DEF refresh_tokens
<1>5. Fail(t) => Go(t, [IdleThread EXCEPT !.at = "fail"])
  BY DEF Fail
<1>6. [IdleThread EXCEPT !.at = "fail"] \in Onward(me)
  BY <1>1, OnwardMoves DEF Labels
<1> HIDE DEF rotated, moved
<1> QED BY <1>1, <1>2, <1>3, <1>4, <1>5, <1>6, StepKeeps

LEMMA StoreKeeps ==
    ASSUME IInv, NEW t \in Threads,
           set_connection_credential(t) \/ _patch_connection(t) \/ _store_sealed(t)
    PROVE  IInv'
<1> DEFINE me == thread[t]
<1>1. /\ me \in Thread /\ row \in Row /\ cache \in Grants \cup {NoGrant} /\ key \in 1..MaxKey
      /\ row.key <= key /\ (row.install = "none" => row.grant = NoGrant)
  BY DEF IInv, InstallTypeOK
<1>2. me.at # "idle" /\ UNCHANGED <<provider, links, key, cache, host, claims, faults>>
  BY DEF set_connection_credential, _patch_connection, _store_sealed
<1>3. CASE _store_sealed(t)
  <2>1. row' \in Row /\ row'.key <= key /\ (row'.install = "none" => row'.grant = NoGrant)
    <3>1. row' = [row EXCEPT !.secret = me.secret, !.key = key] /\ me.secret \in Secrets
      BY <1>1, <1>3 DEF _store_sealed, seal, Thread
    <3>2. row' \in Row
      BY <1>1, <3>1 DEF Row
    <3>3. row'.key = key /\ row'.install = row.install /\ row'.grant = row.grant
      BY <1>1, <3>1 DEF Row
    <3> QED BY <1>1, <3>2, <3>3, Bounds
  <2>2. \E next \in Onward(me) : Go(t, next)
    BY <1>1, <1>3, OnwardMoves DEF _store_sealed, GoTo, Labels
  <2> QED BY <1>1, <1>2, <2>1, <2>2, StepKeeps
<1>4. CASE set_connection_credential(t)
  <2>1. UNCHANGED row /\ \E next \in Onward(me) : Go(t, next)
    BY <1>1, <1>4, OnwardMoves DEF set_connection_credential, OnConnection, GoTo, Fail, Labels
  <2> QED BY <1>1, <1>2, <2>1, StepKeeps
<1>5. CASE _patch_connection(t)
  <2>1. UNCHANGED row
    BY <1>5 DEF _patch_connection
  <2>2. \E next \in Onward(me) : Go(t, next)
    BY <1>1, <1>5, OnwardMoves DEF _patch_connection, OnConnection, GoTo, Fail, Thread, Labels
  <2> QED BY <1>1, <1>2, <2>1, <2>2, StepKeeps
<1> QED BY <1>3, <1>4, <1>5

LEMMA ConnectKeeps ==
    ASSUME IInv, NEW t \in Threads,
           complete_git_install(t) \/ record_install(t) \/ WriteInstall(t)
    PROVE  IInv'
<1> DEFINE me == thread[t]
<1>1. /\ me \in Thread /\ row \in Row /\ cache \in Grants \cup {NoGrant}
      /\ row.key <= key /\ (row.install = "none" => row.grant = NoGrant)
      /\ host \in [current : [Grants -> Serials], given : 0..MaxGrant, revoked : SUBSET Grants]
  BY DEF IInv, InstallTypeOK
<1>2. me.at # "idle" /\ UNCHANGED <<provider, links, key, claims>>
  BY DEF complete_git_install, record_install, WriteInstall
<1>3. CASE complete_git_install(t)
  <2> DEFINE g == host.given + 1
             sealed == [me EXCEPT !.at = "check", !.then = "forget", !.secret = Refresh(g, host.current[g])]
             known == [me EXCEPT !.at = "forget", !.grant = g]
  <2>1. UNCHANGED <<row, cache>> /\ (UNCHANGED faults \/ Fault)
    BY <1>3 DEF complete_git_install
  <2>2. CASE GoTo(t, "idle") /\ UNCHANGED host
    BY <1>1, <1>2, <2>1, <2>2, OnwardMoves, StepKeeps DEF GoTo, Labels
  <2>3. CASE /\ host.given < MaxGrant /\ host' = [host EXCEPT !.given = g]
             /\ Go(t, sealed) \/ Go(t, known)
    <3>1. g \in Grants /\ g \in 0..MaxGrant
      BY <1>1, <2>3, Bounds DEF Grants
    <3>2. Refresh(g, host.current[g]) \in Secrets
      BY <1>1, <3>1, SecretTypes
    <3> HIDE DEF g
    <3>3. sealed \in Onward(me) /\ known \in Onward(me)
      BY <1>1, <3>1, <3>2 DEF Onward, Thread, Labels
    <3>4. host' \in [current : [Grants -> Serials], given : 0..MaxGrant, revoked : SUBSET Grants]
      BY <1>1, <2>3, <3>1
    <3> HIDE DEF sealed, known
    <3> QED BY <1>1, <1>2, <2>1, <2>3, <3>3, <3>4, StepKeeps
  <2> QED BY <1>3, <2>2, <2>3 DEF complete_git_install, exchange_code, verify_installation
<1>4. CASE record_install(t)
  <2>1. UNCHANGED <<row, host, faults>> /\ cache' \in Grants \cup {NoGrant}
    BY <1>1, <1>4 DEF record_install
  <2>2. \E next \in Onward(me) : Go(t, next)
    BY <1>1, <1>4, OnwardMoves DEF record_install, GoTo, Labels
  <2> QED BY <1>1, <1>2, <2>1, <2>2, StepKeeps
<1>5. CASE WriteInstall(t)
  <2>1. UNCHANGED <<cache, host, faults>> /\ GoTo(t, "idle")
    BY <1>5 DEF WriteInstall
  <2>2. row' = [row EXCEPT !.install = "installed", !.grant = me.grant] /\ me.grant \in Grants \cup {NoGrant}
    BY <1>1, <1>5 DEF WriteInstall, Thread
  <2>3. row' \in Row
    BY <1>1, <2>2 DEF Row
  <2>4. row'.install = "installed" /\ row'.key = row.key
    BY <1>1, <2>2 DEF Row
  <2> QED BY <1>1, <1>2, <2>1, <2>3, <2>4, OnwardMoves, StepKeeps DEF GoTo, Labels
<1> QED BY <1>3, <1>4, <1>5

LEMMA DisconnectKeeps ==
    ASSUME IInv, NEW t \in Threads, DropInstall(t) \/ ClearSecret(t) \/ Purge(t)
    PROVE  IInv'
<1> DEFINE me == thread[t]
<1>1. /\ me \in Thread /\ row \in Row /\ cache \in Grants \cup {NoGrant} /\ key \in 1..MaxKey
      /\ row.key <= key /\ (row.install = "none" => row.grant = NoGrant)
  BY DEF IInv, InstallTypeOK
<1>2. me.at # "idle" /\ UNCHANGED <<provider, key, cache, host, claims, faults>>
  BY DEF DropInstall, ClearSecret, Purge
<1>3. CASE ClearSecret(t)
  <2>1. UNCHANGED links /\ GoTo(t, "idle")
    BY <1>3 DEF ClearSecret
  <2>2. row' \in Row /\ row'.key <= key /\ (row'.install = "none" => row'.grant = NoGrant)
    BY <1>1, <1>3, SecretTypes DEF ClearSecret, Row
  <2> QED BY <1>1, <1>2, <2>1, <2>2, OnwardMoves, StepKeeps DEF GoTo, Labels
<1>4. CASE DropInstall(t)
  <2>1. me.at = "drop" /\ UNCHANGED links /\ row' = [row EXCEPT !.install = "none", !.grant = NoGrant]
    BY <1>4 DEF DropInstall
  <2>2. row' \in Row
    BY <1>1, <2>1 DEF Row
  <2>3. row'.install = "none" /\ row'.grant = NoGrant /\ row'.key = row.key /\ row'.there = row.there
    BY <1>1, <2>1 DEF Row
  <2>4. PICK next \in Thread : next.at \in {"idle", "clear"} /\ next.alone = me.alone /\ Go(t, next)
    <3>1. \A l \in {"idle", "clear"} :
             [me EXCEPT !.at = l] \in Thread /\ [me EXCEPT !.at = l].at = l
             /\ [me EXCEPT !.at = l].alone = me.alone
      BY <1>1 DEF Thread, Labels
    <3> QED BY <1>4, <3>1 DEF DropInstall, GoTo
  <2>5. InstallTypeOK'
    BY <1>1, <1>2, <2>1, <2>2, <2>3, <2>4, GoTyped DEF IInv, InstallTypeOK
  <2>6. me.alone /\ next.at = "clear" => Undisturbed(next)'
    BY <1>2, <2>1, <2>3, <2>4 DEF IInv, AloneInv, Undisturbed
  <2>7. AloneInv'
    <3>1. CASE next.at = "clear" /\ ~me.alone
      <4>1. \A v \in Threads : thread'[v].alone => v # t /\ thread[v].alone
        BY <2>1, <2>4, <3>1, GoTyped DEF IInv, InstallTypeOK
      <4> QED BY <1>2, <4>1 DEF IInv, AloneInv, IdleThread
    <3>2. CASE next.at = "idle" \/ me.alone
      BY <1>2, <2>1, <2>4, <2>6, <3>2, GoAlone DEF IInv
    <3> QED BY <2>4, <3>1, <3>2
  <2>8. LinkInv'
    BY <1>2, <2>1 DEF IInv, LinkInv
  <2> QED BY <2>5, <2>7, <2>8 DEF IInv
<1>5. CASE Purge(t)
  <2>1. /\ row' = Blank /\ links' = [l \in Links |-> IF links[l] = "unused" THEN "unused" ELSE "spent"]
        /\ Go(t, [me EXCEPT !.at = "idle"])
    BY <1>5 DEF Purge, GoTo
  <2>2. Blank \in Row /\ Blank.key = 1 /\ Blank.grant = NoGrant
    BY SecretTypes, Bounds DEF Blank, Row
  <2>3. [me EXCEPT !.at = "idle"] \in Onward(me)
    BY <1>1, OnwardMoves DEF Labels
  <2>4. InstallTypeOK'
    BY <1>1, <1>2, <2>1, <2>2, <2>3, GoTyped DEF IInv, InstallTypeOK, Onward
  <2>5. AloneInv'
    BY <1>2, <2>1, <2>3, GoAlone DEF IInv, Onward
  <2>6. LinkInv'
    BY <1>2, <2>1 DEF IInv, LinkInv
  <2> QED BY <2>4, <2>5, <2>6 DEF IInv
<1> QED BY <1>3, <1>4, <1>5

LEMMA BeginKeeps ==
    ASSUME IInv, NEW t \in Threads,
           token(t) \/ Paste(t) \/ delete_install(t) \/ delete_connection(t)
    PROVE  IInv'
<1>1. UNCHANGED <<provider, row, links, key, host, claims, faults>> /\ cache' \in {cache, NoGrant}
  BY DEF token, Paste, delete_install, delete_connection
<1>2. row \in Row
  BY DEF IInv, InstallTypeOK
<1>3. PICK start \in Thread : /\ Begin(t, start)
                              /\ start.alone => Undisturbed(start)'
  <2> USE IdleType, SecretTypes DEF Thread, Labels, Row
  <2>1. CASE token(t)
    <3> DEFINE start == [IdleThread EXCEPT !.at = _mint, !.grant = row.grant]
    <3>1. _mint \in Labels
      BY DEF _mint
    <3>2. start \in Thread /\ ~start.alone
      BY <1>2, <3>1
    <3>3. Begin(t, start)
      BY <2>1 DEF token
    <3> HIDE DEF start
    <3> QED BY <3>2, <3>3
  <2>2. CASE Paste(t)
    <3> DEFINE start == [IdleThread EXCEPT !.at = "check", !.secret = Pasted]
    <3>1. start \in Thread /\ ~start.alone /\ Begin(t, start)
      BY <2>2 DEF Paste
    <3> HIDE DEF start
    <3> QED BY <3>1
  <2>3. CASE delete_install(t)
    <3> DEFINE start == [IdleThread EXCEPT !.at = "drop", !.alone = TRUE]
    <3>1. start \in Thread /\ start.at = "drop" /\ Begin(t, start) /\ row.there /\ cache' = NoGrant
      BY <2>3 DEF delete_install
    <3>2. \E n \in Thread : n = start
      BY <3>1
    <3> HIDE DEF start
    <3> QED BY <1>1, <3>1, <3>2 DEF Undisturbed
  <2>4. CASE delete_connection(t)
    <3> DEFINE start == [IdleThread EXCEPT !.at = "purge", !.alone = TRUE]
    <3>1. start \in Thread /\ start.at = "purge" /\ Begin(t, start) /\ cache' = NoGrant
      BY <2>4 DEF delete_connection
    <3>2. \E n \in Thread : n = start
      BY <3>1
    <3> HIDE DEF start
    <3> QED BY <1>1, <3>1, <3>2 DEF Undisturbed
  <2> QED BY <2>1, <2>2, <2>3, <2>4
<1>4. InstallTypeOK'
  BY <1>1, <1>3, BeginTyped DEF IInv, InstallTypeOK
<1>5. AloneInv'
  BY <1>3, BeginAlone DEF IInv
<1>6. LinkInv'
  BY <1>1 DEF IInv, LinkInv
<1> QED BY <1>4, <1>5, <1>6 DEF IInv

LEMMA ClaimKeeps ==
    ASSUME IInv, NEW t \in Threads, NEW l \in Links, consume_install_state(t, l)
    PROVE  IInv'
<1>1. /\ UNCHANGED <<provider, row, key, cache, host, faults>>
      /\ links' = [links EXCEPT ![l] = "spent"] /\ links[l] \in {"pending", "expired"}
  BY DEF consume_install_state
<1>2. claims \in [Links -> 0..2] /\ links \in [Links -> {"unused", "pending", "expired", "spent"}]
  BY DEF IInv, InstallTypeOK
<1>3. CASE links[l] = "pending"
  <2> DEFINE start == [IdleThread EXCEPT !.at = "exchange", !.alone = TRUE]
  <2>1. start \in Thread /\ start.at = "exchange" /\ Begin(t, start)
    BY <1>3, IdleType DEF consume_install_state, Thread, Labels
  <2> HIDE DEF start
  <2>2. claims[l] = 0 /\ claims' = [claims EXCEPT ![l] = IF @ = 2 THEN 2 ELSE @ + 1]
    BY <1>2, <1>3 DEF IInv, LinkInv, consume_install_state
  <2>3. claims' \in [Links -> 0..2] /\ LinkInv'
    BY <1>1, <1>2, <2>2 DEF IInv, LinkInv
  <2>4. InstallTypeOK'
    BY <1>1, <1>2, <2>1, <2>3, BeginTyped DEF IInv, InstallTypeOK
  <2>5. AloneInv'
    <3>1. PICK n \in Thread : n.at = "exchange" /\ Begin(t, n)
      BY <2>1
    <3> QED BY <3>1, BeginAlone DEF IInv, Undisturbed
  <2> QED BY <2>3, <2>4, <2>5 DEF IInv
<1>4. CASE links[l] # "pending"
  <2>1. UNCHANGED <<claims, thread>>
    BY <1>4 DEF consume_install_state
  <2>2. InstallTypeOK'
    BY <1>1, <1>2, <2>1 DEF IInv, InstallTypeOK
  <2>3. AloneInv' /\ LinkInv'
    BY <1>1, <1>2, <2>1 DEF IInv, AloneInv, LinkInv, Undisturbed
  <2> QED BY <2>2, <2>3 DEF IInv
<1> QED BY <1>3, <1>4

\* What happens around the requests.
Around ==
    \/ \E l \in Links : start_install(l) \/ ExpireLink(l)
    \/ \E g \in Grants : Revoke(g)
    \/ create_connection \/ Expire \/ RotateKey \/ Restart

LEMMA AroundKeeps == ASSUME IInv, Around PROVE IInv'
<1> USE DEF IInv
<1>1. CASE \E l \in Links : start_install(l) \/ ExpireLink(l)
  <2>1. PICK l \in Links : start_install(l) \/ ExpireLink(l)
    BY <1>1
  <2>2. /\ UNCHANGED <<provider, row, key, cache, thread, host, claims, faults>>
        /\ links' \in {[links EXCEPT ![l] = "pending"], [links EXCEPT ![l] = "expired"]}
        /\ links[l] # "spent"
    BY <2>1 DEF start_install, ExpireLink
  <2> QED BY <2>2 DEF InstallTypeOK, LinkInv, AloneInv, Undisturbed
<1>2. CASE \E g \in Grants : Revoke(g)
  <2>1. PICK g \in Grants : Revoke(g)
    BY <1>2
  <2>2. UNCHANGED <<provider, row, key, cache, thread, links, claims, faults>>
        /\ host' = [host EXCEPT !.revoked = @ \cup {g}]
    BY <2>1 DEF Revoke
  <2> QED BY <2>2 DEF InstallTypeOK, LinkInv, AloneInv, Undisturbed
<1>3. CASE create_connection
  <2>1. row' \in Row /\ row'.there /\ row'.install = row.install /\ row'.grant = row.grant /\ row'.key = row.key
    BY <1>3 DEF create_connection, InstallTypeOK, Row
  <2> QED BY <1>3, <2>1 DEF create_connection, InstallTypeOK, LinkInv, AloneInv, Undisturbed
<1>4. CASE Expire
  BY <1>4 DEF Expire, InstallTypeOK, LinkInv, AloneInv, Undisturbed
<1>5. CASE RotateKey
  <2>1. /\ faults' \in 0..MaxFaults /\ key' \in 1..MaxKey /\ row.key <= key' /\ cache' = NoGrant
        /\ UNCHANGED <<provider, row, links, thread, host, claims>>
    BY <1>5, Bounds DEF RotateKey, Fault, InstallTypeOK, Row
  <2>2. \A t \in Threads : ~thread[t].alone
    BY <1>5, IdleType DEF RotateKey, Quiet
  <2> QED BY <2>1, <2>2 DEF InstallTypeOK, LinkInv, AloneInv
<1>6. CASE Restart
  <2>1. faults' \in 0..MaxFaults /\ UNCHANGED <<provider, row, links, key, host, claims>> /\ cache' = NoGrant
    BY <1>6, Bounds DEF Restart, Fault, InstallTypeOK
  <2>2. thread' \in [Threads -> Thread] /\ \A t \in Threads : ~thread'[t].alone
    BY <1>6, IdleType DEF Restart
  <2> QED BY <2>1, <2>2 DEF InstallTypeOK, LinkInv, AloneInv
<1> QED BY <1>1, <1>2, <1>3, <1>4, <1>5, <1>6 DEF Around

LEMMA InitKeeps == InstallInit => IInv
<1> SUFFICES ASSUME InstallInit PROVE IInv
  OBVIOUS
<1>1. row \in Row /\ row.key = 1 /\ row.install = "none" /\ row.grant = NoGrant
  <2>1. row = [there |-> TRUE, install |-> "none", grant |-> NoGrant, secret |-> NoSecret, key |-> 1]
    BY DEF InstallInit, Blank
  <2> QED BY <2>1, SecretTypes, Bounds DEF Row
<1>2. 1 \in Serials
  BY Bounds, Pool, FS_CardinalityType DEF Serials
<1>3. host \in [current : [Grants -> Serials], given : 0..MaxGrant, revoked : SUBSET Grants]
  BY <1>2, Bounds DEF InstallInit
<1>4. thread \in [Threads -> Thread] /\ \A t \in Threads : ~thread[t].alone
  BY IdleType DEF InstallInit
<1> QED BY <1>1, <1>3, <1>4, Bounds DEF InstallInit, IInv, InstallTypeOK, LinkInv, AloneInv

LEMMA NextKeeps == IInv /\ [InstallNext]_installVars => IInv'
<1> SUFFICES ASSUME IInv, [InstallNext]_installVars PROVE IInv'
  OBVIOUS
<1>1. CASE \E t \in Threads : token(t) \/ Step(t) \/ Operator(t)
  BY <1>1, MintKeeps, RefreshKeeps, StoreKeeps, ConnectKeeps, DisconnectKeeps, BeginKeeps, ClaimKeeps
     DEF Step, Operator
<1>2. CASE Around
  BY <1>2, AroundKeeps
<1>3. CASE UNCHANGED installVars
  BY <1>3 DEF installVars, IInv, InstallTypeOK, LinkInv, AloneInv, Undisturbed
<1> QED BY <1>1, <1>2, <1>3 DEF InstallNext, Around

THEOREM InstallInductive == InstallSpec => []IInv
BY InitKeeps, NextKeeps, PTL DEF InstallSpec

\* A link completes one install, however often the redirect comes back.
THEOREM LinksInstallOnce == InstallSpec => []OneInstallPerLink
<1>1. IInv => OneInstallPerLink
  BY DEF IInv, LinkInv, OneInstallPerLink
<1> QED BY <1>1, InstallInductive, PTL

\* Only the last step of a disconnect makes its thread idle.
LEMMA Forgotten ==
    ASSUME IInv, [InstallNext]_installVars, NEW t \in Threads, Finishes(t, "clear") \/ Finishes(t, "purge")
    PROVE  ClearSecret(t) \/ Purge(t)
<1>1. thread[t].at \in {"clear", "purge"} /\ thread[t].alone /\ thread'[t] = IdleThread /\ faults' = faults
  BY DEF Finishes
<1>2. thread' # thread /\ thread[t] # IdleThread
  BY <1>1, IdleType
<1>3. ~RotateKey /\ ~Restart
  BY <1>1 DEF RotateKey, Restart, Fault, IInv, InstallTypeOK
<1>4. PICK u \in Threads : token(u) \/ Step(u) \/ Operator(u)
  BY <1>2, <1>3 DEF InstallNext, installVars, start_install, ExpireLink, Revoke, create_connection, Expire
<1>5. u = t
  <2> SUFFICES ASSUME u # t PROVE FALSE
    OBVIOUS
  <2>1. thread[u] = IdleThread
    BY <1>1 DEF IInv, AloneInv
  <2>2. ~Step(u)
    BY <2>1, IdleType DEF Step, read_secret, refresh_tokens, mint_installation_token, keep_token,
       recover_install, mint_failed, degrade_install, set_connection_credential, _store_sealed,
       _patch_connection, complete_git_install, record_install, WriteInstall, DropInstall, ClearSecret, Purge
  <2>3. \A start : ~Begin(u, start)
    <3> SUFFICES ASSUME NEW start, Begin(u, start) PROVE FALSE
      OBVIOUS
    <3>1. thread'[t].at = thread[t].at
      BY DEF Begin, IInv, InstallTypeOK, Thread
    <3> QED BY <1>1, <3>1, IdleType
  <2>4. \E l \in Links : consume_install_state(u, l)
    BY <1>4, <2>2, <2>3 DEF token, Operator, Paste, delete_install, delete_connection
  <2> QED BY <1>2, <2>3, <2>4 DEF consume_install_state
<1>6. \A start : ~Begin(t, start)
  BY <1>2 DEF Begin
<1>7. Step(t)
  BY <1>2, <1>4, <1>5, <1>6 DEF token, Operator, Paste, delete_install, delete_connection,
     consume_install_state
<1> QED BY <1>1, <1>7 DEF Step, read_secret, refresh_tokens, mint_installation_token, keep_token,
       recover_install, mint_failed, degrade_install, set_connection_credential, _store_sealed,
       _patch_connection, complete_git_install, record_install, WriteInstall, DropInstall

\* Disconnecting, or deleting the connection, leaves nothing to mint from when
\* no other request overlaps (DisconnectForgets).
THEOREM NothingIsRemembered == InstallSpec => DisconnectForgets
<1>1. ASSUME IInv, [InstallNext]_installVars, NEW t \in Threads, Finishes(t, "clear") \/ Finishes(t, "purge")
      PROVE  row'.install = "none" /\ row'.secret = NoSecret /\ cache' = NoGrant
  <2>1. thread[t].alone /\ Undisturbed(thread[t]) /\ row \in Row
    BY <1>1 DEF Finishes, IInv, AloneInv, InstallTypeOK
  <2>2. CASE ClearSecret(t)
    BY <2>1, <2>2 DEF ClearSecret, Undisturbed, Row
  <2>3. CASE Purge(t)
    BY <2>1, <2>3 DEF Purge, Undisturbed, Blank
  <2> QED BY <1>1, <2>2, <2>3, Forgotten
<1>2. IInv /\ [InstallNext]_installVars =>
         [\A t \in Threads :
             Finishes(t, "clear") \/ Finishes(t, "purge") =>
                 row'.install = "none" /\ row'.secret = NoSecret /\ cache' = NoGrant]_installVars
  BY <1>1
<1> QED BY <1>2, InstallInductive, PTL DEF InstallSpec, DisconnectForgets

-----------------------------------------------------------------------------
(* Refresh tokens, where a secret is stored for a connection that is there.  *)
(* The check and the write are two transactions: a connection deleted in     *)
(* between gets its secret back, see the README.                             *)

StoredInPlace == row.there \/ row'.secret = row.secret

\* A thread that has the newest token of a grant, not yet stored.
HasNew(me) == me.at \in {"check", "seal"} /\ me.secret.kind = "refresh"
Carrier(me) == HasNew(me) /\ me.then = "cache"

\* The host takes it next, and nobody else has it.
Newest(t) ==
    LET s == thread[t].secret
    IN  /\ s.serial = host.current[s.grant]
        /\ row.secret # s
        /\ \A u \in Threads : u # t => thread[u].secret # s

Tokens ==
    /\ key = 1 /\ row.key = 1
    /\ ~row.there => row.secret = NoSecret
    /\ row.secret.grant <= host.given
    /\ \A t \in Threads :
          /\ thread[t].secret.grant <= host.given
          /\ thread[t].at \in {"check", "seal"} => thread[t].then # "call"
          /\ HasNew(thread[t]) => Newest(t)
    /\ row.secret.kind = "refresh" =>
          \/ row.secret.serial = host.current[row.secret.grant]
          \/ \E t \in Threads : Carrier(thread[t]) /\ thread[t].secret.grant = row.secret.grant

TokenInv == faults = 0 => Tokens

\* A grant is a number, 0 of a secret that is no token.
LEMMA GrantsAreNumbers == \A s \in Secrets : s.grant \in Int
BY Bounds DEF Secrets, Grants, NoGrant, Pasted, NoSecret

\* A step that stores no secret and gets none from the host.
LEMMA QuietTokens ==
    ASSUME IInv, IInv', Tokens, NEW t \in Threads,
           key' = key, row'.key = row.key, row'.secret = row.secret,
           row.there => row'.there, host'.current = host.current, host'.given \in {host.given, host.given + 1},
           \A u \in Threads : u # t => /\ thread'[u].at = thread[u].at
                                       /\ thread'[u].then = thread[u].then
                                       /\ thread'[u].secret = thread[u].secret,
           thread'[t].secret \in {thread[t].secret, row.secret, NoSecret, Pasted},
           thread'[t].at \in {"check", "seal"} => thread'[t].then # "call",
           HasNew(thread'[t]) => HasNew(thread[t]) /\ thread'[t].secret = thread[t].secret,
           \/ row.secret = NoSecret
           \/ Carrier(thread[t]) => Carrier(thread'[t]) /\ thread'[t].secret = thread[t].secret
    PROVE  Tokens'
<1>1. NoSecret.grant = 0 /\ Pasted.grant = 0 /\ NoSecret.kind = "none" /\ Pasted.kind = "pasted"
  BY DEF NoSecret, Pasted, NoGrant
<1>2. host.given \in Nat /\ host'.given \in Nat
  BY DEF IInv, InstallTypeOK
<1>3. row.secret.grant <= host'.given /\ \A u \in Threads : thread'[u].secret.grant <= host'.given
  <2>1. row.secret.grant \in Int /\ row.secret.grant <= host.given
    BY GrantsAreNumbers DEF IInv, InstallTypeOK, Row, Tokens
  <2>2. \A u \in Threads : thread[u].secret.grant \in Int /\ thread[u].secret.grant <= host.given
    BY GrantsAreNumbers DEF IInv, InstallTypeOK, Thread, Tokens
  <2> QED BY <1>1, <1>2, <2>1, <2>2
<1>4. ASSUME NEW u \in Threads, HasNew(thread'[u]) PROVE Newest(u)'
  <2>1. HasNew(thread[u]) /\ thread'[u].secret = thread[u].secret
    BY <1>4 DEF HasNew
  <2>2. Newest(u)
    BY <2>1 DEF Tokens
  <2>3. \A v \in Threads : v # u => thread'[v].secret # thread[u].secret
    BY <1>1, <2>1, <2>2 DEF Newest, HasNew
  <2> QED BY <2>1, <2>2, <2>3 DEF Newest
<1>5. row.secret.kind = "refresh" =>
          \/ row.secret.serial = host.current[row.secret.grant]
          \/ \E u \in Threads : Carrier(thread'[u]) /\ thread'[u].secret.grant = row.secret.grant
  <2> SUFFICES ASSUME NEW u \in Threads, Carrier(thread[u]), row.secret # NoSecret
               PROVE  Carrier(thread'[u]) /\ thread'[u].secret = thread[u].secret
    BY <1>1 DEF Tokens
  <2> QED BY DEF Carrier, HasNew
<1> QED BY <1>1, <1>3, <1>4, <1>5 DEF Tokens, Carrier, HasNew

\* The host rotates a token: the thread that asked has the new one.
LEMMA RefreshTokens ==
    ASSUME IInv, IInv', Tokens, faults' = 0, NEW t \in Threads, refresh_tokens(t)
    PROVE  Tokens'
<1> DEFINE s == thread[t].secret
           g == s.grant
           next == Refresh(g, NewSerial(g))
<1>1. /\ thread[t] \in Thread /\ thread \in [Threads -> Thread] /\ row \in Row
      /\ host \in [current : [Grants -> Serials], given : 0..MaxGrant, revoked : SUBSET Grants]
      /\ faults \in Nat
  BY DEF IInv, InstallTypeOK
<1>2. thread[t].at = "call" /\ UNCHANGED <<row, key>>
  BY DEF refresh_tokens
<1>3. ~Fault
  BY <1>1 DEF Fault
<1>4. CASE Fail(t) /\ UNCHANGED host
  <2>1. /\ thread'[t] = [IdleThread EXCEPT !.at = "fail"]
        /\ \A u \in Threads : u # t => thread'[u] = thread[u]
    BY <1>1, <1>4, IdleType DEF Fail, Go, Thread
  <2>2. thread'[t].at = "fail" /\ thread'[t].secret = NoSecret
    BY <2>1 DEF IdleThread
  <2> QED BY <1>2, <1>4, <2>1, <2>2, QuietTokens DEF HasNew, Carrier
<1>5. CASE /\ Valid(s)
           /\ host' = [host EXCEPT !.current[g] = next.serial]
           /\ Go(t, [thread[t] EXCEPT !.at = "check", !.then = "cache", !.secret = next, !.grant = g])
  <2>1. /\ g \in Grants /\ next \in Secrets /\ next.kind = "refresh" /\ next.grant = g
        /\ next.serial = NewSerial(g) /\ s.serial = host.current[g] /\ s.kind = "refresh"
    BY <1>5, RotatedTyped DEF IInv, Valid
  <2>2. /\ NewSerial(g) # host.current[g] /\ row.secret # next
        /\ \A u \in Threads : thread[u].secret # next
    BY <2>1, NewSerialIsNew DEF IInv
  <2>3. /\ thread'[t].at = "check" /\ thread'[t].then = "cache" /\ thread'[t].secret = next
        /\ \A u \in Threads : u # t => thread'[u] = thread[u]
    <3> HIDE DEF s, next, g
    <3> QED BY <1>1, <1>5 DEF Go, Thread
  <2>4. /\ host'.given = host.given /\ host'.current[g] = next.serial
        /\ \A h \in Grants : h # g => host'.current[h] = host.current[h]
    <3> HIDE DEF s, next, g
    <3> QED BY <1>1, <1>5, <2>1
  <2>5. g <= host.given
    BY DEF Tokens
  <2>6. ASSUME NEW u \in Threads, u # t, HasNew(thread[u]) PROVE Newest(u)'
    <3>1. Newest(u) /\ thread[u].secret \in Secrets
      BY <1>1, <2>6 DEF Tokens, Thread
    <3>2. thread[u].secret.grant \in Grants
      BY <2>6, <3>1, SecretTypes DEF HasNew
    <3>3. thread[u].secret.grant # g
      <4> SUFFICES ASSUME thread[u].secret.grant = g PROVE FALSE
        OBVIOUS
      <4>1. thread[u].secret.serial = s.serial
        BY <2>1, <3>1 DEF Newest
      <4>2. thread[u].secret = s
        BY <1>1, <2>1, <2>6, <3>1, <4>1, SecretTypes DEF HasNew, Thread
      <4> QED BY <2>6, <3>1, <4>2 DEF Newest
    <3>4. thread'[u].secret = thread[u].secret /\ row' = row
      BY <1>2, <2>3, <2>6
    <3>5. \A v \in Threads : v # u => thread'[v].secret # thread[u].secret
      BY <2>2, <2>3, <2>6, <3>1 DEF Newest
    <3> QED BY <2>4, <3>1, <3>2, <3>3, <3>4, <3>5 DEF Newest
  <2>7. Newest(t)'
    BY <1>2, <2>1, <2>2, <2>3, <2>4 DEF Newest
  <2>8. row.secret.kind = "refresh" =>
            \/ row.secret.serial = host'.current[row.secret.grant]
            \/ \E u \in Threads : Carrier(thread'[u]) /\ thread'[u].secret.grant = row.secret.grant
    <3>1. CASE row.secret.grant = g
      <4>1. Carrier(thread'[t])
        BY <2>1, <2>3 DEF Carrier, HasNew
      <4> QED BY <2>1, <2>3, <3>1, <4>1
    <3>2. CASE row.secret.grant # g /\ row.secret.kind = "refresh"
      <4>1. row.secret.grant \in Grants
        BY <1>1, <3>2, SecretTypes DEF Row
      <4>2. host'.current[row.secret.grant] = host.current[row.secret.grant]
        BY <2>4, <3>2, <4>1
      <4>3. \A u \in Threads : Carrier(thread[u]) => u # t /\ thread'[u] = thread[u]
        BY <1>2, <2>3 DEF Carrier, HasNew
      <4> QED BY <3>2, <4>2, <4>3 DEF Tokens
    <3> QED BY <3>1, <3>2
  <2>9. \A u \in Threads : /\ thread'[u].secret.grant <= host'.given
                           /\ thread'[u].at \in {"check", "seal"} => thread'[u].then # "call"
    BY <2>1, <2>3, <2>4, <2>5 DEF Tokens
  <2>10. \A u \in Threads : HasNew(thread'[u]) => Newest(u)'
    BY <2>3, <2>6, <2>7
  <2> QED BY <1>2, <2>4, <2>8, <2>9, <2>10 DEF Tokens
<1> QED BY <1>3, <1>4, <1>5 DEF refresh_tokens

\* A secret is sealed: the newest of its grant, or a pasted one.
LEMMA SealTokens ==
    ASSUME IInv, IInv', Tokens, StoredInPlace, NEW t \in Threads, _store_sealed(t)
    PROVE  Tokens'
<1> DEFINE s == thread[t].secret
<1>1. /\ thread[t] \in Thread /\ thread \in [Threads -> Thread] /\ row \in Row /\ s \in Secrets
  BY DEF IInv, InstallTypeOK, Thread
<1>2. thread[t].at = "seal" /\ thread[t].then # "call" /\ UNCHANGED <<key, host>>
  BY DEF _store_sealed, Tokens
<1>3. /\ thread'[t].at = "patch" /\ thread'[t].secret = s
      /\ \A u \in Threads : u # t => thread'[u] = thread[u]
  BY <1>1, <1>2 DEF _store_sealed, Go, GoTo, Thread
<1>4. row'.secret = s /\ row'.key = key /\ row'.there = row.there
  BY <1>1 DEF _store_sealed, seal, Row
<1>5. row.there \/ (row.secret = NoSecret /\ s = NoSecret)
  BY <1>4 DEF StoredInPlace, Tokens
<1>6. ASSUME NEW u \in Threads, HasNew(thread'[u]) PROVE Newest(u)'
  <2>1. u # t /\ thread'[u] = thread[u] /\ Newest(u)
    BY <1>3, <1>6 DEF HasNew, Tokens
  <2>2. s # thread[u].secret
    BY <2>1 DEF Newest
  <2> QED BY <1>2, <1>3, <1>4, <2>1, <2>2 DEF Newest
<1>7. s.kind = "refresh" => s.serial = host.current[s.grant]
  BY <1>2 DEF Tokens, HasNew, Newest
<1> QED BY <1>2, <1>3, <1>4, <1>5, <1>6, <1>7 DEF Tokens

\* A consent on GitLab brings the first token of its grant.
LEMMA ExchangeTokens ==
    ASSUME IInv, IInv', Tokens, NEW t \in Threads, thread[t].at = "exchange",
           host.given < MaxGrant, host' = [host EXCEPT !.given = host.given + 1],
           exchange_code(t, host.given + 1), UNCHANGED <<row, key>>
    PROVE  Tokens'
<1> DEFINE g == host.given + 1
           s == Refresh(g, host.current[g])
<1>1. /\ thread[t] \in Thread /\ thread \in [Threads -> Thread] /\ host.given \in Nat
      /\ host \in [current : [Grants -> Serials], given : 0..MaxGrant, revoked : SUBSET Grants]
  BY DEF IInv, InstallTypeOK
<1>2. g \in Grants
  BY <1>1, Bounds DEF Grants
<1>3. /\ host'.given = g /\ host'.current = host.current
  BY <1>1
<1>4. /\ thread'[t].at = "check" /\ thread'[t].then = "forget" /\ thread'[t].secret = s
      /\ \A u \in Threads : u # t => thread'[u] = thread[u]
  <2> DEFINE next == [thread[t] EXCEPT !.at = "check", !.then = "forget", !.secret = s]
  <2>1. Go(t, next)
    BY DEF exchange_code
  <2>2. next.at = "check" /\ next.then = "forget" /\ next.secret = s
    BY <1>1 DEF Thread
  <2> HIDE DEF next
  <2> QED BY <1>1, <2>1, <2>2 DEF Go
<1>5. s.grant = g /\ s.serial = host.current[g] /\ s.kind = "refresh"
  BY DEF Refresh
<1>6. row.secret # s /\ \A u \in Threads : thread[u].secret # s
  <2>1. row.secret.grant \in Int /\ row.secret.grant <= host.given
    BY GrantsAreNumbers DEF IInv, InstallTypeOK, Row, Tokens
  <2>2. \A u \in Threads : thread[u].secret.grant \in Int /\ thread[u].secret.grant <= host.given
    BY GrantsAreNumbers DEF IInv, InstallTypeOK, Thread, Tokens
  <2> HIDE DEF s
  <2> QED BY <1>1, <1>5, <2>1, <2>2
<1> HIDE DEF s
<1>7. Newest(t)'
  BY <1>3, <1>4, <1>5, <1>6 DEF Newest
<1>8. ASSUME NEW u \in Threads, u # t, HasNew(thread[u]) PROVE Newest(u)'
  BY <1>3, <1>4, <1>6, <1>8 DEF Tokens, Newest
<1>9. \A u \in Threads : thread'[u].secret.grant <= g
  <2>1. \A u \in Threads : thread[u].secret.grant \in Int /\ thread[u].secret.grant <= host.given
    BY GrantsAreNumbers DEF IInv, InstallTypeOK, Thread, Tokens
  <2> QED BY <1>1, <1>4, <1>5, <2>1
<1>10. row.secret.grant <= g
  <2>1. row.secret.grant \in Int /\ row.secret.grant <= host.given
    BY GrantsAreNumbers DEF IInv, InstallTypeOK, Row, Tokens
  <2> QED BY <1>1, <2>1
<1>11. \A u \in Threads : Carrier(thread[u]) => u # t
  BY DEF Carrier, HasNew
<1> HIDE DEF g
<1> QED BY <1>3, <1>4, <1>7, <1>8, <1>9, <1>10, <1>11 DEF Tokens, Carrier, HasNew

\* The secret goes, with its connection or from it.
LEMMA DropTokens ==
    ASSUME IInv, IInv', Tokens, NEW t \in Threads, ClearSecret(t) \/ Purge(t)
    PROVE  Tokens'
<1>1. /\ thread[t] \in Thread /\ thread \in [Threads -> Thread] /\ row \in Row /\ host.given \in Nat
  BY DEF IInv, InstallTypeOK
<1>2. UNCHANGED <<key, host>> /\ thread'[t] = IdleThread /\ \A u \in Threads : u # t => thread'[u] = thread[u]
  <2>1. [thread[t] EXCEPT !.at = "idle"].at = "idle"
    BY <1>1 DEF Thread
  <2> QED BY <1>1, <2>1 DEF ClearSecret, Purge, GoTo, Go
<1>3. row'.secret = NoSecret /\ row'.key = 1
  BY <1>1 DEF ClearSecret, Purge, Blank, Row, Tokens
<1>4. NoSecret.grant = 0 /\ NoSecret.kind = "none" /\ IdleThread.at = "idle" /\ IdleThread.secret = NoSecret
  BY DEF NoSecret, NoGrant, IdleThread
<1>5. ASSUME NEW u \in Threads, HasNew(thread'[u]) PROVE Newest(u)'
  <2>1. u # t /\ thread'[u] = thread[u] /\ Newest(u) /\ thread[u].secret.kind = "refresh"
    BY <1>2, <1>4, <1>5 DEF HasNew, Tokens
  <2> QED BY <1>2, <1>3, <1>4, <2>1 DEF Newest
<1> QED BY <1>1, <1>2, <1>3, <1>4, <1>5 DEF Tokens

\* A request begins, and has no token yet.
LEMMA BeginTokens ==
    ASSUME IInv, IInv', Tokens, NEW t \in Threads,
           token(t) \/ Paste(t) \/ delete_install(t) \/ delete_connection(t)
           \/ \E l \in Links : consume_install_state(t, l)
    PROVE  Tokens'
<1>1. /\ thread \in [Threads -> Thread] /\ row \in Row
      /\ UNCHANGED <<row, key, host>>
  BY DEF IInv, InstallTypeOK, token, Paste, delete_install, delete_connection, consume_install_state
<1>2. UNCHANGED thread \/ \E start \in Thread :
          /\ Begin(t, start)
          /\ start.secret \in {NoSecret, Pasted}
          /\ start.then = "idle"
  <2>1. \A l \in Labels, g \in Grants \cup {NoGrant}, b \in BOOLEAN, s \in {NoSecret, Pasted} :
           /\ [IdleThread EXCEPT !.at = l, !.grant = g] \in Thread
           /\ [IdleThread EXCEPT !.at = l, !.grant = g].secret = NoSecret
           /\ [IdleThread EXCEPT !.at = l, !.grant = g].then = "idle"
           /\ [IdleThread EXCEPT !.at = l, !.secret = s] \in Thread
           /\ [IdleThread EXCEPT !.at = l, !.secret = s].secret = s
           /\ [IdleThread EXCEPT !.at = l, !.secret = s].then = "idle"
           /\ [IdleThread EXCEPT !.at = l, !.alone = b] \in Thread
           /\ [IdleThread EXCEPT !.at = l, !.alone = b].secret = NoSecret
           /\ [IdleThread EXCEPT !.at = l, !.alone = b].then = "idle"
    <3> TAKE l \in Labels, g \in Grants \cup {NoGrant}, b \in BOOLEAN, s \in {NoSecret, Pasted}
    <3>1. [IdleThread EXCEPT !.at = l, !.grant = g] \in Thread
      BY IdleType DEF Thread
    <3>2. [IdleThread EXCEPT !.at = l, !.secret = s] \in Thread
      BY IdleType, SecretTypes DEF Thread
    <3>3. [IdleThread EXCEPT !.at = l, !.alone = b] \in Thread
      BY IdleType DEF Thread
    <3>4. /\ [IdleThread EXCEPT !.at = l, !.grant = g].secret = NoSecret
          /\ [IdleThread EXCEPT !.at = l, !.grant = g].then = "idle"
      BY DEF IdleThread
    <3>5. /\ [IdleThread EXCEPT !.at = l, !.secret = s].secret = s
          /\ [IdleThread EXCEPT !.at = l, !.secret = s].then = "idle"
      BY DEF IdleThread
    <3>6. /\ [IdleThread EXCEPT !.at = l, !.alone = b].secret = NoSecret
          /\ [IdleThread EXCEPT !.at = l, !.alone = b].then = "idle"
      BY DEF IdleThread
    <3> QED BY <3>1, <3>2, <3>3, <3>4, <3>5, <3>6
  <2>2. _mint \in Labels /\ {"check", "drop", "purge", "exchange"} \subseteq Labels
    BY DEF _mint, Labels
  <2>3. row.grant \in Grants \cup {NoGrant}
    BY <1>1 DEF Row
  <2>4. CASE token(t)
    <3> DEFINE start == [IdleThread EXCEPT !.at = _mint, !.grant = row.grant]
    <3>1. Begin(t, start)
      BY <2>4 DEF token
    <3>2. start \in Thread /\ start.secret = NoSecret /\ start.then = "idle"
      BY <2>1, <2>2, <2>3
    <3> HIDE DEF start
    <3> QED BY <3>1, <3>2
  <2>5. CASE Paste(t)
    BY <2>1, <2>2, <2>5 DEF Paste
  <2>6. CASE delete_install(t)
    BY <2>1, <2>2, <2>6 DEF delete_install
  <2>7. CASE delete_connection(t)
    BY <2>1, <2>2, <2>7 DEF delete_connection
  <2>8. CASE \E l \in Links : consume_install_state(t, l)
    BY <2>1, <2>2, <2>8 DEF consume_install_state
  <2> QED BY <2>4, <2>5, <2>6, <2>7, <2>8
<1>3. CASE UNCHANGED thread
  BY <1>1, <1>3, QuietTokens DEF Tokens
<1>4. ASSUME NEW start \in Thread, Begin(t, start), start.secret \in {NoSecret, Pasted}, start.then = "idle"
      PROVE  Tokens'
  <2>1. /\ thread[t] = IdleThread
        /\ thread'[t].secret = start.secret /\ thread'[t].then = "idle"
        /\ \A u \in Threads : u # t => /\ thread'[u].at = thread[u].at
                                       /\ thread'[u].then = thread[u].then
                                       /\ thread'[u].secret = thread[u].secret
    <3>1. /\ thread'[t] = [start EXCEPT !.alone = start.alone /\ Quiet]
          /\ \A u \in Threads : u # t => thread'[u] = [thread[u] EXCEPT !.alone = FALSE]
          /\ thread[t] = IdleThread
      BY <1>1, <1>4, BeginTyped
    <3>2. [start EXCEPT !.alone = start.alone /\ Quiet].secret = start.secret
      BY <1>4 DEF Thread
    <3>3. [start EXCEPT !.alone = start.alone /\ Quiet].then = start.then
      BY <1>4 DEF Thread
    <3>4. \A u \in Threads : /\ [thread[u] EXCEPT !.alone = FALSE].at = thread[u].at
                             /\ [thread[u] EXCEPT !.alone = FALSE].then = thread[u].then
                             /\ [thread[u] EXCEPT !.alone = FALSE].secret = thread[u].secret
      BY <1>1 DEF Thread
    <3> QED BY <1>4, <3>1, <3>2, <3>3, <3>4
  <2>2. ~HasNew(thread'[t]) /\ ~Carrier(thread[t])
    BY <1>4, <2>1, IdleType DEF HasNew, Carrier, NoSecret, Pasted
  <2> QED BY <1>1, <1>4, <2>1, <2>2, QuietTokens
<1> QED BY <1>2, <1>3, <1>4

\* A thread goes on with the secret it has, or drops it.
LEMMA GoTokens ==
    ASSUME IInv, IInv', Tokens, NEW t \in Threads, NEW next \in Thread, Go(t, next),
           UNCHANGED key, row'.key = row.key, row'.secret = row.secret, row.there => row'.there,
           host'.current = host.current, host'.given \in {host.given, host.given + 1},
           next.secret \in {thread[t].secret, row.secret, NoSecret},
           next.at \in {"check", "seal"} => thread[t].at = "check" /\ next.secret = thread[t].secret
                                            /\ next.then = thread[t].then,
           \/ row.secret = NoSecret
           \/ thread[t].at \notin {"check", "seal"}
           \/ next.at \in {"check", "seal"}
    PROVE  Tokens'
<1>1. /\ thread'[t] = IF next.at = "idle" THEN IdleThread ELSE next
      /\ \A u \in Threads : u # t => thread'[u] = thread[u]
  BY GoTyped DEF IInv, InstallTypeOK
<1>2. IdleThread.secret = NoSecret
  BY DEF IdleThread
<1>3. next.at \in {"check", "seal"} => next.then # "call"
  BY DEF Tokens
<1> QED BY <1>1, <1>2, <1>3, IdleType, QuietTokens DEF HasNew, Carrier

\* A thread goes on from a step at which it has nothing to store.
LEMMA MoveTokens ==
    ASSUME IInv, IInv', Tokens, NEW t \in Threads,
           thread[t].at \notin {"check", "seal"} \/ row.secret = NoSecret,
           NEW l \in Labels \ {"check", "seal"},
           GoTo(t, l) \/ Go(t, [IdleThread EXCEPT !.at = l]),
           UNCHANGED <<key, host>>, row'.key = row.key, row'.secret = row.secret,
           row'.there = row.there
    PROVE  Tokens'
<1>1. CASE GoTo(t, l)
  <2> DEFINE next == [thread[t] EXCEPT !.at = l]
  <2>1. Go(t, next)
    BY <1>1 DEF GoTo
  <2>2. thread[t] \in Thread
    BY DEF IInv, InstallTypeOK
  <2>3. next \in Thread
    BY <2>2 DEF Thread
  <2>4. next.at = l /\ next.secret = thread[t].secret
    BY <2>2 DEF Thread
  <2> HIDE DEF next
  <2> QED BY <2>1, <2>3, <2>4, GoTokens
<1>2. CASE Go(t, [IdleThread EXCEPT !.at = l])
  <2> DEFINE next == [IdleThread EXCEPT !.at = l]
  <2>1. Go(t, next)
    BY <1>2
  <2>2. next \in Thread
    BY IdleType DEF Thread
  <2>3. next.at = l /\ next.secret = NoSecret
    BY DEF IdleThread
  <2> HIDE DEF next
  <2> QED BY <2>1, <2>2, <2>3, GoTokens
<1> QED BY <1>1, <1>2

\* The steps of a thread.
LEMMA StepTokens ==
    ASSUME IInv, IInv', Tokens, faults' = 0, StoredInPlace, NEW t \in Threads, Step(t)
    PROVE  Tokens'
<1> DEFINE me == thread[t]
<1>1. /\ me \in Thread /\ row \in Row /\ faults \in Nat
      /\ host \in [current : [Grants -> Serials], given : 0..MaxGrant, revoked : SUBSET Grants]
  BY DEF IInv, InstallTypeOK
<1>2. ~Fault
  BY <1>1 DEF Fault
<1>3. \A l \in Labels :
         /\ [me EXCEPT !.at = l] \in Thread /\ [me EXCEPT !.at = l].at = l
         /\ [me EXCEPT !.at = l].secret = me.secret /\ [me EXCEPT !.at = l].then = me.then
         /\ [IdleThread EXCEPT !.at = l] \in Thread /\ [IdleThread EXCEPT !.at = l].at = l
         /\ [IdleThread EXCEPT !.at = l].secret = NoSecret
  BY <1>1, IdleType DEF Thread, IdleThread
<1>4. {"idle", "fail", "call", "cache", "recover", "degrade", "seal", "forget", "record", "clear"} \subseteq Labels
  BY DEF Labels
<1>5. CASE read_secret(t)
  <2>1. ~rewrap
    BY DEF rewrap, Tokens
  <2>2. \E next \in Thread : Go(t, next) /\ next.at \in {"fail", "call"} /\ next.secret \in {NoSecret, row.secret}
    <3>1. CASE row.secret = NoSecret
      BY <1>3, <1>4, <1>5, <3>1 DEF read_secret, Fail
    <3>2. CASE row.secret # NoSecret
      <4> DEFINE next == [me EXCEPT !.secret = row.secret, !.then = "call", !.at = "call"]
      <4>1. Go(t, next)
        BY <1>5, <2>1, <3>2 DEF read_secret
      <4>2. next \in Thread /\ next.at = "call" /\ next.secret = row.secret
        BY <1>1, <1>4 DEF Thread, Row
      <4> HIDE DEF next
      <4> QED BY <4>1, <4>2
    <3> QED BY <3>1, <3>2
  <2>3. me.at = "read" /\ UNCHANGED <<row, key, host>>
    BY <1>5 DEF read_secret
  <2> QED BY <2>2, <2>3, GoTokens
<1>6. CASE mint_installation_token(t) \/ keep_token(t) \/ mint_failed(t)
  <2>1. UNCHANGED <<row, key, host>> /\ me.at \in {"mint", "cache", "fail"}
    BY <1>6 DEF mint_installation_token, keep_token, mint_failed
  <2>2. \E l \in {"cache", "fail", "recover", "degrade"} : GoTo(t, l) \/ Go(t, [IdleThread EXCEPT !.at = l])
    BY <1>6 DEF mint_installation_token, keep_token, mint_failed, Fail
  <2> QED BY <1>4, <2>1, <2>2, MoveTokens
<1>7. CASE recover_install(t) \/ degrade_install(t) \/ WriteInstall(t) \/ DropInstall(t)
  <2>1. UNCHANGED <<key, host>> /\ me.at \in {"recover", "degrade", "record", "drop"}
    BY <1>7 DEF recover_install, degrade_install, WriteInstall, DropInstall
  <2>2. row'.secret = row.secret /\ row'.key = row.key /\ row'.there = row.there
    BY <1>1, <1>7 DEF recover_install, degrade_install, WriteInstall, DropInstall, Row
  <2>3. \E l \in {"idle", "clear"} : GoTo(t, l)
    BY <1>7 DEF recover_install, degrade_install, WriteInstall, DropInstall
  <2> QED BY <1>4, <2>1, <2>2, <2>3, MoveTokens
<1>8. CASE record_install(t)
  <2>1. UNCHANGED <<row, key, host>> /\ me.at = "forget"
    BY <1>8 DEF record_install
  <2>2. \E l \in {"record", "idle"} : GoTo(t, l)
    BY <1>8 DEF record_install
  <2> QED BY <1>4, <2>1, <2>2, MoveTokens
<1>9. CASE set_connection_credential(t)
  <2>1. UNCHANGED <<row, key, host>> /\ me.at = "check"
    BY <1>9 DEF set_connection_credential
  <2>2. CASE row.there
    <3>1. Go(t, [me EXCEPT !.at = "seal"])
      BY <1>9, <2>2 DEF set_connection_credential, OnConnection, GoTo
    <3> QED BY <1>3, <1>4, <2>1, <3>1, GoTokens
  <2>3. CASE ~row.there
    <3>1. \E l \in {"fail", "idle"} : GoTo(t, l) \/ Go(t, [IdleThread EXCEPT !.at = l])
      BY <1>9, <2>3 DEF set_connection_credential, OnConnection, Fail
    <3>2. row.secret = NoSecret
      BY <2>3 DEF Tokens
    <3> QED BY <1>4, <2>1, <3>1, <3>2, MoveTokens
  <2> QED BY <2>2, <2>3
<1>10. CASE _patch_connection(t)
  <2>1. UNCHANGED <<row, key, host>> /\ me.at = "patch"
    BY <1>10 DEF _patch_connection
  <2>2. \E l \in {"idle", "call", "cache", "forget", "fail"} :
           GoTo(t, l) \/ Go(t, [IdleThread EXCEPT !.at = l])
    <3>1. me.then \in {"idle", "call", "cache", "forget"}
      BY <1>1 DEF Thread
    <3> QED BY <1>10, <3>1 DEF _patch_connection, OnConnection, Fail
  <2> QED BY <1>4, <2>1, <2>2, MoveTokens
<1>11. CASE complete_git_install(t)
  <2> DEFINE g == host.given + 1
  <2>1. UNCHANGED <<row, key>> /\ me.at = "exchange"
    BY <1>11 DEF complete_git_install
  <2>2. CASE GoTo(t, "idle") /\ UNCHANGED host
    <3>1. "idle" \in Labels \ {"check", "seal"}
      BY <1>4
    <3>2. UNCHANGED <<key, host>> /\ row' = row /\ me.at \notin {"check", "seal"}
      BY <2>1, <2>2
    <3> QED BY <2>2, <3>1, <3>2, MoveTokens
  <2>3. CASE host.given < MaxGrant /\ host' = [host EXCEPT !.given = g] /\ exchange_code(t, g)
    BY <2>1, <2>3, ExchangeTokens
  <2>4. CASE host.given < MaxGrant /\ host' = [host EXCEPT !.given = g] /\ verify_installation(t, g)
    <3>1. /\ host'.current = host.current /\ host'.given = g /\ host.given \in Nat
      BY <1>1, <2>4
    <3>2. g \in Grants
      BY <1>1, <2>4, Bounds DEF Grants
    <3>3. \E next \in Thread : Go(t, next) /\ next.at = "forget" /\ next.secret = me.secret
      <4> HIDE DEF g
      <4>1. [me EXCEPT !.at = "forget", !.grant = g] \in Thread
        BY <1>1, <1>4, <3>2 DEF Thread
      <4> QED BY <1>1, <2>4, <4>1 DEF verify_installation, Thread
    <3> QED BY <2>1, <3>1, <3>3, GoTokens
  <2> QED BY <1>2, <1>11, <2>2, <2>3, <2>4 DEF complete_git_install
<1>12. CASE refresh_tokens(t)
  BY <1>12, RefreshTokens
<1>13. CASE _store_sealed(t)
  BY <1>13, SealTokens
<1>14. CASE ClearSecret(t) \/ Purge(t)
  BY <1>14, DropTokens
<1> QED BY <1>5, <1>6, <1>7, <1>8, <1>9, <1>10, <1>11, <1>12, <1>13, <1>14 DEF Step

\* Links, consents withdrawn, a new connection and a token that runs out.
LEMMA AroundTokens ==
    ASSUME IInv, IInv', Tokens,
           \/ \E l \in Links : start_install(l) \/ ExpireLink(l)
           \/ \E g \in Grants : Revoke(g)
           \/ create_connection \/ Expire
           \/ UNCHANGED installVars
    PROVE  Tokens'
<1>1. /\ row \in Row
      /\ host \in [current : [Grants -> Serials], given : 0..MaxGrant, revoked : SUBSET Grants]
  BY DEF IInv, InstallTypeOK
<1>2. /\ UNCHANGED <<key, thread>>
      /\ row'.key = row.key /\ row'.secret = row.secret /\ (row.there => row'.there)
  BY <1>1 DEF start_install, ExpireLink, Revoke, create_connection, Expire, installVars, Row
<1>3. host'.current = host.current /\ host'.given = host.given
  BY <1>1 DEF start_install, ExpireLink, Revoke, create_connection, Expire, installVars
<1>4. \A t \in Threads : HasNew(thread'[t]) => Newest(t)'
  BY <1>2, <1>3 DEF Tokens, Newest
<1> QED BY <1>2, <1>3, <1>4 DEF Tokens

\* Every step, where no fault has happened.
LEMMA TokenNext ==
    ASSUME IInv, IInv', TokenInv, [InstallNext]_installVars, [StoredInPlace]_installVars
    PROVE  TokenInv'
<1> SUFFICES ASSUME faults' = 0 PROVE Tokens'
  BY DEF TokenInv
<1>1. faults \in Nat
  BY DEF IInv, InstallTypeOK
<1>2. ~Fault
  BY <1>1 DEF Fault
<1>3. faults = 0 /\ ~RotateKey /\ ~Restart
  <2>1. faults' = faults
    BY <1>2 DEF InstallNext, installVars, token, Step, Operator, read_secret, refresh_tokens,
       mint_installation_token, keep_token, recover_install, mint_failed, degrade_install,
       set_connection_credential, _store_sealed, _patch_connection, complete_git_install,
       record_install, WriteInstall, DropInstall, ClearSecret, Purge, Paste, delete_install,
       delete_connection, consume_install_state, start_install, ExpireLink, Revoke,
       create_connection, Expire, RotateKey, Restart
  <2> QED BY <1>2, <2>1 DEF RotateKey, Restart
<1>4. Tokens
  BY <1>3 DEF TokenInv
<1>5. ASSUME NEW t \in Threads, token(t) \/ Operator(t) PROVE Tokens'
  BY <1>4, <1>5, BeginTokens DEF Operator
<1>6. ASSUME NEW t \in Threads, Step(t) PROVE Tokens'
  <2>1. CASE UNCHANGED installVars
    BY <1>4, <2>1, AroundTokens
  <2>2. CASE StoredInPlace
    BY <1>4, <1>6, <2>2, StepTokens
  <2> QED BY <2>1, <2>2
<1>7. CASE \/ \E l \in Links : start_install(l) \/ ExpireLink(l)
           \/ \E g \in Grants : Revoke(g)
           \/ create_connection \/ Expire
           \/ UNCHANGED installVars
  BY <1>4, <1>7, AroundTokens
<1> QED BY <1>3, <1>5, <1>6, <1>7 DEF InstallNext

\* However the calls that use it overlap, the stored refresh token is the one the
\* host takes next, or about to be replaced by it (RefreshSurvives), if no secret
\* is stored for a connection that is gone.
THEOREM RefreshIsKept == InstallSpec /\ [][StoredInPlace]_installVars => []RefreshSurvives
<1>1. InstallInit => TokenInv
  <2> SUFFICES ASSUME InstallInit PROVE Tokens
    BY DEF TokenInv
  <2>1. /\ row.key = 1 /\ row.secret = NoSecret /\ key = 1 /\ host.given = 0
        /\ \A t \in Threads : thread[t] = IdleThread
    BY DEF InstallInit, Blank
  <2> QED BY <2>1 DEF Tokens, IdleThread, NoSecret, NoGrant, HasNew
<1>2. IInv /\ TokenInv => RefreshSurvives
  <2> SUFFICES ASSUME IInv, Tokens PROVE RefreshKept
    BY DEF TokenInv, RefreshSurvives
  <2> QED BY DEF Tokens, RefreshKept, Carrier, HasNew, Newest, Carries
<1> QED BY <1>1, <1>2, TokenNext, InstallInductive, PTL DEF InstallSpec

=============================================================================
