--------------------------- MODULE RequestsProofs ---------------------------
(* What the requests of a tenant keep, for any number of threads, rows and    *)
(* factories: the git configuration, as the transactions of several requests  *)
(* come between one another; the tenant and the audit entry of each write on  *)
(* both surfaces; and the record of every prepared action.                    *)
EXTENDS GitConnections, Surfaces, PreparedActions, SequenceTheorems, FiniteSetTheorems,
        WellFoundedInduction, TLAPS

-----------------------------------------------------------------------------
(* The git configuration: the invariant.                                     *)

Types ==
    /\ conns \in [Conns -> Connection]
    /\ repos \in [Repos -> Repository]
    /\ legacy \in Legacies
    /\ work \in [Workers -> Request]
    /\ connMishaps \in Nat

\* Beside a request that is alone there is none.
AloneInv ==
    \A w \in Workers : work[w].alone /\ work[w] # NoRequest =>
        \A v \in Workers : v # w => work[v] = NoRequest

\* The request t writes what it read in the step before: the row that it moves,
\* the host it probed, and the host of the row that it adopts.
Ready(t) ==
    \A i \in 1..Len(t.todo) :
        /\ t.todo[i] = "write_connection" =>
              \/ i > 1 /\ t.todo[i - 1] = "read_connection"
              \/ i = 1 /\ (HasConn(t.conn) => t.seen = conns[t.conn].host)
        /\ t.todo[i] = "record" =>
              \/ t.project = EnvProject /\ EnvProject # NoProject
              \/ i = 2 /\ t.todo[1] = "git_target_for"
              \/ /\ i = 1
                 /\ HasConn(t.conn) => t.host = conns[t.conn].host
                 /\ t.conn = NoConn => EnvProject # NoProject
        /\ t.todo[i] = "carry_verification" =>
              \/ i = 2 /\ t.todo[1] = "create_connection" /\ t.host = legacy.host
              \/ i = 1 /\ (HasConn(t.conn) => legacy.host = conns[t.conn].host)

\* The request t has a default repository to name, or is about to look for one.
Tidy(t) ==
    \/ t.op = "create_git_repository" /\ t.conn \in Conns
       /\ \/ t.todo = <<"default_repository", "insert_repository">>
          \/ t.todo = <<"insert_repository">> /\ (t.make \/ Defaults # {})
    \/ t.op \in {"delete_git_repository", "delete_git_connection"}
       /\ \/ t.todo \in {<<"purge", "ensure_default">>, <<"drop_repository", "ensure_default">>}
          \/ t.todo = <<"ensure_default">>
    \/ t.todo = <<"set_default">> /\ t.repo \in Repos /\ HasRepo(t.repo)

ReadyInv == \A w \in Workers : work[w].alone => Ready(work[w])
TidyInv == \A w \in Workers : work[w].alone /\ work[w].op \in Tidying => Tidy(work[w])

IInv == Types /\ AloneInv /\ ReadyInv /\ TidyInv /\ ProofIsCurrent

-----------------------------------------------------------------------------
(* Rows and ids.                                                             *)

LEMMA Smallest ==
    ASSUME NEW S \in SUBSET Nat, S # {}
    PROVE  \E n \in S : \A k \in S : n <= k
<1> DEFINE R == OpToRel(<, Nat)
<1>1. IsWellFoundedOn(R, Nat)
  BY NatLessThanWellFounded, Zenon
<1>2. PICK n \in S : \A k \in S : ~(<<k, n>> \in R)
  <2> HIDE DEF R
  <2> QED BY <1>1, WFMin
<1>3. \A k \in S : ~(k < n)
  BY <1>2 DEF OpToRel
<1> QED BY <1>3

LEMMA OldestIsOne ==
    ASSUME NEW S \in SUBSET Nat, S # {}
    PROVE  Oldest(S) \in S
BY Smallest DEF Oldest

\* The next id is new.
LEMMA NextIdIsNew ==
    ASSUME NEW n \in Nat, NEW S \in SUBSET (1..n)
    PROVE  NextId(S) \notin S
<1>1. CASE S = {}
  BY <1>1
<1>2. CASE S # {}
  <2> DEFINE below == {n - i : i \in S}
  <2>1. below \in SUBSET Nat /\ below # {}
    <3>1. \A i \in S : i \in Nat /\ n - i \in Nat
      OBVIOUS
    <3> QED BY <1>2, <3>1
  <2>2. PICK k \in below : \A m \in below : k <= m
    <3> HIDE DEF below
    <3> QED BY <2>1, Smallest
  <2>3. PICK i \in S : k = n - i
    OBVIOUS
  <2>4. \A j \in S : j <= i
    <3> SUFFICES ASSUME NEW j \in S PROVE j <= i
      OBVIOUS
    <3>1. n - j \in below
      OBVIOUS
    <3>2. n - i <= n - j
      BY <2>2, <2>3, <3>1
    <3>3. i \in Int /\ j \in Int
      OBVIOUS
    <3> HIDE DEF below
    <3> QED BY <3>2, <3>3
  <2> DEFINE top == CHOOSE a \in S : \A j \in S : j <= a
  <2>5. top \in S /\ \A j \in S : j <= top
    BY <2>4
  <2>6. NextId(S) = 1 + top
    BY <1>2 DEF NextId
  <2> HIDE DEF top
  <2> QED BY <2>5, <2>6
<1> QED BY <1>1, <1>2

LEMMA Ids == Conns \in SUBSET Nat /\ Repos \in SUBSET Nat /\ NoConn \notin Conns /\ NoRepo \notin Repos
BY IdBounds DEF Conns, Repos, NoConn, NoRepo

LEMMA DefaultIsNamed ==
    ASSUME Types
    PROVE  /\ default_repository \in Repos \cup {NoRepo}
           /\ default_repository # NoRepo => Defaults # {}
<1> DEFINE named == {r \in Defaults : HasConn(repos[r].conn)}
<1>1. named \in SUBSET Repos /\ named \subseteq Defaults
  BY DEF Defaults, repositories
<1>2. named # {} => Oldest(named) \in named
  <2> HIDE DEF named
  <2> QED BY <1>1, Ids, OldestIsOne
<1>3. default_repository = IF named = {} THEN NoRepo ELSE Oldest(named)
  BY DEF default_repository
<1> HIDE DEF named
<1> QED BY <1>1, <1>2, <1>3

LEMMA DefaultConnection == ASSUME Types PROVE default_connection \in Conns \cup {NoConn}
<1>1. default_repository # NoRepo => repos[default_repository].conn \in Conns \cup {NoConn}
  BY DefaultIsNamed DEF Types, Repository
<1>2. connections # {} => Oldest(connections) \in Conns
  <2>1. connections \in SUBSET Conns
    BY DEF connections
  <2> QED BY <2>1, Ids, OldestIsOne
<1> QED BY <1>1, <1>2 DEF default_connection

LEMMA NamedIsThere ==
    ASSUME Types, NEW h, Named(h) # {}
    PROVE  Oldest(Named(h)) \in Conns
<1>1. Named(h) \in SUBSET Conns
  BY DEF Named, connections
<1> QED BY <1>1, Ids, OldestIsOne

LEMMA NoRequestType ==
    /\ NoRequest \in Request /\ NoRequest.todo = <<>> /\ NoRequest.op = "idle" /\ NoRequest.alone
    /\ NoRequest.conn = NoConn /\ NoRequest.repo = NoRepo /\ NoRequest.project = NoProject
<1>1. /\ NoRequest.todo = <<>> /\ NoRequest.op = "idle" /\ NoRequest.alone
      /\ NoRequest.conn = NoConn /\ NoRequest.repo = NoRepo /\ NoRequest.project = NoProject
  BY DEF NoRequest
<1>2. NoRequest \in Request
  BY DEF NoRequest, Request, Handlers
<1> QED BY <1>1, <1>2

-----------------------------------------------------------------------------
(* A request goes on.                                                        *)

\* The steps that come first next rely on none before them.
Steady(t, more) ==
    \A i \in 1..Len(more) :
        /\ more[i] # "carry_verification"
        /\ more[i] = "write_connection" => i > 1 /\ more[i - 1] = "read_connection"
        /\ more[i] = "record" => t.project = EnvProject /\ EnvProject # NoProject

\* The connection c is there after the step.
Stands(c) == c # NoConn /\ conns'[c].host # NoHost

\* What the request me hands to its next step, as t.
Handed(me, t, more) ==
    /\ t.project = me.project \/ (t.project = EnvProject /\ EnvProject # NoProject)
    /\ Steady(t, more)
    /\ Head(me.todo) = "read_connection" =>
          more = <<>> /\ (Stands(t.conn) => t.seen = conns'[t.conn].host)
    /\ Head(me.todo) = "git_target_for" =>
          /\ more = <<>>
          /\ Stands(t.conn) => t.host = conns'[t.conn].host
          /\ t.conn = NoConn => EnvProject # NoProject
    /\ Head(me.todo) = "create_connection" =>
          more = <<>> /\ t.host = me.host /\ (Stands(t.conn) => t.host = conns'[t.conn].host)

Ended(w) == work'[w] = NoRequest

GoesOn(w) ==
    \E t \in Request, more \in Seq(Transactions) :
        /\ t.todo = work[w].todo /\ t.alone = work[w].alone /\ t.op = work[w].op
        /\ work'[w] = [t EXCEPT !.todo = more \o Tail(t.todo)]
        /\ t.alone => Handed(work[w], t, more)

Steps(w) ==
    /\ work[w].todo # <<>>
    /\ Ended(w) \/ GoesOn(w)
    /\ work' = [work EXCEPT ![w] = work'[w]]
    /\ legacy' = legacy
    /\ connMishaps' = connMishaps

\* The steps still to do, after this one.
LEMMA Rest ==
    ASSUME NEW todo \in Seq(Transactions), todo # <<>>, NEW more \in Seq(Transactions)
    PROVE  /\ more \o Tail(todo) \in Seq(Transactions)
           /\ Len(more \o Tail(todo)) = Len(more) + Len(todo) - 1
           /\ Len(more) \in Nat /\ Len(todo) \in Nat \ {0}
           /\ todo[1] = Head(todo)
           /\ \A i \in 1..(Len(more) + Len(todo) - 1) :
                 (more \o Tail(todo))[i] = IF i <= Len(more) THEN more[i] ELSE todo[i - Len(more) + 1]
<1>1. /\ Tail(todo) \in Seq(Transactions) /\ Len(Tail(todo)) = Len(todo) - 1 /\ Len(todo) \in Nat \ {0}
      /\ \A i \in 1..(Len(todo) - 1) : Tail(todo)[i] = todo[i + 1]
  BY HeadTailProperties, EmptySeq, LenProperties
<1>2. /\ Len(more) \in Nat
      /\ more \o Tail(todo) \in Seq(Transactions)
      /\ Len(more \o Tail(todo)) = Len(more) + Len(Tail(todo))
      /\ \A i \in 1..(Len(more) + Len(Tail(todo))) :
            (more \o Tail(todo))[i] = IF i <= Len(more) THEN more[i] ELSE Tail(todo)[i - Len(more)]
  BY <1>1, ConcatProperties, LenProperties
<1>3. ASSUME NEW i \in 1..(Len(more) + Len(todo) - 1)
      PROVE  (more \o Tail(todo))[i] = IF i <= Len(more) THEN more[i] ELSE todo[i - Len(more) + 1]
  <2>1. CASE i <= Len(more)
    BY <1>1, <1>2, <2>1
  <2>2. CASE i > Len(more)
    <3>1. i - Len(more) \in 1..(Len(todo) - 1)
      BY <1>1, <1>2, <2>2
    <3> QED BY <1>1, <1>2, <2>2, <3>1
  <2> QED BY <1>2, <2>1, <2>2
<1>4. todo[1] = Head(todo)
  OBVIOUS
<1> QED BY <1>1, <1>2, <1>3, <1>4

\* What a step handed on is ready for the next one.
LEMMA HandedIsReady ==
    ASSUME NEW me \in Request, me.todo # <<>>, Ready(me),
           NEW t \in Request, t.todo = me.todo, NEW more \in Seq(Transactions),
           Handed(me, t, more), legacy' = legacy
    PROVE  Ready([t EXCEPT !.todo = more \o Tail(t.todo)])'
<1> DEFINE n == me.todo
           rest == more \o Tail(n)
           next == [t EXCEPT !.todo = more \o Tail(t.todo)]
<1>1. /\ n \in Seq(Transactions) /\ n # <<>>
  BY DEF Request
<1>2. /\ Len(rest) = Len(more) + Len(n) - 1
      /\ Len(more) \in Nat /\ Len(n) \in Nat \ {0}
      /\ n[1] = Head(n)
      /\ \A i \in 1..(Len(more) + Len(n) - 1) :
            rest[i] = IF i <= Len(more) THEN more[i] ELSE n[i - Len(more) + 1]
  <2> HIDE DEF n
  <2> QED BY <1>1, Rest
<1>3. /\ next.todo = rest /\ next.conn = t.conn /\ next.seen = t.seen /\ next.host = t.host
      /\ next.project = t.project
  <2> HIDE DEF n
  <2> QED BY DEF Request, n
<1>4. more = <<>> => Len(more) = 0
  OBVIOUS
<1> SUFFICES ASSUME NEW i \in 1..Len(rest)
             PROVE  /\ rest[i] = "write_connection" =>
                          \/ i > 1 /\ rest[i - 1] = "read_connection"
                          \/ i = 1 /\ (Stands(t.conn) => t.seen = conns'[t.conn].host)
                    /\ rest[i] = "record" =>
                          \/ t.project = EnvProject /\ EnvProject # NoProject
                          \/ i = 2 /\ rest[1] = "git_target_for"
                          \/ /\ i = 1
                             /\ Stands(t.conn) => t.host = conns'[t.conn].host
                             /\ t.conn = NoConn => EnvProject # NoProject
                    /\ rest[i] = "carry_verification" =>
                          \/ i = 2 /\ rest[1] = "create_connection" /\ t.host = legacy'.host
                          \/ i = 1 /\ (Stands(t.conn) => legacy'.host = conns'[t.conn].host)
  <2> HIDE DEF rest
  <2> QED BY <1>3 DEF Ready, HasConn, Stands
<1> HIDE DEF rest, n, next
<1>5. CASE i <= Len(more)
  <2>1. rest[i] = more[i] /\ (i > 1 => rest[i - 1] = more[i - 1])
    BY <1>2, <1>5
  <2> QED BY <1>2, <1>5, <2>1 DEF Handed, Steady
<1>6. CASE i > Len(more)
  <2> DEFINE k == i - Len(more) + 1
  <2>1. k \in 2..Len(n) /\ rest[i] = n[k]
    BY <1>2, <1>6
  <2>2. k > 2 => i > 1 /\ rest[i - 1] = n[k - 1]
    BY <1>2, <1>6
  <2>3. k = 2 /\ Len(more) = 0 => i = 1
    BY <1>2
  <2>4. /\ n[k] = "write_connection" => n[k - 1] = "read_connection"
        /\ n[k] = "record" =>
              \/ me.project = EnvProject /\ EnvProject # NoProject
              \/ k = 2 /\ n[1] = "git_target_for"
        /\ n[k] = "carry_verification" => k = 2 /\ n[1] = "create_connection" /\ me.host = legacy.host
    BY <2>1 DEF Ready, n
  <2> HIDE DEF k
  <2>5. n[k] = "write_connection" =>
           \/ i > 1 /\ rest[i - 1] = "read_connection"
           \/ i = 1 /\ (Stands(t.conn) => t.seen = conns'[t.conn].host)
    <3>1. CASE k = 2
      BY <1>2, <1>4, <2>3, <2>4, <3>1 DEF Handed, n
    <3> QED BY <2>1, <2>2, <2>4, <3>1
  <2>6. n[k] = "record" =>
           \/ t.project = EnvProject /\ EnvProject # NoProject
           \/ /\ i = 1
              /\ Stands(t.conn) => t.host = conns'[t.conn].host
              /\ t.conn = NoConn => EnvProject # NoProject
    BY <1>2, <1>4, <2>3, <2>4 DEF Handed, n
  <2>7. n[k] = "carry_verification" => i = 1 /\ (Stands(t.conn) => legacy'.host = conns'[t.conn].host)
    BY <1>2, <1>4, <2>3, <2>4 DEF Handed, n
  <2> QED BY <2>1, <2>5, <2>6, <2>7
<1> QED BY <1>2, <1>5, <1>6

-----------------------------------------------------------------------------
(* What each action does to its request.                                     *)

LEMMA ThenSteps ==
    ASSUME Types, NEW w \in Workers, work[w].todo # <<>>,
           NEW t \in Request, t.todo = work[w].todo, t.alone = work[w].alone, t.op = work[w].op,
           NEW more \in Seq(Transactions), Then(w, t, more), t.alone => Handed(work[w], t, more),
           legacy' = legacy
    PROVE  Steps(w)
<1>1. work \in [Workers -> Request] /\ work[w] # NoRequest
  BY NoRequestType DEF Types
<1>2. /\ work' = [work EXCEPT ![w] = IF more \o Tail(t.todo) = <<>> THEN NoRequest
                                     ELSE [t EXCEPT !.todo = more \o Tail(t.todo)]]
      /\ connMishaps' = connMishaps
  BY DEF Then
<1>3. work' = [work EXCEPT ![w] = work'[w]]
  BY <1>1, <1>2
<1>4. Ended(w) \/ work'[w] = [t EXCEPT !.todo = more \o Tail(t.todo)]
  BY <1>1, <1>2 DEF Ended
<1> QED BY <1>1, <1>2, <1>3, <1>4 DEF Steps, GoesOn

LEMMA RaisesSteps ==
    ASSUME Types, NEW w \in Workers, work[w].todo # <<>>, Raises(w)
    PROVE  Steps(w) /\ conns' = conns /\ repos' = repos
<1>1. work \in [Workers -> Request] /\ work[w] # NoRequest
  BY NoRequestType DEF Types
<1> QED BY <1>1 DEF Raises, Steps, Ended, tables

\* The steps that some step puts first.
Detours == {<<>>, <<"connection_for">>, <<"set_default">>, <<"insert_repository">>,
            <<"read_connection", "write_connection">>, <<"write_repository", "set_default">>, Shim}

LEMMA DetoursType == Detours \subseteq Seq(Transactions)
BY DEF Detours, Transactions, Shim

LEMMA DetoursAreSteady ==
    ASSUME NEW t, NEW more \in Detours
    PROVE  Steady(t, more)
<1>1. CASE more = <<>>
  BY <1>1 DEF Steady
<1>2. CASE more \in {<<"connection_for">>, <<"set_default">>, <<"insert_repository">>}
  <2>1. Len(more) = 1 /\ more[1] \in {"connection_for", "set_default", "insert_repository"}
    BY <1>2
  <2> QED BY <2>1 DEF Steady
<1>3. CASE more \in {<<"read_connection", "write_connection">>, <<"write_repository", "set_default">>}
  <2>1. /\ Len(more) = 2
        /\ \/ more[1] = "read_connection" /\ more[2] = "write_connection"
           \/ more[1] = "write_repository" /\ more[2] = "set_default"
    BY <1>3
  <2> QED BY <2>1 DEF Steady
<1>4. CASE more = Shim
  <2>1. Len(more) = 3 /\ more[1] = "shim_connection" /\ more[2] = "unverify" /\ more[3] = "place_project"
    BY <1>4 DEF Shim
  <2> QED BY <2>1 DEF Steady
<1> QED BY <1>1, <1>2, <1>3, <1>4 DEF Detours

\* A step that hands nothing on that a later one relies on.
LEMMA PlainSteps ==
    ASSUME Types, NEW w \in Workers, work[w].todo # <<>>,
           Head(work[w].todo) \notin {"read_connection", "git_target_for", "create_connection"},
           NEW t \in Request, t.todo = work[w].todo, t.alone = work[w].alone, t.op = work[w].op,
           t.project = work[w].project \/ (t.project = EnvProject /\ EnvProject # NoProject),
           NEW more \in Detours, Then(w, t, more), legacy' = legacy
    PROVE  Steps(w)
<1>1. Handed(work[w], t, more)
  BY DetoursAreSteady DEF Handed
<1> QED BY <1>1, DetoursType, ThenSteps

\* The steps that leave connections and repositories alone.
LEMMA ReadsStep ==
    ASSUME IInv, NEW w \in Workers,
           \/ _ensure_default_repository(w) \/ _store_sealed(w) \/ create_repository(w)
           \/ _default_connection(w) \/ _shim_connection(w) \/ _adopt_one(w)
           \/ _adopt_credential(w) \/ reseal(w) \/ seed_git_config_from_env(w) \/ serve(w)
    PROVE  Steps(w) /\ conns' = conns /\ repos' = repos
<1> DEFINE t == work[w]
<1>1. /\ t \in Request /\ Types /\ t.todo # <<>>
      /\ Head(t.todo) \in {"ensure_default", "store_sealed", "default_repository", "default_connection",
                           "shim_connection", "adopt_project", "attach_credential", "reseal", "seed", "serve"}
  BY DEF IInv, Types, RequestAt, _ensure_default_repository, _store_sealed, create_repository,
     _default_connection, _shim_connection, _adopt_one, _adopt_credential, reseal,
     seed_git_config_from_env, serve
<1>2. {<<>>, <<"set_default">>, <<"insert_repository">>, <<"connection_for">>,
       <<"read_connection", "write_connection">>, Shim} \subseteq Detours
  BY DEF Detours
<1>3. ASSUME NEW more \in Detours, Then(w, t, more), legacy' = legacy PROVE Steps(w)
  BY <1>1, <1>3, PlainSteps
<1>4. CASE _ensure_default_repository(w)
  <2>1. UNCHANGED tables
    BY <1>4 DEF _ensure_default_repository
  <2>2. CASE Then(w, t, <<>>)
    BY <1>2, <1>3, <2>1, <2>2 DEF tables
  <2>3. CASE repositories # {} /\ Then(w, [t EXCEPT !.repo = Oldest(repositories)], <<"set_default">>)
    <3>1. repositories \in SUBSET Repos
      BY DEF repositories
    <3>2. Oldest(repositories) \in Repos
      BY <2>3, <3>1, Ids, OldestIsOne
    <3>3. PICK r \in Repos : r = Oldest(repositories)
      BY <3>2
    <3> DEFINE next == [t EXCEPT !.repo = r]
    <3>4. /\ next \in Request /\ next.todo = t.todo /\ next.alone = t.alone /\ next.op = t.op
          /\ next.project = t.project
      BY <1>1 DEF Request
    <3>5. Then(w, next, <<"set_default">>)
      BY <2>3, <3>3
    <3> HIDE DEF next, t
    <3> QED BY <1>1, <1>2, <2>1, <3>4, <3>5, PlainSteps DEF tables, t
  <2> QED BY <1>4, <2>2, <2>3 DEF _ensure_default_repository
<1>5. CASE _store_sealed(w)
  <2>1. CASE Raises(w)
    BY <1>1, <2>1, RaisesSteps
  <2>2. CASE Then(w, t, <<>>) /\ UNCHANGED <<conns, repos, legacy>>
    BY <1>2, <1>3, <2>2
  <2> QED BY <1>5, <2>1, <2>2 DEF _store_sealed
<1>6. CASE create_repository(w)
  <2> DEFINE b == t.make \/ default_repository = NoRepo
             next == [t EXCEPT !.make = b]
  <2>1. UNCHANGED tables /\ Then(w, next, <<>>)
    BY <1>6 DEF create_repository
  <2>2. b \in BOOLEAN
    OBVIOUS
  <2> HIDE DEF b
  <2>3. /\ next \in Request /\ next.todo = t.todo /\ next.alone = t.alone /\ next.op = t.op
        /\ next.project = t.project
    BY <1>1, <2>2 DEF Request
  <2> HIDE DEF next, t
  <2> QED BY <1>1, <1>2, <2>1, <2>3, PlainSteps DEF tables, t
<1>7. CASE _default_connection(w)
  <2>1. UNCHANGED tables
    BY <1>7 DEF _default_connection
  <2>2. CASE Then(w, t, <<"connection_for">>)
    BY <1>2, <1>3, <2>1, <2>2 DEF tables
  <2>3. CASE Then(w, [t EXCEPT !.conn = default_connection], <<>>)
    <3> DEFINE next == [t EXCEPT !.conn = default_connection]
    <3>1. /\ next \in Request /\ next.todo = t.todo /\ next.alone = t.alone /\ next.op = t.op
          /\ next.project = t.project
      BY <1>1, DefaultConnection DEF Request
    <3> HIDE DEF next, t
    <3> QED BY <1>1, <1>2, <2>1, <2>3, <3>1, PlainSteps DEF tables, next, t
  <2> QED BY <1>7, <2>2, <2>3 DEF _default_connection
<1>8. CASE _shim_connection(w)
  <2>1. UNCHANGED tables
    BY <1>8 DEF _shim_connection
  <2>2. PICK c \in Conns \cup {NoConn}, more \in {<<>>, <<"read_connection", "write_connection">>, <<"connection_for">>} :
           Then(w, t, more) \/ Then(w, [t EXCEPT !.conn = c], more)
    <3>1. CASE Named(t.host) # {}
      <4>1. Oldest(Named(t.host)) \in Conns
        BY <1>1, <3>1, NamedIsThere
      <4>2. Then(w, [t EXCEPT !.conn = Oldest(Named(t.host))], <<>>)
        BY <1>8, <3>1 DEF _shim_connection
      <4> QED BY <4>1, <4>2
    <3>2. CASE Named(t.host) = {}
      <4> DEFINE editable == IF default_repository # NoRepo THEN repos[default_repository].conn
                             ELSE IF Cardinality(connections) = 1 THEN Oldest(connections) ELSE NoConn
      <4>1. \/ editable # NoConn /\ Then(w, [t EXCEPT !.conn = editable], <<"read_connection", "write_connection">>)
            \/ Then(w, t, <<"connection_for">>)
        BY <1>8, <3>2 DEF _shim_connection
      <4>2. default_repository # NoRepo => editable \in Conns \cup {NoConn}
        BY <1>1, DefaultIsNamed DEF Types, Repository
      <4>3. default_repository = NoRepo /\ connections # {} => Oldest(connections) \in Conns
        <5>1. connections \in SUBSET Conns
          BY DEF connections
        <5> QED BY <5>1, Ids, OldestIsOne
      <4>4. default_repository = NoRepo /\ connections = {} => editable = NoConn
        BY FS_EmptySet
      <4>5. editable \in Conns \cup {NoConn}
        BY <4>2, <4>3, <4>4
      <4> HIDE DEF editable
      <4> QED BY <4>1, <4>5
    <3> QED BY <3>1, <3>2
  <2>3. more \in Detours
    BY DEF Detours
  <2>4. CASE Then(w, t, more)
    BY <1>3, <2>1, <2>3, <2>4 DEF tables
  <2>5. CASE Then(w, [t EXCEPT !.conn = c], more)
    <3> DEFINE next == [t EXCEPT !.conn = c]
    <3>1. /\ next \in Request /\ next.todo = t.todo /\ next.alone = t.alone /\ next.op = t.op
          /\ next.project = t.project
      BY <1>1 DEF Request
    <3> HIDE DEF next, t
    <3> QED BY <1>1, <2>1, <2>3, <2>5, <3>1, PlainSteps DEF tables, next, t
  <2> QED BY <2>1, <2>2, <2>4, <2>5 DEF tables
<1>9. CASE _adopt_one(w)
  <2>1. CASE Raises(w)
    BY <1>1, <2>1, RaisesSteps
  <2>2. CASE Then(w, t, <<>>) /\ UNCHANGED tables
    BY <1>2, <1>3, <2>2 DEF tables
  <2>3. CASE Then(w, [t EXCEPT !.make = TRUE], <<"insert_repository">>) /\ UNCHANGED tables
    <3> DEFINE next == [t EXCEPT !.make = TRUE]
    <3>1. /\ next \in Request /\ next.todo = t.todo /\ next.alone = t.alone /\ next.op = t.op
          /\ next.project = t.project
      BY <1>1 DEF Request
    <3> HIDE DEF next, t
    <3> QED BY <1>1, <1>2, <2>3, <3>1, PlainSteps DEF tables, next, t
  <2> QED BY <1>9, <2>1, <2>2, <2>3 DEF _adopt_one
<1>10. CASE _adopt_credential(w)
  <2>1. CASE Raises(w)
    BY <1>1, <2>1, RaisesSteps
  <2>2. CASE Then(w, t, <<>>) /\ UNCHANGED <<conns, repos, legacy>>
    BY <1>2, <1>3, <2>2
  <2> QED BY <1>10, <2>1, <2>2 DEF _adopt_credential, tables
<1>11. CASE reseal(w)
  BY <1>2, <1>3, <1>11 DEF reseal
<1>12. CASE seed_git_config_from_env(w)
  <2>1. UNCHANGED tables
    BY <1>12 DEF seed_git_config_from_env
  <2>2. CASE Then(w, t, <<>>)
    BY <1>2, <1>3, <2>1, <2>2 DEF tables
  <2>3. CASE EnvProject # NoProject /\ Then(w, [t EXCEPT !.host = EnvHost, !.project = EnvProject], Shim)
    <3> DEFINE next == [t EXCEPT !.host = EnvHost, !.project = EnvProject]
    <3>1. /\ next \in Request /\ next.todo = t.todo /\ next.alone = t.alone /\ next.op = t.op
          /\ next.project = EnvProject
      BY <1>1, Environment DEF Request
    <3> HIDE DEF next, t
    <3> QED BY <1>1, <1>2, <2>1, <2>3, <3>1, PlainSteps DEF tables, next, t
  <2> QED BY <1>12, <2>2, <2>3 DEF seed_git_config_from_env
<1>13. CASE serve(w)
  <2>1. work \in [Workers -> Request] /\ work[w] # NoRequest
    BY <1>1, NoRequestType DEF Types
  <2>2. work' = [work EXCEPT ![w] = NoRequest] /\ UNCHANGED <<tables, connMishaps>>
    BY <1>13 DEF serve
  <2>3. work'[w] = NoRequest
    BY <2>1, <2>2
  <2> QED BY <1>1, <2>2, <2>3 DEF Steps, Ended, tables
<1> QED BY <1>4, <1>5, <1>6, <1>7, <1>8, <1>9, <1>10, <1>11, <1>12, <1>13

-----------------------------------------------------------------------------
(* The connections.                                                          *)

\* What a step may leave of the connections.
ConnsKept == conns' \in [Conns -> Connection] /\ ProofIsCurrent'

LEMMA SameConns == ASSUME IInv, conns' = conns PROVE ConnsKept
BY DEF IInv, Types, ConnsKept, ProofIsCurrent, connections, HasConn

\* A row is written, and what it says it proves is of its host.
LEMMA WriteConn ==
    ASSUME IInv, NEW c \in Conns, NEW entry \in Connection, conns' = [conns EXCEPT ![c] = entry],
           entry.verify # "never" => entry.proved \in {entry.host, NoHost}
    PROVE  ConnsKept
<1>1. conns \in [Conns -> Connection] /\ conns' \in [Conns -> Connection]
  BY DEF IInv, Types
<1>2. ASSUME NEW d \in connections', conns'[d].verify # "never"
      PROVE  conns'[d].proved \in {conns'[d].host, NoHost}
  <2>1. CASE d = c
    BY <1>1, <1>2, <2>1
  <2>2. CASE d # c
    <3>1. d \in Conns /\ conns'[d] = conns[d]
      BY <1>1, <1>2, <2>2 DEF connections
    <3>2. d \in connections
      BY <1>2, <3>1 DEF connections, HasConn
    <3> QED BY <1>2, <3>1, <3>2 DEF IInv, ProofIsCurrent
  <2> QED BY <2>1, <2>2
<1> QED BY <1>1, <1>2 DEF ConnsKept, ProofIsCurrent

\* _patch_connection, where a request that is alone proves the host of the row.
LEMMA PatchConn ==
    ASSUME IInv, NEW t \in Request, HasConn(t.conn), NEW verify \in Verdicts,
           NEW proved \in Hosts \cup {NoHost}, conns' = Patched(t, verify, proved),
           t.alone /\ verify # "never" => proved \in {conns[t.conn].host, NoHost}
    PROVE  ConnsKept
<1> DEFINE c == t.conn
           why == IF t.alone THEN proved ELSE NoHost
           entry == [host |-> conns[c].host, verify |-> verify, proved |-> why]
<1>1. c \in Conns /\ conns \in [Conns -> Connection] /\ conns[c] \in Connection
  BY DEF HasConn, Request, IInv, Types
<1>2. conns' = [conns EXCEPT ![c].verify = verify, ![c].proved = why]
  BY DEF Patched
<1>3. why \in Hosts \cup {NoHost} /\ (verify # "never" => why \in {conns[c].host, NoHost})
  OBVIOUS
<1> HIDE DEF why
<1>4. entry \in Connection
  BY <1>1, <1>3 DEF Connection
<1>5. conns' = [conns EXCEPT ![c] = entry]
  <2>1. [conns[c] EXCEPT !.verify = verify, !.proved = why] = entry
    <3> DEFINE old == conns[c]
               half == [old EXCEPT !.verify = verify]
    <3>1. old \in Connection
      BY <1>1
    <3> HIDE DEF old, c
    <3>2. half = [host |-> old.host, verify |-> verify, proved |-> old.proved] /\ half \in Connection
      BY <3>1 DEF Connection
    <3> HIDE DEF half
    <3>3. [half EXCEPT !.proved = why] = [host |-> half.host, verify |-> half.verify, proved |-> why]
      BY <3>2 DEF Connection
    <3>4. [old EXCEPT !.verify = verify, !.proved = why] = [half EXCEPT !.proved = why]
      BY DEF half
    <3> QED BY <3>2, <3>3, <3>4 DEF old, c
  <2> HIDE DEF c, entry
  <2>2. conns' = [conns EXCEPT ![c] = [conns[c] EXCEPT !.verify = verify, !.proved = why]]
    BY <1>1, <1>2
  <2> QED BY <2>1, <2>2
<1> HIDE DEF c
<1> QED BY <1>1, <1>3, <1>4, <1>5, WriteConn

\* A new connection proves nothing.
LEMMA NewConn ==
    ASSUME IInv, NEW c \in Conns, NEW h \in Hosts \cup {NoHost},
           conns' = [conns EXCEPT ![c] = [NoConnection EXCEPT !.host = h]]
    PROVE  ConnsKept /\ conns'[c].host = h
<1> DEFINE entry == [NoConnection EXCEPT !.host = h]
<1>1. entry \in Connection /\ entry.verify = "never" /\ entry.host = h
  BY DEF NoConnection, Connection, Verdicts
<1> HIDE DEF entry
<1>2. ConnsKept
  BY <1>1, WriteConn DEF entry
<1> QED BY <1>1, <1>2 DEF IInv, Types, entry

\* The steps that write connections.
LEMMA CreateStep ==
    ASSUME IInv, NEW w \in Workers, create_connection(w) \/ _connection_for(w)
    PROVE  Steps(w) /\ ConnsKept /\ repos' = repos
<1> DEFINE t == work[w]
           c == NextId(connections)
           found == Oldest(Named(t.host))
<1>1. /\ t \in Request /\ Types /\ t.todo # <<>>
      /\ create_connection(w) => Head(t.todo) = "create_connection"
      /\ _connection_for(w) => Head(t.todo) = "connection_for"
  BY DEF IInv, Types, RequestAt, create_connection, _connection_for
<1>2. CASE Raises(w)
  BY <1>1, <1>2, RaisesSteps, SameConns
<1>3. CASE /\ c \in Conns
           /\ conns' = [conns EXCEPT ![c] = [NoConnection EXCEPT !.host = t.host]]
           /\ Then(w, [t EXCEPT !.conn = c], <<>>)
           /\ UNCHANGED <<repos, secrets, legacy>>
  <2> DEFINE next == [t EXCEPT !.conn = c]
  <2>1. /\ next \in Request /\ next.todo = t.todo /\ next.alone = t.alone /\ next.op = t.op
        /\ next.project = t.project /\ next.conn = c /\ next.host = t.host
    <3> HIDE DEF c
    <3> QED BY <1>1, <1>3 DEF Request
  <2>2. t.host \in Hosts \cup {NoHost}
    BY <1>1 DEF Request
  <2>3. ConnsKept /\ conns'[c].host = t.host
    <3> HIDE DEF c
    <3> QED BY <1>3, <2>2, NewConn
  <2> HIDE DEF next
  <2>4. Handed(t, next, <<>>)
    <3>1. Steady(next, <<>>)
      BY DetoursAreSteady DEF Detours
    <3> HIDE DEF t, c
    <3> QED BY <1>1, <2>1, <2>3, <3>1 DEF Handed, t
  <2>5. <<>> \in Seq(Transactions)
    OBVIOUS
  <2> HIDE DEF t, c
  <2>6. Steps(w)
    BY <1>1, <1>3, <2>1, <2>4, <2>5, ThenSteps DEF next, t
  <2> QED BY <1>3, <2>3, <2>6
<1>4. CASE Named(t.host) # {} /\ Then(w, [t EXCEPT !.conn = found], <<>>) /\ UNCHANGED tables /\ _connection_for(w)
  <2> DEFINE next == [t EXCEPT !.conn = found]
  <2>1. found \in Conns
    BY <1>1, <1>4, NamedIsThere
  <2>2. /\ next \in Request /\ next.todo = t.todo /\ next.alone = t.alone /\ next.op = t.op
        /\ next.project = t.project
    <3> HIDE DEF found
    <3> QED BY <1>1, <2>1 DEF Request
  <2>3. <<>> \in Detours /\ ConnsKept
    BY <1>4, SameConns DEF Detours, tables
  <2> HIDE DEF t, next
  <2> QED BY <1>1, <1>4, <2>2, <2>3, PlainSteps DEF tables, t, next
<1> QED BY <1>2, <1>3, <1>4 DEF create_connection, _connection_for

LEMMA WriteConnectionStep ==
    ASSUME IInv, NEW w \in Workers, write_connection(w)
    PROVE  Steps(w) /\ ConnsKept /\ repos' = repos
<1> DEFINE t == work[w]
           entry == conns[t.conn]
           moved == t.host # t.seen
           written == [host |-> t.host, verify |-> IF moved THEN "never" ELSE entry.verify,
                       proved |-> IF moved \/ ~t.alone THEN NoHost ELSE entry.proved]
<1>1. /\ t \in Request /\ Types /\ t.todo # <<>> /\ Head(t.todo) = "write_connection"
  BY DEF IInv, Types, RequestAt, write_connection
<1>2. CASE Raises(w)
  BY <1>1, <1>2, RaisesSteps, SameConns
<1>3. CASE Then(w, t, <<"connection_for">>) /\ UNCHANGED tables
  <2>1. <<"connection_for">> \in Detours
    BY DEF Detours
  <2> QED BY <1>1, <1>3, <2>1, PlainSteps, SameConns DEF tables
<1>4. CASE /\ HasConn(t.conn)
           /\ conns' = [conns EXCEPT ![t.conn] = written]
           /\ Then(w, [t EXCEPT !.seen = NoHost], <<>>)
           /\ UNCHANGED <<repos, secrets, legacy>>
  <2>1. t.conn \in Conns /\ entry \in Connection
    BY <1>1, <1>4 DEF HasConn, Request, Types
  <2>2. written \in Connection
    <3>1. t.host \in Hosts \cup {NoHost} /\ t.alone \in BOOLEAN
      BY <1>1 DEF Request
    <3> HIDE DEF entry
    <3> QED BY <2>1, <3>1 DEF Connection, Verdicts
  <2>3. t.alone => t.seen = entry.host
    <3>1. SUFFICES ASSUME t.alone PROVE t.seen = entry.host
      OBVIOUS
    <3>2. Ready(t)
      BY <3>1 DEF IInv, ReadyInv
    <3>3. 1 \in 1..Len(t.todo) /\ t.todo[1] = "write_connection"
      BY <1>1 DEF Request
    <3> QED BY <1>4, <3>2, <3>3 DEF Ready
  <2>4. written.verify # "never" => written.proved \in {written.host, NoHost}
    <3>1. SUFFICES ASSUME ~moved, t.alone, entry.verify # "never" PROVE entry.proved \in {t.host, NoHost}
      OBVIOUS
    <3>2. t.conn \in connections
      BY <1>4, <2>1 DEF connections
    <3> QED BY <2>3, <3>1, <3>2 DEF IInv, ProofIsCurrent
  <2>5. ConnsKept
    <3> HIDE DEF written, t
    <3> QED BY <1>4, <2>1, <2>2, <2>4, WriteConn
  <2> DEFINE next == [t EXCEPT !.seen = NoHost]
  <2>6. /\ next \in Request /\ next.todo = t.todo /\ next.alone = t.alone /\ next.op = t.op
        /\ next.project = t.project
    BY <1>1 DEF Request
  <2>7. <<>> \in Detours
    BY DEF Detours
  <2> HIDE DEF next, t
  <2> QED BY <1>1, <1>4, <2>5, <2>6, <2>7, PlainSteps DEF next, t
<1> QED BY <1>2, <1>3, <1>4 DEF write_connection

LEMMA ReadConnectionStep ==
    ASSUME IInv, NEW w \in Workers, read_connection(w)
    PROVE  Steps(w) /\ ConnsKept /\ repos' = repos
<1> DEFINE t == work[w]
<1>1. /\ t \in Request /\ Types /\ t.todo # <<>> /\ Head(t.todo) = "read_connection"
  BY DEF IInv, Types, RequestAt, read_connection
<1>2. CASE Raises(w)
  BY <1>1, <1>2, RaisesSteps, SameConns
<1>3. CASE HasConn(t.conn) /\ ~Raises(w)
  <2> DEFINE h == conns[t.conn].host
             to == IF t.host = NoHost THEN h ELSE t.host
             next == [t EXCEPT !.seen = h, !.host = to]
  <2>1. Then(w, next, <<>>) /\ UNCHANGED tables
    BY <1>3 DEF read_connection
  <2>2. h \in Hosts \cup {NoHost} /\ to \in Hosts \cup {NoHost}
    BY <1>1, <1>3 DEF HasConn, Request, Types, Connection
  <2> HIDE DEF to
  <2>3. /\ next \in Request /\ next.todo = t.todo /\ next.alone = t.alone /\ next.op = t.op
        /\ next.project = t.project /\ next.conn = t.conn /\ next.seen = conns[t.conn].host
    BY <1>1, <2>2 DEF Request
  <2> HIDE DEF next
  <2>4. Handed(t, next, <<>>)
    <3>1. Steady(next, <<>>)
      BY DetoursAreSteady DEF Detours
    <3>2. next.seen = conns'[next.conn].host
      BY <2>1, <2>3 DEF tables
    <3> HIDE DEF t
    <3> QED BY <1>1, <2>3, <3>1, <3>2 DEF Handed, t
  <2>5. <<>> \in Seq(Transactions)
    OBVIOUS
  <2>6. Steps(w)
    <3> HIDE DEF t
    <3> QED BY <1>1, <2>1, <2>3, <2>4, <2>5, ThenSteps DEF tables, t
  <2> QED BY <2>1, <2>6, SameConns DEF tables
<1> QED BY <1>2, <1>3 DEF read_connection

\* A repository that is named is there, and its connection too.
LEMMA ResolvedIsThere ==
    ASSUME Types, NEW id \in Repos \cup {NoRepo}, NEW path,
           resolve_repository(id, path) # NoRepo
    PROVE  /\ resolve_repository(id, path) \in Repos
           /\ HasConn(repos[resolve_repository(id, path)].conn)
<1> DEFINE matches == {r \in repositories : repos[r].project = path}
           preferred == IF matches \cap Defaults = {} THEN matches ELSE matches \cap Defaults
           chosen == IF preferred = {} THEN NoRepo ELSE Oldest(preferred)
           named == {r \in Defaults : HasConn(repos[r].conn)}
<1>1. preferred \in SUBSET Repos /\ named \in SUBSET Repos
  BY DEF repositories, Defaults
<1>2. chosen # NoRepo => chosen \in Repos
  <2> HIDE DEF preferred
  <2> QED BY <1>1, Ids, OldestIsOne
<1>3. default_repository # NoRepo => default_repository \in named
  <2>1. default_repository = IF named = {} THEN NoRepo ELSE Oldest(named)
    BY DEF default_repository
  <2> HIDE DEF named
  <2> QED BY <1>1, <2>1, Ids, OldestIsOne
<1>4. \/ resolve_repository(id, path) = id /\ id # NoRepo /\ HasConn(repos[id].conn)
      \/ resolve_repository(id, path) = chosen /\ chosen # NoRepo /\ HasConn(repos[chosen].conn)
      \/ resolve_repository(id, path) = default_repository
  BY DEF resolve_repository
<1> HIDE DEF chosen
<1> QED BY <1>1, <1>2, <1>3, <1>4

LEMMA TargetStep ==
    ASSUME IInv, NEW w \in Workers, git_target_for(w)
    PROVE  Steps(w) /\ ConnsKept /\ repos' = repos
<1> DEFINE t == work[w]
           r == resolve_repository(t.repo, NoProject)
           c == repos[r].conn
<1>1. /\ t \in Request /\ Types /\ t.todo # <<>> /\ Head(t.todo) = "git_target_for"
  BY DEF IInv, Types, RequestAt, git_target_for
<1>2. CASE Raises(w)
  BY <1>1, <1>2, RaisesSteps, SameConns
<1>3. ASSUME NEW d \in Conns \cup {NoConn}, NEW h \in Hosts \cup {NoHost},
             HasConn(d) => h = conns[d].host, d = NoConn => EnvProject # NoProject,
             Then(w, [t EXCEPT !.repo = NoRepo, !.conn = d, !.host = h], <<>>), UNCHANGED tables
      PROVE  Steps(w) /\ ConnsKept /\ repos' = repos
  <2> DEFINE next == [t EXCEPT !.repo = NoRepo, !.conn = d, !.host = h]
  <2>1. /\ next \in Request /\ next.todo = t.todo /\ next.alone = t.alone /\ next.op = t.op
        /\ next.project = t.project /\ next.conn = d /\ next.host = h
    <3> HIDE DEF t
    <3> QED BY <1>1 DEF Request
  <2> HIDE DEF next
  <2>2. Handed(t, next, <<>>)
    <3>1. Steady(next, <<>>)
      BY DetoursAreSteady DEF Detours
    <3>2. Stands(next.conn) => next.host = conns'[next.conn].host
      BY <1>3, <2>1 DEF tables, HasConn, Stands
    <3> HIDE DEF t
    <3> QED BY <1>1, <1>3, <2>1, <3>1, <3>2 DEF Handed, t
  <2>3. <<>> \in Seq(Transactions)
    OBVIOUS
  <2>4. Steps(w)
    <3> HIDE DEF t
    <3> QED BY <1>1, <1>3, <2>1, <2>2, <2>3, ThenSteps DEF tables, t, next
  <2> QED BY <1>3, <2>4, SameConns DEF tables
<1>4. CASE /\ r = NoRepo /\ EnvProject # NoProject
           /\ Then(w, [t EXCEPT !.repo = NoRepo, !.conn = NoConn, !.host = EnvHost], <<>>)
           /\ UNCHANGED tables
  <2>1. ~HasConn(NoConn)
    BY DEF HasConn
  <2> HIDE DEF t
  <2> QED BY <1>3, <1>4, <2>1, Environment
<1>5. CASE /\ r # NoRepo
           /\ Then(w, [t EXCEPT !.repo = NoRepo, !.conn = c, !.host = conns[c].host], <<>>)
           /\ UNCHANGED tables
  <2>1. t.repo \in Repos \cup {NoRepo}
    BY <1>1 DEF Request
  <2>2. r \in Repos /\ HasConn(c)
    <3> HIDE DEF t
    <3> QED BY <1>1, <1>5, <2>1, ResolvedIsThere
  <2> HIDE DEF r
  <2>3. c \in Conns /\ conns[c].host \in Hosts \cup {NoHost} /\ c # NoConn
    BY <1>1, <2>2 DEF HasConn, Types, Repository, Connection
  <2>4. PICK d, h : d = c /\ h = conns[c].host
    OBVIOUS
  <2> HIDE DEF c
  <2>5. d \in Conns \cup {NoConn} /\ h \in Hosts \cup {NoHost} /\ d # NoConn /\ h = conns[d].host
    BY <2>3, <2>4
  <2>6. Then(w, [t EXCEPT !.repo = NoRepo, !.conn = d, !.host = h], <<>>) /\ UNCHANGED tables
    BY <1>5, <2>4
  <2> HIDE DEF t
  <2> QED BY <1>3, <2>5, <2>6
<1> QED BY <1>2, <1>4, <1>5 DEF git_target_for

\* The steps that write what a host answered, or that nothing is known.
LEMMA VerdictStep ==
    ASSUME IInv, NEW w \in Workers,
           unreject(w) \/ unverify(w) \/ carry_verification(w)
    PROVE  Steps(w) /\ ConnsKept /\ repos' = repos
<1> DEFINE t == work[w]
<1>1. /\ t \in Request /\ Types /\ t.todo # <<>>
      /\ Head(t.todo) \in {"unreject", "unverify", "carry_verification"}
  BY DEF IInv, Types, RequestAt, unreject, unverify, carry_verification
<1>2. CASE Raises(w)
  BY <1>1, <1>2, RaisesSteps, SameConns
<1>3. CASE HasConn(t.conn) /\ ~Raises(w)
  <2> DEFINE entry == conns[t.conn]
  <2>1. t.conn \in Conns /\ entry \in Connection
    BY <1>1, <1>3 DEF HasConn, Request, Types
  <2>2. Then(w, t, <<>>) /\ UNCHANGED <<repos, legacy>>
    BY <1>3 DEF unreject, unverify, carry_verification
  <2>3. Steps(w)
    <3>1. <<>> \in Detours
      BY DEF Detours
    <3> QED BY <1>1, <2>2, <3>1, PlainSteps
  <2>4. CASE unreject(w)
    <3> DEFINE verify == IF entry.verify = "rejected" THEN "error" ELSE entry.verify
    <3>1. conns' = Patched(t, verify, entry.proved)
      BY <1>3, <2>4 DEF unreject
    <3>2. verify \in Verdicts /\ entry.proved \in Hosts \cup {NoHost}
      BY <2>1 DEF Connection, Verdicts
    <3>3. verify # "never" => entry.proved \in {entry.host, NoHost}
      <4>1. t.conn \in connections
        BY <1>3, <2>1 DEF connections
      <4> QED BY <4>1 DEF IInv, ProofIsCurrent
    <3> HIDE DEF verify
    <3>4. PICK v \in Verdicts, p \in Hosts \cup {NoHost} : v = verify /\ p = entry.proved
      BY <3>2
    <3>5. ConnsKept
      BY <1>1, <1>3, <3>1, <3>3, <3>4, PatchConn
    <3> QED BY <2>2, <2>3, <3>5
  <2>5. CASE unverify(w)
    <3>1. conns' = Patched(t, "never", NoHost)
      BY <1>3, <2>5 DEF unverify
    <3>2. "never" \in Verdicts /\ NoHost \in Hosts \cup {NoHost}
      BY DEF Verdicts
    <3>3. ConnsKept
      BY <1>1, <1>3, <3>1, <3>2, PatchConn
    <3> QED BY <2>2, <2>3, <3>3
  <2>6. CASE carry_verification(w)
    <3>1. conns' = Patched(t, legacy.verify, legacy.host)
      BY <1>3, <2>6 DEF carry_verification
    <3>2. legacy.verify \in Verdicts /\ legacy.host \in Hosts \cup {NoHost}
      BY <1>1, LegacyRows DEF Types, LegacyRow
    <3>3. t.alone => legacy.host = entry.host
      <4>1. SUFFICES ASSUME t.alone PROVE legacy.host = entry.host
        OBVIOUS
      <4>2. Ready(t)
        BY <4>1 DEF IInv, ReadyInv
      <4>3. 1 \in 1..Len(t.todo) /\ t.todo[1] = "carry_verification"
        BY <1>1, <2>6 DEF Request, carry_verification, RequestAt
      <4> QED BY <1>3, <4>2, <4>3 DEF Ready
    <3>4. PICK v \in Verdicts, p \in Hosts \cup {NoHost} : v = legacy.verify /\ p = legacy.host
      BY <3>2
    <3>5. ConnsKept
      BY <1>1, <1>3, <3>1, <3>3, <3>4, PatchConn
    <3> QED BY <2>2, <2>3, <3>5
  <2> QED BY <2>4, <2>5, <2>6
<1> QED BY <1>2, <1>3 DEF unreject, unverify, carry_verification

\* A verdict is written to the connection whose host was probed.
LEMMA RecordStep ==
    ASSUME IInv, NEW w \in Workers, _record_verification(w)
    PROVE  Steps(w) /\ ConnsKept /\ repos' = repos
<1> DEFINE t == work[w]
<1>1. /\ t \in Request /\ Types /\ t.todo # <<>> /\ Head(t.todo) = "record"
  BY DEF IInv, Types, RequestAt, _record_verification
<1>2. t.alone => /\ t.project = EnvProject /\ EnvProject # NoProject
                 \/ /\ HasConn(t.conn) => t.host = conns[t.conn].host
                    /\ t.conn = NoConn => EnvProject # NoProject
  <2>1. SUFFICES ASSUME t.alone
                 PROVE  /\ t.project = EnvProject /\ EnvProject # NoProject
                        \/ /\ HasConn(t.conn) => t.host = conns[t.conn].host
                           /\ t.conn = NoConn => EnvProject # NoProject
    OBVIOUS
  <2>2. Ready(t)
    BY <2>1 DEF IInv, ReadyInv
  <2>3. 1 \in 1..Len(t.todo) /\ t.todo[1] = "record"
    BY <1>1 DEF Request
  <2> QED BY <2>2, <2>3 DEF Ready
<1>3. CASE Raises(w)
  BY <1>1, <1>3, RaisesSteps, SameConns
<1>4. CASE t.conn = NoConn
  <2> DEFINE next == [t EXCEPT !.project = EnvProject]
             short == <<"default_connection", "record">>
             long == Shim \o short
             more == IF connections = {} THEN long ELSE short
  <2>1. Then(w, next, more) /\ UNCHANGED tables
    BY <1>4 DEF _record_verification
  <2>2. /\ next \in Request /\ next.todo = t.todo /\ next.alone = t.alone /\ next.op = t.op
        /\ next.project = EnvProject
    BY <1>1, Environment DEF Request
  <2> HIDE DEF next
  <2>3. /\ short \in Seq(Transactions) /\ long \in Seq(Transactions) /\ Len(long) = 5
        /\ long[1] = "shim_connection" /\ long[2] = "unverify" /\ long[3] = "place_project"
        /\ long[4] = "default_connection" /\ long[5] = "record"
    <3>1. short \in Seq(Transactions) /\ Len(short) = 2 /\ short[1] = "default_connection" /\ short[2] = "record"
      BY DEF Transactions
    <3>2. /\ Shim \in Seq(Transactions) /\ Len(Shim) = 3
          /\ Shim[1] = "shim_connection" /\ Shim[2] = "unverify" /\ Shim[3] = "place_project"
      BY DEF Shim, Transactions
    <3> HIDE DEF short
    <3> DEFINE all == Shim \o short
    <3>3. /\ all \in Seq(Transactions) /\ Len(all) = Len(Shim) + Len(short)
          /\ \A i \in 1..(Len(Shim) + Len(short)) :
                all[i] = IF i <= Len(Shim) THEN Shim[i] ELSE short[i - Len(Shim)]
      BY <3>1, <3>2, ConcatProperties, Zenon
    <3> HIDE DEF all
    <3> QED BY <3>1, <3>2, <3>3 DEF all, short
  <2>4. more \in Seq(Transactions)
    BY <2>3
  <2>5. ASSUME EnvProject # NoProject PROVE Steady(next, more)
    <3>1. CASE more = short
      <4>1. Len(more) = 2 /\ more[1] = "default_connection" /\ more[2] = "record"
        BY <3>1
      <4> HIDE DEF more
      <4> QED BY <2>2, <2>5, <4>1 DEF Steady
    <3>2. CASE more = long
      <4>1. /\ Len(more) = 5 /\ more[1] = "shim_connection" /\ more[2] = "unverify"
            /\ more[3] = "place_project" /\ more[4] = "default_connection" /\ more[5] = "record"
        BY <2>3, <3>2
      <4> HIDE DEF more, long
      <4> QED BY <2>2, <2>5, <4>1 DEF Steady
    <3> QED BY <3>1, <3>2
  <2> HIDE DEF more
  <2>6. t.alone => Handed(t, next, more)
    BY <1>1, <1>2, <1>4, <2>2, <2>5 DEF Handed
  <2>7. Steps(w)
    <3> HIDE DEF t
    <3> QED BY <1>1, <2>1, <2>2, <2>4, <2>6, ThenSteps DEF tables, t
  <2> QED BY <2>1, <2>7, SameConns DEF tables
<1>5. CASE /\ HasConn(t.conn)
           /\ \E outcome \in VerifyAnswers :
                 conns' = Patched(t, outcome, IF t.project = NoProject THEN t.host ELSE NoHost)
           /\ Then(w, t, <<>>)
           /\ UNCHANGED <<repos, secrets, legacy>>
  <2>1. PICK outcome \in VerifyAnswers :
           conns' = Patched(t, outcome, IF t.project = NoProject THEN t.host ELSE NoHost)
    BY <1>5
  <2>2. outcome \in Verdicts /\ t.host \in Hosts \cup {NoHost}
    BY <1>1, Recorded DEF Request
  <2>3. PICK p \in Hosts \cup {NoHost} : p = IF t.project = NoProject THEN t.host ELSE NoHost
    BY <2>2
  <2>4. t.alone => p \in {conns[t.conn].host, NoHost}
    BY <1>2, <1>5, <2>3
  <2>5. ConnsKept
    <3>1. conns' = Patched(t, outcome, p)
      BY <2>1, <2>3
    <3> QED BY <1>1, <1>5, <2>2, <2>4, <3>1, PatchConn
  <2>6. <<>> \in Detours
    BY DEF Detours
  <2>7. Steps(w)
    BY <1>1, <1>5, <2>6, PlainSteps
  <2> QED BY <1>5, <2>5, <2>7
<1> QED BY <1>3, <1>4, <1>5 DEF _record_verification

-----------------------------------------------------------------------------
(* The repositories.                                                         *)

ReposKept == repos' \in [Repos -> Repository]

LEMMA RepositoriesStep ==
    ASSUME IInv, NEW w \in Workers,
           \/ insert_repository(w) \/ write_repository(w) \/ set_default(w)
           \/ delete_repository(w) \/ place_project(w)
    PROVE  Steps(w) /\ conns' = conns /\ ReposKept
<1> DEFINE t == work[w]
<1>1. /\ t \in Request /\ Types /\ t.todo # <<>>
      /\ Head(t.todo) \in {"insert_repository", "write_repository", "set_default", "drop_repository",
                           "place_project"}
  BY DEF IInv, Types, RequestAt, insert_repository, write_repository, set_default,
     delete_repository, place_project
<1>2. {<<>>, <<"set_default">>, <<"write_repository", "set_default">>, <<"insert_repository">>} \subseteq Detours
  BY DEF Detours
<1>3. repos \in [Repos -> Repository] /\ NoRepository \in Repository
  BY <1>1 DEF Types, NoRepository, Repository
<1>4. CASE Raises(w)
  BY <1>1, <1>3, <1>4, RaisesSteps DEF ReposKept
<1>5. ASSUME NEW next \in Request, next.todo = t.todo, next.alone = t.alone, next.op = t.op,
             next.project = t.project, NEW more \in Detours, Then(w, next, more), legacy' = legacy
      PROVE  Steps(w)
  <2> HIDE DEF t
  <2> QED BY <1>1, <1>5, PlainSteps DEF t
<1>6. CASE insert_repository(w) /\ ~Raises(w)
  <2> DEFINE r == NextId(repositories)
             entry == [conn |-> t.conn, project |-> t.project, default |-> FALSE]
             next == [t EXCEPT !.repo = r]
             more == IF t.make THEN <<"set_default">> ELSE <<>>
  <2>1. /\ r \in Repos /\ repos' = [repos EXCEPT ![r] = entry] /\ Then(w, next, more)
        /\ UNCHANGED <<conns, secrets, legacy>>
    BY <1>6 DEF insert_repository
  <2> HIDE DEF r
  <2>2. /\ next \in Request /\ next.todo = t.todo /\ next.alone = t.alone /\ next.op = t.op
        /\ next.project = t.project
    BY <1>1, <2>1 DEF Request
  <2>3. entry \in Repository
    BY <1>1 DEF Request, Repository
  <2>4. ReposKept
    <3> HIDE DEF entry
    <3> QED BY <1>3, <2>1, <2>3 DEF ReposKept
  <2>5. more \in Detours
    BY <1>2
  <2> HIDE DEF next, more
  <2>6. Steps(w)
    BY <1>5, <2>1, <2>2, <2>5
  <2> QED BY <2>1, <2>4, <2>6
<1>7. CASE write_repository(w) /\ ~Raises(w)
  <2>1. /\ repos' = [repos EXCEPT ![t.repo].project = t.project] /\ Then(w, t, <<>>)
        /\ UNCHANGED <<conns, secrets, legacy>>
    BY <1>7 DEF write_repository
  <2>2. ReposKept
    <3>1. t.project \in Projects \cup {NoProject}
      BY <1>1 DEF Request
    <3> HIDE DEF t
    <3> QED BY <1>3, <2>1, <3>1 DEF ReposKept, Repository
  <2>3. Steps(w)
    BY <1>1, <1>2, <1>5, <2>1
  <2> QED BY <2>1, <2>2, <2>3
<1>8. CASE set_default(w) /\ ~Raises(w)
  <2>1. /\ repos' = [s \in Repos |-> [repos[s] EXCEPT !.default = (s = t.repo)]] /\ Then(w, t, <<>>)
        /\ UNCHANGED <<conns, secrets, legacy>>
    BY <1>8 DEF set_default
  <2>2. ReposKept
    <3> HIDE DEF t
    <3>1. \A s \in Repos : [repos[s] EXCEPT !.default = (s = t.repo)] \in Repository
      BY <1>3 DEF Repository
    <3> QED BY <2>1, <3>1 DEF ReposKept
  <2>3. Steps(w)
    BY <1>1, <1>2, <1>5, <2>1
  <2> QED BY <2>1, <2>2, <2>3
<1>9. CASE delete_repository(w)
  <2>1. /\ repos' = [repos EXCEPT ![t.repo] = NoRepository] /\ Then(w, t, <<>>)
        /\ UNCHANGED <<conns, secrets, legacy>>
    BY <1>9 DEF delete_repository
  <2>2. ReposKept
    BY <1>3, <2>1 DEF ReposKept
  <2>3. Steps(w)
    BY <1>1, <1>2, <1>5, <2>1
  <2> QED BY <2>1, <2>2, <2>3
<1>10. CASE place_project(w) /\ ~Raises(w)
  <2> DEFINE same == {r \in On(t.conn) : repos[r].project = t.project}
  <2>1. UNCHANGED <<conns, legacy>>
    BY <1>10 DEF place_project, tables
  <2>2. CASE t.project = NoProject
    <3>1. repos' = [r \in Repos |-> [repos[r] EXCEPT !.default = FALSE]] /\ Then(w, t, <<>>)
      BY <1>10, <2>2 DEF place_project
    <3>2. \A r \in Repos : [repos[r] EXCEPT !.default = FALSE] \in Repository
      BY <1>3 DEF Repository
    <3>3. ReposKept
      BY <3>1, <3>2 DEF ReposKept
    <3> QED BY <1>1, <1>2, <1>5, <2>1, <3>1, <3>3
  <2>3. CASE t.project # NoProject /\ same # {}
    <3> DEFINE next == [t EXCEPT !.repo = Oldest(same)]
    <3>1. Then(w, next, <<"write_repository", "set_default">>) /\ UNCHANGED tables
      BY <1>10, <2>3 DEF place_project
    <3>2. same \in SUBSET Repos
      BY DEF On, repositories
    <3>3. Oldest(same) \in Repos
      <4> HIDE DEF same
      <4> QED BY <2>3, <3>2, Ids, OldestIsOne
    <3>4. /\ next \in Request /\ next.todo = t.todo /\ next.alone = t.alone /\ next.op = t.op
          /\ next.project = t.project
      <4> HIDE DEF same
      <4> QED BY <1>1, <3>3 DEF Request
    <3> HIDE DEF next
    <3>5. Steps(w)
      BY <1>2, <1>5, <2>1, <3>1, <3>4
    <3> QED BY <1>3, <3>1, <3>5 DEF ReposKept, tables
  <2>4. CASE t.project # NoProject /\ same = {}
    <3> DEFINE next == [t EXCEPT !.make = TRUE]
    <3>1. Then(w, next, <<"insert_repository">>) /\ UNCHANGED tables
      BY <1>10, <2>4 DEF place_project
    <3>2. /\ next \in Request /\ next.todo = t.todo /\ next.alone = t.alone /\ next.op = t.op
          /\ next.project = t.project
      BY <1>1 DEF Request
    <3> HIDE DEF next
    <3>3. Steps(w)
      BY <1>2, <1>5, <2>1, <3>1, <3>2
    <3> QED BY <1>3, <3>1, <3>3 DEF ReposKept, tables
  <2> QED BY <2>2, <2>3, <2>4
<1> QED BY <1>4, <1>6, <1>7, <1>8, <1>9, <1>10

LEMMA PurgeStep ==
    ASSUME IInv, NEW w \in Workers, delete_connection(w)
    PROVE  Steps(w) /\ ConnsKept /\ ReposKept
<1> DEFINE t == work[w]
<1>1. /\ t \in Request /\ Types /\ t.todo # <<>> /\ Head(t.todo) = "purge"
  BY DEF IInv, Types, RequestAt, delete_connection
<1>2. /\ conns' = [conns EXCEPT ![t.conn] = NoConnection]
      /\ repos' = [r \in Repos |-> IF repos[r].conn = t.conn THEN NoRepository ELSE repos[r]]
      /\ Then(w, t, <<>>) /\ legacy' = legacy
  BY DEF delete_connection
<1>3. Steps(w)
  <2>1. <<>> \in Detours
    BY DEF Detours
  <2> QED BY <1>1, <1>2, <2>1, PlainSteps
<1>4. ReposKept
  <2>1. NoRepository \in Repository
    BY DEF NoRepository, Repository
  <2> QED BY <1>1, <1>2, <2>1 DEF ReposKept, Types
<1>5. NoConnection \in Connection /\ NoConnection.verify = "never"
  BY DEF NoConnection, Connection, Verdicts
<1>6. ConnsKept
  <2>1. CASE t.conn \in Conns
    BY <1>2, <1>5, <2>1, WriteConn
  <2>2. CASE t.conn \notin Conns
    <3>1. conns' = conns
      BY <1>1, <1>2, <2>2 DEF Types
    <3> QED BY <3>1, SameConns
  <2> QED BY <2>1, <2>2
<1> QED BY <1>3, <1>4, <1>6

\* Every step of a request.
LEMMA RequestSteps ==
    ASSUME IInv, NEW w \in Workers, RequestStep(w)
    PROVE  Steps(w) /\ ConnsKept /\ ReposKept
<1>1. repos' = repos => ReposKept
  BY DEF IInv, Types, ReposKept
<1> QED BY <1>1, SameConns, ReadsStep, CreateStep, WriteConnectionStep, ReadConnectionStep, TargetStep,
       VerdictStep, RecordStep, RepositoriesStep, PurgeStep DEF RequestStep

\* What a step leaves of the tables and of the requests, what is to be tidied aside.
LEMMA StepsKeep ==
    ASSUME IInv, NEW w \in Workers, Steps(w), ConnsKept, ReposKept
    PROVE  Types' /\ AloneInv' /\ ReadyInv' /\ ProofIsCurrent'
<1>1. /\ work \in [Workers -> Request] /\ work[w].todo # <<>> /\ work[w] # NoRequest
      /\ work' = [work EXCEPT ![w] = work'[w]] /\ legacy' = legacy /\ connMishaps' = connMishaps
  BY NoRequestType DEF IInv, Types, Steps
<1>2. \A v \in Workers : v # w => work'[v] = work[v]
  BY <1>1
<1>3. work'[w] \in Request /\ (work'[w].alone => work'[w] = NoRequest \/ work[w].alone)
  <2>1. CASE Ended(w)
    BY <2>1, NoRequestType DEF Ended
  <2>2. CASE GoesOn(w)
    <3>1. PICK t \in Request, more \in Seq(Transactions) :
             /\ t.todo = work[w].todo /\ t.alone = work[w].alone
             /\ work'[w] = [t EXCEPT !.todo = more \o Tail(t.todo)]
      BY <2>2 DEF GoesOn
    <3>2. PICK rest : rest = more \o Tail(t.todo)
      OBVIOUS
    <3>3. rest \in Seq(Transactions)
      <4>1. t.todo \in Seq(Transactions) /\ t.todo # <<>>
        BY <1>1, <3>1 DEF Request
      <4> QED BY <3>2, <4>1, Rest
    <3>4. work'[w] = [t EXCEPT !.todo = rest]
      BY <3>1, <3>2
    <3> QED BY <3>1, <3>3, <3>4 DEF Request
  <2> QED BY <2>1, <2>2 DEF Steps
<1>4. Types'
  BY <1>1, <1>3 DEF IInv, Types, ConnsKept, ReposKept
<1>5. AloneInv'
  BY <1>1, <1>2, <1>3 DEF IInv, AloneInv
<1>6. ReadyInv'
  <2>1. SUFFICES ASSUME NEW v \in Workers, work'[v].alone PROVE Ready(work[v])'
    BY DEF ReadyInv
  <2>2. CASE work'[v] = NoRequest
    <3>1. Len(work'[v].todo) = 0
      BY <2>2, NoRequestType
    <3> QED BY <3>1 DEF Ready
  <2>3. CASE v # w /\ work'[v] # NoRequest
    <3>1. work[v] = work'[v] /\ work[v].alone
      BY <1>2, <2>1, <2>3
    <3> QED BY <1>1, <2>3, <3>1 DEF IInv, AloneInv
  <2>4. CASE v = w /\ work'[v] # NoRequest
    <3>1. PICK t \in Request, more \in Seq(Transactions) :
             /\ t.todo = work[w].todo /\ t.alone = work[w].alone
             /\ work'[w] = [t EXCEPT !.todo = more \o Tail(t.todo)]
             /\ t.alone => Handed(work[w], t, more)
      BY <2>4 DEF Steps, GoesOn, Ended
    <3>2. PICK me \in Request : me = work[w]
      BY <1>1
    <3>3. work[w].alone
      BY <1>3, <2>1, <2>4
    <3>4. Ready(me) /\ Handed(me, t, more)
      BY <3>1, <3>2, <3>3 DEF IInv, ReadyInv
    <3>5. Ready([t EXCEPT !.todo = more \o Tail(t.todo)])'
      BY <1>1, <3>1, <3>2, <3>4, HandedIsReady
    <3> QED BY <2>4, <3>1, <3>5
  <2> QED BY <2>2, <2>3, <2>4
<1> QED BY <1>4, <1>5, <1>6 DEF ConnsKept

-----------------------------------------------------------------------------
(* A request begins.                                                         *)

\* The steps that the requests begin with.
Openings == {<<"create_connection">>, <<"read_connection", "write_connection">>, <<"purge", "ensure_default">>,
             <<"default_repository", "insert_repository">>, <<"write_repository">>,
             <<"drop_repository", "ensure_default">>, <<"set_default">>, Shim,
             <<"store_sealed", "unreject">>, <<"default_connection", "store_sealed", "unreject">>,
             <<"git_target_for", "record">>, <<"seed", "serve">>, Adoption \o <<"seed", "serve">>}

LEMMA AdoptionSteps ==
    /\ Adoption \o <<"seed", "serve">> \in Seq(Transactions)
    /\ Len(Adoption \o <<"seed", "serve">>) = 7
    /\ (Adoption \o <<"seed", "serve">>)[1] = "create_connection"
    /\ \A i \in {1, 3, 4, 5, 6, 7} : (Adoption \o <<"seed", "serve">>)[i] # "carry_verification"
    /\ \A i \in 1..7 : (Adoption \o <<"seed", "serve">>)[i] \notin {"write_connection", "record"}
<1> DEFINE last == <<"seed", "serve">>
           all == Adoption \o last
<1>1. last \in Seq(Transactions) /\ Len(last) = 2 /\ last[1] = "seed" /\ last[2] = "serve"
  BY DEF Transactions
<1>2. /\ Adoption \in Seq(Transactions) /\ Len(Adoption) = 5
      /\ Adoption[1] = "create_connection" /\ Adoption[2] = "carry_verification"
      /\ Adoption[3] = "adopt_project" /\ Adoption[4] = "attach_credential" /\ Adoption[5] = "reseal"
  BY DEF Adoption, Transactions
<1> HIDE DEF last
<1>3. /\ all \in Seq(Transactions) /\ Len(all) = Len(Adoption) + Len(last)
      /\ \A i \in 1..(Len(Adoption) + Len(last)) :
            all[i] = IF i <= Len(Adoption) THEN Adoption[i] ELSE last[i - Len(Adoption)]
  BY <1>1, <1>2, ConcatProperties, Zenon
<1> HIDE DEF all
<1>4. /\ all[1] = "create_connection" /\ all[2] = "carry_verification" /\ all[3] = "adopt_project"
      /\ all[4] = "attach_credential" /\ all[5] = "reseal" /\ all[6] = "seed" /\ all[7] = "serve"
      /\ Len(all) = 7
  BY <1>1, <1>2, <1>3
<1>5. \A i \in 1..7 : all[i] \notin {"write_connection", "record"}
  BY <1>4
<1> QED BY <1>3, <1>4, <1>5 DEF all, last

LEMMA OpeningsType == Openings \subseteq Seq(Transactions)
<1>1. Shim \in Seq(Transactions)
  BY DEF Shim, Transactions
<1> QED BY <1>1, AdoptionSteps DEF Openings, Transactions

LEMMA OpeningsAreReady ==
    ASSUME NEW t, t.todo \in Openings,
           t.todo = Adoption \o <<"seed", "serve">> => t.host = legacy.host
    PROVE  Ready(t)
<1>1. CASE t.todo = Adoption \o <<"seed", "serve">>
  <2>1. PICK s : s = t.todo
    OBVIOUS
  <2>2. /\ Len(s) = 7 /\ s[1] = "create_connection"
        /\ \A i \in {1, 3, 4, 5, 6, 7} : s[i] # "carry_verification"
        /\ \A i \in 1..7 : s[i] \notin {"write_connection", "record"}
    BY <1>1, <2>1, AdoptionSteps
  <2> QED BY <1>1, <2>1, <2>2 DEF Ready
<1>2. CASE t.todo \in {<<"create_connection">>, <<"write_repository">>, <<"set_default">>}
  <2>1. Len(t.todo) = 1 /\ t.todo[1] \in {"create_connection", "write_repository", "set_default"}
    BY <1>2
  <2> QED BY <2>1 DEF Ready
<1>3. CASE t.todo \in {<<"read_connection", "write_connection">>, <<"purge", "ensure_default">>,
                       <<"default_repository", "insert_repository">>, <<"drop_repository", "ensure_default">>,
                       <<"store_sealed", "unreject">>, <<"git_target_for", "record">>, <<"seed", "serve">>}
  <2>1. /\ Len(t.todo) = 2
        /\ t.todo[1] \notin {"write_connection", "record", "carry_verification"}
        /\ \/ t.todo[1] = "read_connection" /\ t.todo[2] = "write_connection"
           \/ t.todo[1] = "git_target_for" /\ t.todo[2] = "record"
           \/ t.todo[2] \notin {"write_connection", "record", "carry_verification"}
    BY <1>3
  <2> QED BY <2>1 DEF Ready
<1>4. CASE t.todo \in {Shim, <<"default_connection", "store_sealed", "unreject">>}
  <2>1. /\ Len(t.todo) = 3
        /\ \A i \in 1..3 : t.todo[i] \notin {"write_connection", "record", "carry_verification"}
    BY <1>4 DEF Shim
  <2> QED BY <2>1 DEF Ready
<1> QED BY <1>1, <1>2, <1>3, <1>4 DEF Openings

\* Whoever begins alone is ready and tidy, and the others are alone no more.
LEMMA BeginKeeps ==
    ASSUME IInv, NEW w \in Workers, NEW op \in Handlers, NEW todo \in Openings, NEW locals \in Request,
           Begin(w, op, todo, locals), UNCHANGED tables,
           todo = Adoption \o <<"seed", "serve">> => locals.host = legacy.host,
           op \in Tidying => Tidy([locals EXCEPT !.op = op, !.todo = todo, !.alone = NoOverlap])
    PROVE  IInv'
<1> DEFINE t == [locals EXCEPT !.op = op, !.todo = todo, !.alone = NoOverlap]
<1>1. /\ work \in [Workers -> Request] /\ Types
      /\ conns' = conns /\ repos' = repos /\ legacy' = legacy
  BY DEF IInv, Types, tables
<1>2. todo \in Seq(Transactions) /\ NoOverlap \in BOOLEAN
  BY OpeningsType DEF NoOverlap
<1>3. t \in Request /\ t.op = op /\ t.todo = todo /\ t.alone = NoOverlap /\ t.host = locals.host
  <2>1. PICK b \in BOOLEAN : b = NoOverlap
    BY <1>2
  <2>2. [locals EXCEPT !.op = op, !.todo = todo, !.alone = b] \in Request
    BY <1>2 DEF Request
  <2> QED BY <2>1, <2>2 DEF Request
<1>4. work' = [v \in Workers |-> IF v = w THEN t
                  ELSE IF work[v] = NoRequest THEN NoRequest ELSE [work[v] EXCEPT !.alone = FALSE]]
  BY DEF Begin
<1>5. connMishaps' \in Nat
  BY <1>1 DEF Begin, Types
<1> HIDE DEF t
<1>6. work'[w] = t
  BY <1>4
<1>7. \A v \in Workers : v # w =>
         /\ work'[v] \in Request
         /\ work'[v] = NoRequest \/ ~work'[v].alone
         /\ work[v] = NoRequest => work'[v] = NoRequest
  <2>1. SUFFICES ASSUME NEW v \in Workers, v # w, work[v] # NoRequest
                 PROVE  work'[v] \in Request /\ ~work'[v].alone
    BY <1>4, NoRequestType
  <2>2. work'[v] = [work[v] EXCEPT !.alone = FALSE]
    BY <1>4, <2>1
  <2>3. work[v] \in Request
    BY <1>1
  <2> QED BY <2>2, <2>3 DEF Request
<1>8. Types'
  <2>1. work' \in [Workers -> Request]
    BY <1>3, <1>4, <1>6, <1>7
  <2> QED BY <1>1, <1>5, <2>1 DEF Types
<1>9. AloneInv'
  BY <1>3, <1>6, <1>7 DEF AloneInv, NoOverlap
<1>10. ReadyInv'
  <2>1. Ready(t)
    BY <1>3, OpeningsAreReady
  <2>2. Ready(work[w])'
    BY <1>1, <1>6, <2>1 DEF Ready, HasConn
  <2>3. ASSUME NEW v \in Workers, v # w, work'[v].alone PROVE Ready(work[v])'
    <3>1. Len(work'[v].todo) = 0
      BY <1>7, <2>3, NoRequestType
    <3> QED BY <3>1 DEF Ready
  <2> QED BY <2>2, <2>3 DEF ReadyInv
<1>11. TidyInv'
  <2>1. op \in Tidying => Tidy(t)
    BY DEF t
  <2>2. op \in Tidying => Tidy(work[w])'
    BY <1>1, <1>6, <2>1 DEF Tidy, Defaults, repositories, HasRepo
  <2>3. \A v \in Workers : v # w /\ work'[v].alone => work'[v].op \notin Tidying
    BY <1>7, NoRequestType DEF Tidying
  <2> QED BY <1>3, <1>6, <2>2, <2>3 DEF TidyInv
<1>12. ProofIsCurrent'
  BY <1>1, SameConns DEF ConnsKept
<1> QED BY <1>8, <1>9, <1>10, <1>11, <1>12 DEF IInv

\* A request that begins short of an adoption.
LEMMA OpensKeeps ==
    ASSUME IInv, NEW w \in Workers, NEW op \in Handlers, NEW todo \in Openings, Len(todo) < 7,
           NEW locals \in Request, Begin(w, op, todo, locals), UNCHANGED tables,
           op \in Tidying => \/ /\ op = "create_git_repository" /\ locals.conn \in Conns
                                /\ todo = <<"default_repository", "insert_repository">>
                             \/ /\ op \in {"delete_git_repository", "delete_git_connection"}
                                /\ todo \in {<<"purge", "ensure_default">>, <<"drop_repository", "ensure_default">>}
    PROVE  IInv'
<1>1. todo # Adoption \o <<"seed", "serve">>
  BY AdoptionSteps
<1>2. op \in Tidying => Tidy([locals EXCEPT !.op = op, !.todo = todo, !.alone = NoOverlap])
  <2> DEFINE t == [locals EXCEPT !.op = op, !.todo = todo, !.alone = NoOverlap]
  <2>1. t.op = op /\ t.todo = todo /\ t.conn = locals.conn
    BY DEF Request
  <2> HIDE DEF t
  <2>2. op \in Tidying => Tidy(t)
    BY <2>1 DEF Tidy
  <2> QED BY <2>2 DEF t
<1> QED BY <1>1, <1>2, BeginKeeps

LEMMA AskedKeeps ==
    ASSUME IInv, NEW w \in Workers, Asked(w)
    PROVE  IInv'
<1>1. NoRequest \in Request /\ Types
  BY NoRequestType DEF IInv
<1>2. /\ {"create_git_connection", "update_git_connection", "update_git_repository",
          "set_default_git_repository", "set_connection_credential", "set_git_credential",
          "verify_git_connection", "verify_git_config", "set_git_config"} \subseteq Handlers \ Tidying
      /\ Tidying \subseteq Handlers
  BY DEF Handlers, Tidying
<1>3. ASSUME NEW op \in Handlers \ Tidying,
             NEW todo \in {<<"create_connection">>, <<"read_connection", "write_connection">>,
                           <<"write_repository">>, <<"set_default">>, Shim, <<"store_sealed", "unreject">>,
                           <<"default_connection", "store_sealed", "unreject">>, <<"git_target_for", "record">>},
             NEW locals \in Request, Begin(w, op, todo, locals), UNCHANGED tables
      PROVE  IInv'
  <2>1. todo \in Openings
    BY DEF Openings
  <2>2. Len(todo) < 7
    <3>1. CASE todo \in {<<"create_connection">>, <<"write_repository">>, <<"set_default">>}
      <4>1. Len(todo) = 1
        BY <3>1
      <4> QED BY <4>1
    <3>2. CASE todo \in {<<"read_connection", "write_connection">>, <<"store_sealed", "unreject">>,
                         <<"git_target_for", "record">>}
      <4>1. Len(todo) = 2
        BY <3>2
      <4> QED BY <4>1
    <3>3. CASE todo \in {Shim, <<"default_connection", "store_sealed", "unreject">>}
      <4>1. Len(todo) = 3
        BY <3>3 DEF Shim
      <4> QED BY <4>1
    <3> QED BY <3>1, <3>2, <3>3
  <2>3. op \in Handlers /\ op \notin Tidying
    OBVIOUS
  <2> QED BY <1>3, <2>1, <2>2, <2>3, OpensKeeps
<1>4. ASSUME NEW op \in {"delete_git_repository", "delete_git_connection"},
             NEW todo \in {<<"purge", "ensure_default">>, <<"drop_repository", "ensure_default">>},
             NEW locals \in Request, Begin(w, op, todo, locals), UNCHANGED tables
      PROVE  IInv'
  <2>1. todo \in Openings /\ op \in Handlers
    BY DEF Openings, Handlers
  <2>2. Len(todo) = 2
    OBVIOUS
  <2>3. Len(todo) < 7
    BY <2>2
  <2> QED BY <1>4, <2>1, <2>3, OpensKeeps
<1>5. ASSUME NEW op, op = "create_git_repository",
             NEW todo, todo = <<"default_repository", "insert_repository">>,
             NEW locals \in Request, locals.conn \in Conns, Begin(w, op, todo, locals), UNCHANGED tables
      PROVE  IInv'
  <2>1. todo \in Openings /\ op \in Handlers
    BY <1>5 DEF Openings, Handlers
  <2>2. Len(todo) = 2
    BY <1>5
  <2>3. Len(todo) < 7
    BY <2>2
  <2> QED BY <1>5, <2>1, <2>3, OpensKeeps
<1>6. CASE \E h \in Hosts : create_git_connection(w, h)
  <2>1. PICK h \in Hosts : create_git_connection(w, h)
    BY <1>6
  <2> DEFINE locals == [NoRequest EXCEPT !.host = h]
  <2>2. locals \in Request
    BY <1>1 DEF Request
  <2>3. Begin(w, "create_git_connection", <<"create_connection">>, locals) /\ UNCHANGED tables
    BY <2>1 DEF create_git_connection
  <2> HIDE DEF locals
  <2> QED BY <1>2, <1>3, <2>2, <2>3
<1>7. CASE \E c \in Conns, h \in Hosts \cup {NoHost} : update_git_connection(w, c, h)
  <2>1. PICK c \in Conns, h \in Hosts \cup {NoHost} : update_git_connection(w, c, h)
    BY <1>7
  <2> DEFINE locals == [NoRequest EXCEPT !.conn = c, !.host = h]
  <2>2. locals \in Request
    BY <1>1 DEF Request
  <2>3. Begin(w, "update_git_connection", <<"read_connection", "write_connection">>, locals) /\ UNCHANGED tables
    BY <2>1 DEF update_git_connection
  <2> HIDE DEF locals
  <2> QED BY <1>2, <1>3, <2>2, <2>3
<1>8. CASE \E c \in Conns, p \in Projects, make \in BOOLEAN : create_git_repository(w, c, p, make)
  <2>1. PICK c \in Conns, p \in Projects, make \in BOOLEAN : create_git_repository(w, c, p, make)
    BY <1>8
  <2> DEFINE locals == [NoRequest EXCEPT !.conn = c, !.project = p, !.make = make]
  <2>2. locals \in Request /\ locals.conn \in Conns
    BY <1>1 DEF Request
  <2>3. Begin(w, "create_git_repository", <<"default_repository", "insert_repository">>, locals) /\ UNCHANGED tables
    BY <2>1 DEF create_git_repository
  <2> HIDE DEF locals
  <2> QED BY <1>2, <1>5, <2>2, <2>3
<1>9. CASE \E c \in Conns : delete_git_connection(w, c)
  <2>1. PICK c \in Conns : delete_git_connection(w, c)
    BY <1>9
  <2> DEFINE locals == [NoRequest EXCEPT !.conn = c]
  <2>2. locals \in Request
    BY <1>1 DEF Request
  <2>3. Begin(w, "delete_git_connection", <<"purge", "ensure_default">>, locals) /\ UNCHANGED tables
    BY <2>1 DEF delete_git_connection
  <2> HIDE DEF locals
  <2> QED BY <1>2, <1>4, <2>2, <2>3
<1>10. CASE \E c \in Conns : set_connection_credential(w, c)
  <2>1. PICK c \in Conns : set_connection_credential(w, c)
    BY <1>10
  <2> DEFINE locals == [NoRequest EXCEPT !.conn = c]
  <2>2. locals \in Request
    BY <1>1 DEF Request
  <2>3. Begin(w, "set_connection_credential", <<"store_sealed", "unreject">>, locals) /\ UNCHANGED tables
    BY <2>1 DEF set_connection_credential
  <2> HIDE DEF locals
  <2> QED BY <1>2, <1>3, <2>2, <2>3
<1>11. CASE \E c \in Conns : verify_git_connection(w, c)
  <2>1. PICK c \in Conns : verify_git_connection(w, c)
    BY <1>11
  <2> DEFINE r == Oldest(IF On(c) \cap Defaults = {} THEN On(c) ELSE On(c) \cap Defaults)
             locals == [NoRequest EXCEPT !.repo = r]
  <2>2. r \in Repos
    <3> DEFINE some == IF On(c) \cap Defaults = {} THEN On(c) ELSE On(c) \cap Defaults
    <3>1. some \in SUBSET Repos /\ some # {}
      BY <2>1 DEF verify_git_connection, On, repositories
    <3> HIDE DEF some
    <3>2. Oldest(some) \in Repos
      BY <3>1, Ids, OldestIsOne
    <3> QED BY <3>2 DEF some
  <2>3. Begin(w, "verify_git_connection", <<"git_target_for", "record">>, locals) /\ UNCHANGED tables
    BY <2>1 DEF verify_git_connection
  <2> HIDE DEF r
  <2>4. locals \in Request
    BY <1>1, <2>2 DEF Request
  <2> HIDE DEF locals
  <2> QED BY <1>2, <1>3, <2>3, <2>4
<1>12. CASE \E r \in Repos, p \in Projects : update_git_repository(w, r, p)
  <2>1. PICK r \in Repos, p \in Projects : update_git_repository(w, r, p)
    BY <1>12
  <2> DEFINE locals == [NoRequest EXCEPT !.repo = r, !.project = p]
  <2>2. locals \in Request
    BY <1>1 DEF Request
  <2>3. Begin(w, "update_git_repository", <<"write_repository">>, locals) /\ UNCHANGED tables
    BY <2>1 DEF update_git_repository
  <2> HIDE DEF locals
  <2> QED BY <1>2, <1>3, <2>2, <2>3
<1>13. CASE \E r \in Repos : delete_git_repository(w, r)
  <2>1. PICK r \in Repos : delete_git_repository(w, r)
    BY <1>13
  <2> DEFINE locals == [NoRequest EXCEPT !.repo = r]
  <2>2. locals \in Request
    BY <1>1 DEF Request
  <2>3. Begin(w, "delete_git_repository", <<"drop_repository", "ensure_default">>, locals) /\ UNCHANGED tables
    BY <2>1 DEF delete_git_repository
  <2> HIDE DEF locals
  <2> QED BY <1>2, <1>4, <2>2, <2>3
<1>14. CASE \E r \in Repos : set_default_git_repository(w, r)
  <2>1. PICK r \in Repos : set_default_git_repository(w, r)
    BY <1>14
  <2> DEFINE locals == [NoRequest EXCEPT !.repo = r]
  <2>2. locals \in Request
    BY <1>1 DEF Request
  <2>3. Begin(w, "set_default_git_repository", <<"set_default">>, locals) /\ UNCHANGED tables
    BY <2>1 DEF set_default_git_repository
  <2> HIDE DEF locals
  <2> QED BY <1>2, <1>3, <2>2, <2>3
<1>15. CASE \E h \in Hosts, p \in Projects \cup {NoProject} : set_git_config(w, h, p)
  <2>1. PICK h \in Hosts, p \in Projects \cup {NoProject} : set_git_config(w, h, p)
    BY <1>15
  <2> DEFINE locals == [NoRequest EXCEPT !.host = h, !.project = p]
  <2>2. locals \in Request
    BY <1>1 DEF Request
  <2>3. Begin(w, "set_git_config", Shim, locals) /\ UNCHANGED tables
    BY <2>1 DEF set_git_config
  <2> HIDE DEF locals
  <2> QED BY <1>2, <1>3, <2>2, <2>3
<1>16. CASE set_git_credential(w)
  <2> DEFINE locals == [NoRequest EXCEPT !.host = EnvHost]
  <2>2. locals \in Request
    BY <1>1, Environment DEF Request
  <2>3. Begin(w, "set_git_credential", <<"default_connection", "store_sealed", "unreject">>, locals) /\ UNCHANGED tables
    BY <1>16 DEF set_git_credential
  <2> HIDE DEF locals
  <2> QED BY <1>2, <1>3, <2>2, <2>3
<1>17. CASE verify_git_config(w)
  BY <1>1, <1>2, <1>3, <1>17 DEF verify_git_config
<1> QED BY <1>6, <1>7, <1>8, <1>9, <1>10, <1>11, <1>12, <1>13, <1>14, <1>15, <1>16, <1>17 DEF Asked

LEMMA AdoptKeeps ==
    ASSUME IInv, NEW w \in Workers, adopt_legacy_git_config(w)
    PROVE  IInv'
<1>1. NoRequest \in Request /\ Types
  BY NoRequestType DEF IInv
<1>2. "boot" \in Handlers /\ "boot" \notin Tidying
  BY DEF Handlers, Tidying
<1>3. PICK op : op = "boot"
  OBVIOUS
<1>4. CASE Begin(w, "boot", <<"seed", "serve">>, NoRequest) /\ UNCHANGED tables
  <2>1. PICK todo : todo = <<"seed", "serve">>
    OBVIOUS
  <2>2. todo \in Openings /\ Len(todo) = 2
    BY <2>1 DEF Openings
  <2>3. Len(todo) < 7
    BY <2>2
  <2>4. Begin(w, op, todo, NoRequest) /\ UNCHANGED tables
    BY <1>3, <1>4, <2>1
  <2> QED BY <1>1, <1>2, <1>3, <2>2, <2>3, <2>4, OpensKeeps
<1>5. CASE /\ Begin(w, "boot", Adoption \o <<"seed", "serve">>,
                    [NoRequest EXCEPT !.host = legacy.host, !.project = legacy.project])
           /\ UNCHANGED tables
  <2> DEFINE locals == [NoRequest EXCEPT !.host = legacy.host, !.project = legacy.project]
             todo == Adoption \o <<"seed", "serve">>
  <2>1. legacy.host \in Hosts \cup {NoHost} /\ legacy.project \in Projects \cup {NoProject}
    BY <1>1, LegacyRows DEF Types, LegacyRow
  <2>2. locals \in Request /\ locals.host = legacy.host
    BY <1>1, <2>1 DEF Request
  <2>3. todo \in Openings
    BY DEF Openings
  <2>4. Begin(w, op, todo, locals) /\ UNCHANGED tables
    BY <1>3, <1>5
  <2> HIDE DEF locals, todo
  <2> QED BY <1>2, <1>3, <2>2, <2>3, <2>4, BeginKeeps
<1> QED BY <1>4, <1>5 DEF adopt_legacy_git_config

-----------------------------------------------------------------------------
(* What ends a request, or disturbs it, from outside.                        *)

\* Requests that go on as they were, one that is gone aside, or alone no more.
LEMMA FewerKeeps ==
    ASSUME IInv, conns' = conns, repos' = repos, legacy' = legacy, connMishaps' \in Nat,
           work' \in [Workers -> Request],
           \A w \in Workers : \/ work'[w] = work[w] \/ work'[w] = NoRequest
                              \/ work[w] # NoRequest /\ ~work'[w].alone
    PROVE  IInv'
<1>1. Types'
  BY DEF IInv, Types
<1>2. AloneInv'
  BY NoRequestType DEF IInv, AloneInv
<1>3. ReadyInv'
  <2>1. SUFFICES ASSUME NEW w \in Workers, work'[w].alone PROVE Ready(work[w])'
    BY DEF ReadyInv
  <2>2. CASE work'[w] = NoRequest
    <3>1. Len(work'[w].todo) = 0
      BY <2>2, NoRequestType
    <3> QED BY <3>1 DEF Ready
  <2>3. CASE work'[w] = work[w]
    <3>1. Ready(work[w])
      BY <2>1, <2>3 DEF IInv, ReadyInv
    <3> QED BY <2>3, <3>1 DEF Ready, HasConn
  <2> QED BY <2>1, <2>2, <2>3
<1>4. TidyInv'
  <2>1. SUFFICES ASSUME NEW w \in Workers, work'[w].alone, work'[w].op \in Tidying PROVE Tidy(work[w])'
    BY DEF TidyInv
  <2>2. work'[w] = work[w]
    BY <2>1, NoRequestType DEF Tidying
  <2>3. Tidy(work[w])
    BY <2>1, <2>2 DEF IInv, TidyInv
  <2> QED BY <2>2, <2>3 DEF Tidy, Defaults, repositories, HasRepo
<1>5. ProofIsCurrent'
  BY SameConns DEF ConnsKept
<1> QED BY <1>1, <1>2, <1>3, <1>4, <1>5 DEF IInv

LEMMA CrashKeeps ==
    ASSUME IInv, NEW w \in Workers, CrashRequest(w)
    PROVE  IInv'
<1>1. /\ work \in [Workers -> Request] /\ connMishaps \in Nat
      /\ work' = [work EXCEPT ![w] = NoRequest] /\ connMishaps' = connMishaps + 1
      /\ conns' = conns /\ repos' = repos /\ legacy' = legacy
  BY DEF IInv, Types, CrashRequest, tables
<1>2. work' \in [Workers -> Request] /\ connMishaps' \in Nat
  BY <1>1, NoRequestType
<1>3. \A v \in Workers : work'[v] = work[v] \/ work'[v] = NoRequest
  BY <1>1
<1> QED BY <1>1, <1>2, <1>3, FewerKeeps

LEMMA ClearKeeps ==
    ASSUME IInv, NEW c, clear_connection_credential(c)
    PROVE  IInv'
<1>1. /\ work \in [Workers -> Request] /\ connMishaps \in Nat
      /\ work' = [w \in Workers |-> IF work[w] = NoRequest THEN NoRequest ELSE [work[w] EXCEPT !.alone = FALSE]]
      /\ connMishaps' = connMishaps + IF NoOverlap THEN 0 ELSE 1
      /\ conns' = conns /\ repos' = repos /\ legacy' = legacy
  BY DEF IInv, Types, clear_connection_credential
<1>2. \A w \in Workers : work[w] # NoRequest => work'[w] \in Request /\ ~work'[w].alone
  <2>1. ASSUME NEW w \in Workers, work[w] # NoRequest PROVE work'[w] \in Request /\ ~work'[w].alone
    <3>1. work'[w] = [work[w] EXCEPT !.alone = FALSE] /\ work[w] \in Request
      BY <1>1, <2>1
    <3> QED BY <3>1 DEF Request
  <2> QED BY <2>1
<1>3. \A w \in Workers : work[w] = NoRequest => work'[w] = NoRequest
  BY <1>1
<1>4. work' \in [Workers -> Request] /\ connMishaps' \in Nat
  BY <1>1, <1>2, NoRequestType
<1> QED BY <1>1, <1>2, <1>3, <1>4, FewerKeeps

LEMMA StutterKeeps == ASSUME IInv, UNCHANGED connVars PROVE IInv'
<1>1. work' \in [Workers -> Request] /\ connMishaps' \in Nat
  BY DEF IInv, Types, connVars
<1>2. UNCHANGED <<conns, repos, legacy, work>>
  BY DEF connVars
<1> QED BY <1>1, <1>2, FewerKeeps

-----------------------------------------------------------------------------
(* A tenant that has repositories has a default.                             *)

\* The step that is next in the list is the one that is taken.
LEMMA NextInLine ==
    ASSUME NEW w \in Workers, RequestStep(w)
    PROVE  /\ work[w].todo # <<>>
           /\ Head(work[w].todo) = "default_repository" => create_repository(w)
           /\ Head(work[w].todo) = "insert_repository" => insert_repository(w)
           /\ Head(work[w].todo) = "purge" => delete_connection(w)
           /\ Head(work[w].todo) = "drop_repository" => delete_repository(w)
           /\ Head(work[w].todo) = "ensure_default" => _ensure_default_repository(w)
           /\ Head(work[w].todo) = "set_default" => set_default(w)
BY DEF RequestStep, RequestAt, create_connection, _connection_for, read_connection, write_connection,
   insert_repository, write_repository, set_default, _ensure_default_repository, _store_sealed,
   delete_connection, create_repository, delete_repository, _default_connection, unreject,
   git_target_for, _record_verification, _shim_connection, unverify, place_project,
   carry_verification, _adopt_one, _adopt_credential, reseal, seed_git_config_from_env, serve

\* The last step of a request, and a step before the last.
LEMMA LastStep ==
    ASSUME Types, NEW w \in Workers, NEW a \in Transactions, work[w].todo = <<a>>, NEW t \in Request,
           t.todo = work[w].todo
    PROVE  /\ Head(work[w].todo) = a
           /\ Then(w, t, <<>>) => work'[w] = NoRequest
           /\ \A b \in Transactions : Then(w, t, <<b>>) => work'[w] = [t EXCEPT !.todo = <<b>>]
<1>1. work \in [Workers -> Request]
  BY DEF Types
<1>2. /\ Head(work[w].todo) = a
      /\ <<>> \o Tail(t.todo) = <<>>
      /\ \A b \in Transactions : <<b>> \o Tail(t.todo) = <<b>> /\ <<b>> # <<>>
  OBVIOUS
<1> QED BY <1>1, <1>2 DEF Then

LEMMA StepBeforeLast ==
    ASSUME Types, NEW w \in Workers, NEW a \in Transactions, NEW b \in Transactions,
           work[w].todo = <<a, b>>, NEW t \in Request, t.todo = work[w].todo
    PROVE  /\ Head(work[w].todo) = a
           /\ Then(w, t, <<>>) => work'[w] = [t EXCEPT !.todo = <<b>>]
<1>1. work \in [Workers -> Request]
  BY DEF Types
<1>2. /\ Head(work[w].todo) = a
      /\ <<>> \o Tail(t.todo) = <<b>> /\ <<b>> # <<>>
  OBVIOUS
<1> QED BY <1>1, <1>2 DEF Then

\* A repository that is inserted is new, and the default stays what it was.
LEMMA InsertedStep ==
    ASSUME IInv, NEW w \in Workers, insert_repository(w), ~Raises(w), work[w].conn \in Conns
    PROVE  \E r \in Repos :
              /\ HasRepo(r)'
              /\ Defaults # {} => Defaults' # {}
              /\ Then(w, [work[w] EXCEPT !.repo = r], IF work[w].make THEN <<"set_default">> ELSE <<>>)
<1> DEFINE t == work[w]
           entry == [conn |-> t.conn, project |-> t.project, default |-> FALSE]
<1>1. PICK r \in Repos :
         /\ r = NextId(repositories) /\ repos' = [repos EXCEPT ![r] = entry]
         /\ Then(w, [t EXCEPT !.repo = r], IF t.make THEN <<"set_default">> ELSE <<>>)
  BY DEF insert_repository
<1>2. r \notin repositories
  <2>1. repositories \in SUBSET (1..MaxRepo)
    BY DEF repositories, Repos
  <2> QED BY <1>1, <2>1, IdBounds, NextIdIsNew
<1>3. repos \in [Repos -> Repository]
  BY DEF IInv, Types
<1>4. repos'[r] = entry /\ \A s \in Repos : s # r => repos'[s] = repos[s]
  BY <1>1, <1>3
<1>5. HasRepo(r)'
  <2>1. repos'[r].conn # NoConn /\ r # NoRepo
    BY <1>1, <1>4, Ids
  <2> QED BY <2>1 DEF HasRepo
<1>6. ASSUME NEW d \in Defaults PROVE d \in Defaults'
  <2>1. d \in Repos /\ d # r /\ HasRepo(d) /\ repos[d].default
    BY <1>2, <1>6 DEF Defaults, repositories
  <2>2. repos'[d] = repos[d]
    BY <1>4, <2>1
  <2> QED BY <2>1, <2>2 DEF Defaults, repositories, HasRepo
<1> QED BY <1>1, <1>5, <1>6

\* The one that is made the default is.
LEMMA SetDefaultStep ==
    ASSUME IInv, NEW w \in Workers, set_default(w), HasRepo(work[w].repo), work[w].repo \in Repos
    PROVE  Defaults' # {} /\ Then(w, work[w], <<>>)
<1> DEFINE r == work[w].repo
<1>1. /\ repos' = [s \in Repos |-> [repos[s] EXCEPT !.default = (s = r)]]
      /\ Then(w, work[w], <<>>)
  BY DEF set_default
<1>2. repos[r] \in Repository /\ repos[r].conn # NoConn /\ r # NoRepo
  BY DEF IInv, Types, HasRepo
<1>3. repos'[r] = [repos[r] EXCEPT !.default = TRUE]
  BY <1>1
<1>4. repos'[r].default /\ repos'[r].conn # NoConn
  BY <1>2, <1>3 DEF Repository
<1>5. r \in Defaults'
  BY <1>2, <1>4 DEF Defaults, repositories, HasRepo
<1> QED BY <1>1, <1>5

\* A request that tidies up has still something to do, or has left a default.
LEMMA TidyingStep ==
    ASSUME IInv, NEW w \in Workers, RequestStep(w), Tidy(work[w])
    PROVE  \/ Tidy(work[w])' /\ work'[w].todo # <<>>
           \/ /\ work'[w] = NoRequest
              /\ \/ repositories' = {} \/ Defaults' # {}
                 \/ RequestAt(w, "insert_repository") /\ repos' = repos
<1> DEFINE t == work[w]
<1>1. /\ t \in Request /\ Types /\ work \in [Workers -> Request] /\ t.todo # <<>>
  BY NextInLine DEF IInv, Types
<1>2. {"default_repository", "insert_repository", "purge", "drop_repository", "ensure_default",
       "set_default"} \subseteq Transactions
  BY DEF Transactions
<1>3. ASSUME NEW u \in Request, work'[w] = [u EXCEPT !.todo = <<"set_default">>], u.repo \in Repos,
             HasRepo(u.repo)'
      PROVE  Tidy(work[w])' /\ work'[w].todo # <<>>
  <2>1. work'[w].todo = <<"set_default">> /\ work'[w].repo = u.repo
    BY <1>3 DEF Request
  <2> QED BY <1>3, <2>1 DEF Tidy
<1>4. CASE t.op = "create_git_repository" /\ t.conn \in Conns /\ t.todo = <<"default_repository", "insert_repository">>
  <2> DEFINE b == t.make \/ default_repository = NoRepo
             next == [t EXCEPT !.make = b]
  <2>1. create_repository(w)
    BY <1>4, NextInLine
  <2>2. Then(w, next, <<>>) /\ repos' = repos
    BY <2>1 DEF create_repository, tables
  <2>3. b \in BOOLEAN /\ (b \/ Defaults # {})
    BY <1>1, DefaultIsNamed
  <2> HIDE DEF b
  <2>4. next \in Request /\ next.todo = t.todo /\ next.make = b /\ next.op = t.op /\ next.conn = t.conn
    BY <1>1, <2>3 DEF Request
  <2> HIDE DEF next
  <2>5. work'[w] = [next EXCEPT !.todo = <<"insert_repository">>]
    BY <1>1, <1>2, <1>4, <2>2, <2>4, StepBeforeLast
  <2>6. /\ work'[w].todo = <<"insert_repository">> /\ work'[w].make = b
        /\ work'[w].op = "create_git_repository" /\ work'[w].conn \in Conns
    BY <1>4, <2>4, <2>5 DEF Request
  <2>7. Defaults' = Defaults
    BY <2>2 DEF Defaults, repositories, HasRepo
  <2> QED BY <2>3, <2>6, <2>7 DEF Tidy
<1>5. CASE /\ t.op = "create_git_repository" /\ t.conn \in Conns /\ t.todo = <<"insert_repository">>
           /\ t.make \/ Defaults # {}
  <2>1. insert_repository(w)
    BY <1>5, NextInLine
  <2>2. CASE Raises(w)
    BY <1>1, <2>1, <2>2 DEF Raises, tables, insert_repository
  <2>3. CASE ~Raises(w)
    <3>1. PICK r \in Repos : /\ HasRepo(r)'
                             /\ Defaults # {} => Defaults' # {}
                             /\ Then(w, [t EXCEPT !.repo = r], IF t.make THEN <<"set_default">> ELSE <<>>)
      BY <1>5, <2>1, <2>3, InsertedStep
    <3> DEFINE next == [t EXCEPT !.repo = r]
    <3>2. next \in Request /\ next.todo = t.todo /\ next.repo = r
      BY <1>1 DEF Request
    <3>3. Then(w, next, IF t.make THEN <<"set_default">> ELSE <<>>)
      BY <3>1
    <3> HIDE DEF next
    <3>4. CASE t.make
      <4>1. work'[w] = [next EXCEPT !.todo = <<"set_default">>]
        BY <1>1, <1>2, <1>5, <3>2, <3>3, <3>4, LastStep
      <4> QED BY <1>3, <3>1, <3>2, <4>1
    <3>5. CASE ~t.make
      <4>1. work'[w] = NoRequest
        BY <1>1, <1>2, <1>5, <3>2, <3>3, <3>5, LastStep
      <4> QED BY <1>5, <3>1, <3>5, <4>1
    <3> QED BY <3>4, <3>5
  <2> QED BY <2>2, <2>3
<1>6. CASE /\ t.op \in {"delete_git_repository", "delete_git_connection"}
           /\ t.todo \in {<<"purge", "ensure_default">>, <<"drop_repository", "ensure_default">>}
  <2>1. Then(w, t, <<>>)
    BY <1>6, NextInLine DEF delete_connection, delete_repository
  <2>2. work'[w] = [t EXCEPT !.todo = <<"ensure_default">>]
    BY <1>1, <1>2, <1>6, <2>1, StepBeforeLast
  <2>3. work'[w].todo = <<"ensure_default">> /\ work'[w].op = t.op
    BY <1>1, <2>2 DEF Request
  <2> QED BY <1>6, <2>3 DEF Tidy
<1>7. CASE /\ t.op \in {"delete_git_repository", "delete_git_connection"} /\ t.todo = <<"ensure_default">>
  <2>1. _ensure_default_repository(w)
    BY <1>7, NextInLine
  <2>2. repositories' = repositories /\ Defaults' = Defaults /\ repos' = repos
    BY <2>1 DEF _ensure_default_repository, tables, Defaults, repositories, HasRepo
  <2>3. CASE repositories = {} \/ Defaults # {}
    <3>1. Then(w, t, <<>>)
      BY <2>1, <2>3 DEF _ensure_default_repository
    <3>2. work'[w] = NoRequest
      BY <1>1, <1>2, <1>7, <3>1, LastStep
    <3> QED BY <2>2, <2>3, <3>2
  <2>4. CASE repositories # {} /\ Defaults = {}
    <3> DEFINE r == Oldest(repositories)
               next == [t EXCEPT !.repo = r]
    <3>1. Then(w, next, <<"set_default">>)
      BY <2>1, <2>4 DEF _ensure_default_repository
    <3>2. r \in Repos /\ HasRepo(r)
      <4>1. repositories \in SUBSET Repos
        BY DEF repositories
      <4>2. r \in repositories
        BY <2>4, <4>1, Ids, OldestIsOne
      <4> QED BY <4>1, <4>2 DEF repositories
    <3> HIDE DEF r
    <3>3. next \in Request /\ next.todo = t.todo /\ next.repo = r
      BY <1>1, <3>2 DEF Request
    <3> HIDE DEF next
    <3>4. work'[w] = [next EXCEPT !.todo = <<"set_default">>]
      BY <1>1, <1>2, <1>7, <3>1, <3>3, LastStep
    <3>5. PICK u \in Request : u = next
      BY <3>3
    <3>6. u.repo = r
      BY <3>3, <3>5
    <3>7. HasRepo(u.repo)'
      BY <2>2, <3>2, <3>6 DEF HasRepo
    <3> QED BY <1>3, <3>2, <3>4, <3>5, <3>6, <3>7
  <2> QED BY <2>3, <2>4
<1>8. CASE t.todo = <<"set_default">> /\ t.repo \in Repos /\ HasRepo(t.repo)
  <2>1. set_default(w)
    BY <1>8, NextInLine
  <2>2. Defaults' # {} /\ Then(w, t, <<>>)
    BY <1>8, <2>1, SetDefaultStep
  <2>3. work'[w] = NoRequest
    BY <1>1, <1>2, <1>8, <2>2, LastStep
  <2> QED BY <2>2, <2>3
<1> QED BY <1>4, <1>5, <1>6, <1>7, <1>8 DEF Tidy

-----------------------------------------------------------------------------
(* The theorems.                                                             *)

\* A request that is in flight after its step was so before it, and as alone.
LEMMA SameRequest ==
    ASSUME IInv, NEW w \in Workers, Steps(w)
    PROVE  \/ work'[w] = NoRequest
           \/ work'[w].alone = work[w].alone /\ work'[w].op = work[w].op
<1>1. SUFFICES ASSUME GoesOn(w) PROVE work'[w].alone = work[w].alone /\ work'[w].op = work[w].op
  BY DEF Steps, Ended
<1>2. PICK t \in Request, more \in Seq(Transactions) :
         /\ t.alone = work[w].alone /\ t.op = work[w].op
         /\ work'[w] = [t EXCEPT !.todo = more \o Tail(t.todo)]
  BY <1>1 DEF GoesOn
<1> QED BY <1>2 DEF Request

LEMMA RequestKeeps == ASSUME IInv, NEW w \in Workers, RequestStep(w) PROVE IInv'
<1>1. Steps(w) /\ ConnsKept /\ ReposKept
  BY RequestSteps
<1>2. Types' /\ AloneInv' /\ ReadyInv' /\ ProofIsCurrent'
  BY <1>1, StepsKeep
<1>3. /\ work \in [Workers -> Request] /\ work[w] # NoRequest
      /\ \A v \in Workers : v # w => work'[v] = work[v]
  BY <1>1, NoRequestType DEF IInv, Types, Steps
<1>4. TidyInv'
  <2>1. SUFFICES ASSUME NEW v \in Workers, work'[v].alone, work'[v].op \in Tidying PROVE Tidy(work[v])'
    BY DEF TidyInv
  <2>2. work'[v] # NoRequest
    BY <2>1, NoRequestType DEF Tidying
  <2>3. CASE v = w
    <3>1. work[w].alone /\ work[w].op \in Tidying
      BY <1>1, <2>1, <2>2, <2>3, SameRequest
    <3>2. Tidy(work[w])
      BY <3>1 DEF IInv, TidyInv
    <3> QED BY <2>2, <2>3, <3>2, TidyingStep
  <2>4. CASE v # w
    BY <1>3, <2>1, <2>2, <2>4 DEF IInv, AloneInv
  <2> QED BY <2>3, <2>4
<1> QED BY <1>2, <1>4 DEF IInv

\* The invariant holds at the start and after every step.
LEMMA InitIInv == ConnInit => IInv
<1> SUFFICES ASSUME ConnInit PROVE IInv
  OBVIOUS
<1>1. NoConnection \in Connection /\ NoConnection.verify = "never" /\ NoConnection.host = NoHost
  BY DEF NoConnection, Connection, Verdicts
<1>2. NoRepository \in Repository
  BY DEF NoRepository, Repository
<1>3. Types
  BY <1>1, <1>2, NoRequestType DEF ConnInit, Types
<1>4. \A w \in Workers : work[w] = NoRequest
  BY DEF ConnInit
<1>5. AloneInv
  BY <1>4 DEF AloneInv
<1>6. ReadyInv
  <2>1. Len(NoRequest.todo) = 0
    BY NoRequestType
  <2> QED BY <1>4, <2>1 DEF ReadyInv, Ready
<1>7. TidyInv
  BY <1>4, NoRequestType DEF TidyInv, Tidying
<1>8. ProofIsCurrent
  BY <1>1 DEF ConnInit, ProofIsCurrent, connections
<1> QED BY <1>3, <1>5, <1>6, <1>7, <1>8 DEF IInv

LEMMA NextIInv == IInv /\ [ConnNext]_connVars => IInv'
<1> SUFFICES ASSUME IInv, [ConnNext]_connVars PROVE IInv'
  OBVIOUS
<1>1. CASE \E w \in Workers : adopt_legacy_git_config(w) \/ Asked(w) \/ RequestStep(w) \/ CrashRequest(w)
  BY <1>1, AdoptKeeps, AskedKeeps, RequestKeeps, CrashKeeps
<1>2. CASE clear_git_credential \/ \E c \in Conns : clear_connection_credential(c)
  BY <1>2, ClearKeeps DEF clear_git_credential
<1>3. CASE UNCHANGED connVars
  BY <1>3, StutterKeeps
<1> QED BY <1>1, <1>2, <1>3 DEF ConnNext

THEOREM AlwaysIInv == ConnSpec => []IInv
<1> QED BY InitIInv, NextIInv, PTL DEF ConnSpec

\* What a connection says was proved is about the host it names, unless requests
\* overlapped on its row: for every number of threads, hosts and rows.
THEOREM ProofsAreCurrent == ConnSpec => []ProofIsCurrent
<1>1. IInv => ProofIsCurrent
  BY DEF IInv
<1> QED BY <1>1, AlwaysIInv, PTL

LEMMA FinishLeavesDefault ==
    ASSUME IInv, [ConnNext]_connVars, NEW w \in Workers, Finishes(w, Tidying)
    PROVE  repositories' = {} \/ Defaults' # {}
<1>1. /\ Len(work[w].todo) = 1 /\ work[w].op \in Tidying /\ work[w].alone /\ work'[w].todo = <<>>
      /\ connMishaps' = connMishaps
      /\ RequestAt(w, "insert_repository") => repos' # repos
  BY DEF Finishes
<1>2. /\ work \in [Workers -> Request] /\ connMishaps \in Nat /\ work[w] \in Request
      /\ work[w].todo # <<>> /\ work[w] # NoRequest
  <2>1. work[w].todo # <<>>
    <3>1. PICK todo : todo = work[w].todo
      OBVIOUS
    <3>2. Len(todo) = 1
      BY <1>1, <3>1
    <3>3. todo # <<>>
      BY <3>2
    <3> QED BY <3>1, <3>3
  <2>2. work[w] # NoRequest
    BY <2>1, NoRequestType
  <2>3. work \in [Workers -> Request] /\ connMishaps \in Nat
    BY DEF IInv, Types
  <2> QED BY <2>1, <2>2, <2>3
<1>3. Tidy(work[w])
  BY <1>1 DEF IInv, TidyInv
<1>4. work'[w].todo # work[w].todo
  BY <1>1, <1>2
<1>5. CASE RequestStep(w)
  BY <1>1, <1>3, <1>5, TidyingStep
<1>6. ASSUME NEW v \in Workers, v # w,
             RequestStep(v) \/ CrashRequest(v) PROVE FALSE
  <2>1. work'[w] = work[w]
    <3>1. CASE RequestStep(v)
      BY <1>2, <1>6, <3>1, RequestSteps DEF Steps
    <3>2. CASE CrashRequest(v)
      BY <1>2, <1>6, <3>2 DEF CrashRequest
    <3> QED BY <1>6, <3>1, <3>2
  <2> QED BY <1>4, <2>1
<1>7. CASE CrashRequest(w)
  BY <1>1, <1>2, <1>7 DEF CrashRequest
<1>8. ASSUME work' = [v \in Workers |-> IF work[v] = NoRequest THEN NoRequest ELSE [work[v] EXCEPT !.alone = FALSE]]
             \/ work' = work
      PROVE  FALSE
  <2>1. work'[w] = work[w] \/ work'[w] = [work[w] EXCEPT !.alone = FALSE]
    BY <1>2, <1>8
  <2>2. work'[w].todo = work[w].todo
    BY <1>2, <2>1 DEF Request
  <2> QED BY <1>4, <2>2
<1>9. ASSUME NEW v \in Workers, NEW op, NEW todo, NEW locals, Begin(v, op, todo, locals) PROVE FALSE
  <2>1. v # w
    BY <1>2, <1>9 DEF Begin
  <2>2. work'[w] = [work[w] EXCEPT !.alone = FALSE]
    BY <1>2, <1>9, <2>1 DEF Begin
  <2>3. work'[w].todo = work[w].todo
    BY <1>2, <2>2 DEF Request
  <2> QED BY <1>4, <2>3
<1>10. ASSUME NEW v \in Workers, adopt_legacy_git_config(v) \/ Asked(v) PROVE FALSE
  <2>1. \E op, todo, locals : Begin(v, op, todo, locals)
    BY <1>10 DEF adopt_legacy_git_config, Asked, create_git_connection, update_git_connection,
       create_git_repository, delete_git_connection, set_connection_credential, verify_git_connection,
       update_git_repository, delete_git_repository, set_default_git_repository, set_git_config,
       set_git_credential, verify_git_config
  <2> QED BY <1>9, <2>1
<1>11. CASE clear_git_credential \/ \E c \in Conns : clear_connection_credential(c)
  BY <1>8, <1>11 DEF clear_git_credential, clear_connection_credential
<1>12. CASE UNCHANGED connVars
  BY <1>8, <1>12 DEF connVars
<1> QED BY <1>5, <1>6, <1>7, <1>10, <1>11, <1>12 DEF ConnNext

\* A tenant that still has repositories has a default after each request that
\* may take it away, when the request ran alone to its end.
THEOREM DefaultsAreLeft == ConnSpec => LeavesDefault
<1>1. IInv /\ [ConnNext]_connVars =>
         [\A w \in Workers : Finishes(w, Tidying) => repositories' = {} \/ Defaults' # {}]_connVars
  BY FinishLeavesDefault
<1> QED BY <1>1, AlwaysIInv, PTL DEF ConnSpec, LeavesDefault

-----------------------------------------------------------------------------
(* The surfaces.                                                             *)

\* Where the request under way stands: it got past the tenant check before it
\* could write, it writes once, and it is told once.
Standing ==
    /\ call.at \in {"allowed", "stored"} /\ call.surface = "rest" /\ call.op \in TenantRoutes =>
           call.path = OwnTenant
    /\ call.at \in {"idle", "sent", "allowed"} => call.hit = {}
    /\ call.at \in {"idle", "sent", "allowed", "stored"} => call.entries = {}
    /\ call.at = "stored" => call.hit = {OwnTenant}

RInv == TypeOK /\ OwnTenantOnly /\ EveryWriteIsTold /\ Standing

LEMMA Blank == NoCall \in Call /\ NoCall.at = "idle" /\ NoCall.hit = {} /\ NoCall.entries = {}
BY TenantAssumption DEF NoCall, Call, BOARD_OPERATIONS, CardReads, Credentials, Answers

\* The tenant of the store is the tenant of the caller.
LEMMA StoreTenant ==
    ASSUME RInv
    PROVE  OwnTenant = cards_store_dep(call) /\ OwnTenant \in Tenants
BY TenantAssumption DEF RInv, TypeOK, Call, OwnTenant, cards_store_dep, resolve_tenant

\* The actor of an entry is who the request is attributed to.
LEMMA ActorIsCaller ==
    ASSUME RInv
    PROVE  identity_dep(call.who) = Attributed /\ Attributed \in Credentials \cup {"user", "local"}
<1>1. call.who \in Credentials
  BY DEF RInv, TypeOK, Call
<1>2. DOMAIN parse_api_keys = {"reader", "writeonly", "writer", "person"}
  BY DEF parse_api_keys
<1> QED BY <1>1, <1>2 DEF identity_dep, oidc_actor, Known, Attributed, Credentials


\* Rows of a tenant: a repository is a connection's.
Rows == {kinds \in SUBSET {"card", "connection", "repository"} :
            "repository" \in kinds => "connection" \in kinds}

LEMMA RowsType == TypeOK <=> /\ deploy \in Deployments /\ call \in Call /\ mishaps \in 0..MaxMishaps
                             /\ rows \in [Tenants -> Rows]
BY DEF TypeOK, Rows

LEMMA InitRInv == Init => RInv
BY Blank, MishapAssumption, RowsType DEF Init, RInv, Rows, Standing, OwnTenantOnly, EveryWriteIsTold

LEMMA SendInv ==
    ASSUME RInv, NEW surface \in {"rest", "mcp"}, NEW op \in BOARD_OPERATIONS,
           NEW who \in Credentials, NEW header \in Tenants, Send(surface, op, who, header)
    PROVE  RInv'
<1>1. PICK path \in Tenants, keyed \in BOOLEAN, id \in BOOLEAN :
         call' = [NoCall EXCEPT !.at = "sent", !.surface = surface, !.op = op, !.who = who,
                                !.header = header, !.path = path, !.keyed = keyed, !.id = id]
  BY DEF Send
<1>2. call' \in Call /\ call'.at = "sent" /\ call'.hit = {} /\ call'.entries = {}
  BY <1>1, Blank DEF Call
<1>3. UNCHANGED <<deploy, rows, mishaps>>
  BY DEF Send
<1> QED BY <1>2, <1>3 DEF RInv, TypeOK, Standing, OwnTenantOnly, EveryWriteIsTold

LEMMA LeaveInv == RInv /\ Leave => RInv'
BY Blank DEF Leave, RInv, TypeOK, Standing, OwnTenantOnly, EveryWriteIsTold

LEMMA RetryInv == RInv /\ Retry => RInv'
<1> SUFFICES ASSUME RInv, Retry PROVE RInv'
  OBVIOUS
<1>1. call' \in Call /\ call'.at = "sent" /\ call'.hit = {} /\ call'.entries = {}
  BY DEF Retry, RInv, TypeOK, Call, Answers
<1>2. UNCHANGED <<deploy, rows, mishaps>>
  BY DEF Retry
<1> QED BY <1>1, <1>2 DEF RInv, TypeOK, Standing, OwnTenantOnly, EveryWriteIsTold

\* An answer before anything was written.
LEMMA AnswerInv ==
    ASSUME RInv, NEW reason \in Answers, Answer(reason), UNCHANGED <<deploy, rows, mishaps>>,
           call.at \in {"sent", "allowed"}
    PROVE  RInv'
<1>1. call' \in Call /\ call'.at = "answered" /\ call'.hit = {} /\ call'.entries = {}
  BY DEF Answer, RInv, TypeOK, Call, Standing
<1> QED BY <1>1 DEF RInv, TypeOK, Standing, OwnTenantOnly, EveryWriteIsTold

Refusals == {"", "401", "403"}

\* The first reason there is, when there is one.
LEMMA FirstReason ==
    ASSUME NEW a \in Refusals, NEW b \in Refusals, NEW c \in Refusals
    PROVE  /\ FirstOf(<<a, b, c>>) \in Refusals
           /\ FirstOf(<<a, b, c>>) = "" => b = ""
<1> DEFINE reasons == <<a, b, c>>
           first(i) == reasons[i] # "" /\ \A j \in 1..(i - 1) : reasons[j] = ""
           answer == FirstOf(reasons)
<1>1. reasons[1] = a /\ reasons[2] = b /\ reasons[3] = c
  OBVIOUS
<1>2. 1..3 = {1, 2, 3} /\ 1..(1 - 1) = {} /\ 1..(2 - 1) = {1} /\ 1..(3 - 1) = {1, 2}
  OBVIOUS
<1>3. answer = IF \A i \in 1..3 : reasons[i] = "" THEN ""
               ELSE reasons[CHOOSE i \in 1..3 : first(i)]
  BY Zenon DEF FirstOf
<1> HIDE DEF reasons, answer
<1>4. ASSUME \A i \in 1..3 : reasons[i] = ""
      PROVE  answer = "" /\ b = ""
  BY <1>1, <1>2, <1>3, <1>4
<1>5. ASSUME ~ \A i \in 1..3 : reasons[i] = ""
      PROVE  answer \in {a, b, c} /\ answer # ""
  <2>1. \E i \in 1..3 : first(i)
    BY <1>1, <1>2, <1>5
  <2> DEFINE k == CHOOSE i \in 1..3 : first(i)
  <2>2. k \in 1..3 /\ first(k)
    BY <2>1
  <2>3. answer = reasons[k]
    BY <1>3, <1>5
  <2> HIDE DEF k
  <2>4. reasons[k] # "" /\ k \in {1, 2, 3}
    BY <1>2, <2>2
  <2> QED BY <1>1, <2>3, <2>4
<1>6. answer \in Refusals /\ (answer = "" => b = "")
  BY <1>4, <1>5 DEF Refusals
<1> QED BY <1>6 DEF answer, reasons

\* Whom the surfaces turn away, and that the tenant of the path was looked at.
LEMMA TurnedAwayReason ==
    ASSUME RInv
    PROVE  /\ TurnedAway(call) \in Refusals
           /\ TurnedAway(call) = "" /\ call.surface = "rest" /\ call.op \in TenantRoutes =>
                  call.path = OwnTenant
<1>1. /\ enforce_api_key(call) \in Refusals /\ tenant_dep(call) \in Refusals
      /\ require_scope(call) \in Refusals /\ _require_tool_scope(call) \in Refusals
  BY DEF enforce_api_key, tenant_dep, require_scope, _require_tool_scope, authorize, Refusals
<1>2. tenant_dep(call) = "" /\ call.op \in TenantRoutes => call.path = OwnTenant
  BY DEF tenant_dep, resolve_tenant, OwnTenant
<1>3. CASE call.surface = "rest"
  <2>1. TurnedAway(call) = FirstOf(<<enforce_api_key(call), tenant_dep(call), require_scope(call)>>)
    BY <1>3 DEF TurnedAway
  <2> QED BY <1>1, <1>2, <2>1, FirstReason
<1>4. CASE call.surface # "rest"
  BY <1>1, <1>4 DEF TurnedAway
<1> QED BY <1>3, <1>4

LEMMA AllowInv ==
    ASSUME RInv, call.at = "sent", TurnedAway(call) = "",
           call' = [call EXCEPT !.at = "allowed"], UNCHANGED <<deploy, rows, mishaps>>
    PROVE  RInv'
<1>1. call' \in Call /\ call'.at = "allowed" /\ call'.hit = {} /\ call'.entries = {}
  BY DEF RInv, TypeOK, Call, Standing
<1>2. /\ call'.path = call.path /\ call'.surface = call.surface /\ call'.op = call.op
      /\ OwnTenant' = OwnTenant
  BY DEF RInv, TypeOK, Call, OwnTenant
<1> QED BY <1>1, <1>2, TurnedAwayReason DEF RInv, TypeOK, Standing, OwnTenantOnly, EveryWriteIsTold

LEMMA RouteInv == RInv /\ (route \/ mcp_endpoint) => RInv'
<1> SUFFICES ASSUME RInv, route \/ mcp_endpoint PROVE RInv'
  OBVIOUS
<1>1. call.at = "sent" /\ UNCHANGED <<deploy, rows, mishaps>>
  BY DEF route, mcp_endpoint
<1>2. CASE \E reason \in Answers : Answer(reason)
  BY <1>1, <1>2, AnswerInv
<1>3. CASE TurnedAway(call) = "" /\ call' = [call EXCEPT !.at = "allowed"]
  BY <1>1, <1>3, AllowInv
<1> QED BY <1>2, <1>3, TurnedAwayReason DEF route, mcp_endpoint, Answers, Refusals

LEMMA ToldIsAnswer == ASSUME NEW reason \in Reasons PROVE Told(call, reason) \in Answers
BY DEF Told, Answers

LEMMA ReadInv == RInv /\ (Read \/ Unresolved) => RInv'
<1> SUFFICES ASSUME RInv, Read \/ Unresolved PROVE RInv'
  OBVIOUS
<1>1. call.at = "allowed" /\ UNCHANGED <<deploy, rows, mishaps>>
  BY DEF Read, Unresolved
<1>2. \E reason \in Answers : Answer(reason)
  BY ToldIsAnswer DEF Read, Unresolved, Answers, Reasons
<1> QED BY <1>1, <1>2, AnswerInv

\* What fails on the way is told as lost or broken, and counted.
LEMMA FailInv == RInv /\ Fail => RInv'
<1> SUFFICES ASSUME RInv, Fail PROVE RInv'
  OBVIOUS
<1>1. mishaps' \in 1..MaxMishaps /\ UNCHANGED <<deploy, rows>>
  BY MishapAssumption DEF Fail, RInv, TypeOK
<1>2. PICK reason \in {"broken", "lost"} : Answer(reason) /\ call.at \in {"allowed", "stored", "answered"}
  BY DEF Fail
<1>3. /\ call' \in Call /\ call'.at = "answered" /\ call'.hit = call.hit
      /\ call'.path = call.path /\ call'.surface = call.surface /\ call'.op = call.op
      /\ OwnTenant' = OwnTenant
  BY <1>1, <1>2 DEF Answer, RInv, TypeOK, Call, Answers, OwnTenant
<1> QED BY <1>1, <1>3, MishapAssumption DEF RInv, TypeOK, Standing, OwnTenantOnly, EveryWriteIsTold

\* Only an operation on a credential finds late that it cannot be sealed, and
\* both surfaces say so.
LEMMA Unsealed ==
    ASSUME "unsealed" \in Rejections(call.op)
    PROVE  /\ call.op \in {"set_git_credential", "set_git_connection_credential"}
           /\ Told(call, "unsealed") = "unsealed"
<1>1. call.op \in {"set_git_credential", "set_git_connection_credential"}
  BY DEF Rejections, StageTools
<1>2. "unsealed" \in RouteCatches(call.op)
  BY <1>1 DEF RouteCatches, ConfigCatches, CredentialCatches
<1>3. "unsealed" \in _TOOL_ERRORS
  BY DEF _TOOL_ERRORS, Reasons
<1> QED BY <1>1, <1>2, <1>3, Zenon DEF Told

LEMMA MadeAndDropped ==
    ASSUME NEW op \in BOARD_OPERATIONS, NEW kinds \in Rows, Needs(op) \subseteq kinds
    PROVE  (kinds \cup Makes(op)) \ Drops(op) \in Rows
<1>1. /\ Makes(op) \subseteq {"card", "connection", "repository"}
      /\ "repository" \in Makes(op) => op \in {"create_git_repository", "set_git_config"}
  BY DEF Makes
<1>2. "connection" \in Drops(op) => "repository" \in Drops(op)
  BY DEF Drops
<1>3. op = "create_git_repository" => "connection" \in kinds
  <2>1. "create_git_repository" \notin CardWrites \cup RepositoryWrites
    BY DEF CardWrites, CardEdits, StageTools, RepositoryWrites
  <2>2. Needs("create_git_repository") = {"connection"}
    BY <2>1 DEF Needs
  <2> QED BY <2>2
<1>4. op = "set_git_config" => Makes(op) = {"connection", "repository"}
  BY DEF Makes
<1> QED BY <1>1, <1>2, <1>3, <1>4 DEF Rows

LEMMA HangInv ==
    ASSUME RInv, call.at = "allowed", "unsealed" \in Rejections(call.op), Hang("unsealed"),
           UNCHANGED <<deploy, mishaps>>
    PROVE  RInv'
<1> DEFINE t == cards_store_dep(call)
           hit == IF Makes(call.op) \subseteq Mine THEN call.hit ELSE call.hit \cup {t}
<1>1. /\ rows' = [rows EXCEPT ![t] = @ \cup Makes(call.op)]
      /\ call' = [call EXCEPT !.at = "answered", !.answer = "unsealed", !.hit = hit]
  BY Unsealed DEF Hang
<1>2. t = OwnTenant /\ t \in Tenants
  BY StoreTenant
<1>3. hit \subseteq {OwnTenant} /\ call.entries = {}
  BY <1>2 DEF RInv, Standing
<1>4. Makes(call.op) \subseteq {"connection"}
  BY Unsealed DEF Makes
<1>5. rows' \in [Tenants -> Rows]
  BY <1>1, <1>2, <1>4, RowsType DEF RInv, Rows
<1> HIDE DEF hit, t
<1>6. /\ call' \in Call /\ call'.at = "answered" /\ call'.hit = hit /\ call'.entries = {}
      /\ call'.answer = "unsealed"
      /\ call'.path = call.path /\ call'.surface = call.surface /\ call'.op = call.op
      /\ OwnTenant' = OwnTenant
  <2>1. call \in Call /\ "unsealed" \in Answers
    BY DEF RInv, TypeOK, Answers, Reasons
  <2>2. call' \in Call /\ call'.header = call.header
    BY <1>1, <1>2, <1>3, <2>1 DEF Call
  <2> QED BY <1>1, <1>3, <2>1, <2>2 DEF Call, OwnTenant
<1>7. TypeOK'
  BY <1>5, <1>6, RowsType DEF RInv, TypeOK, Rows
<1>8. OwnTenantOnly'
  BY <1>3, <1>6 DEF RInv, OwnTenantOnly, Standing
<1> QED BY <1>3, <1>6, <1>7, <1>8 DEF RInv, Standing, EveryWriteIsTold

LEMMA RefuseInv ==
    ASSUME RInv, NEW reason \in Reasons, Refuse(reason)
    PROVE  RInv'
<1>1. call.at = "allowed" /\ UNCHANGED <<deploy, mishaps>>
  BY DEF Refuse
<1>2. CASE reason \in FoundLate
  BY <1>1, <1>2, HangInv DEF Refuse, FoundLate
<1>3. CASE reason \notin FoundLate
  BY <1>1, <1>3, ToldIsAnswer, AnswerInv DEF Refuse
<1> QED BY <1>2, <1>3

LEMMA CommitInv == RInv /\ Commit => RInv'
<1> SUFFICES ASSUME RInv, Commit PROVE RInv'
  OBVIOUS
<1> DEFINE t == cards_store_dep(call)
<1>1. /\ call.at = "allowed" /\ Needs(call.op) \subseteq rows[t]
      /\ rows' = [rows EXCEPT ![t] = (@ \cup Makes(call.op)) \ Drops(call.op)]
      /\ call' = [call EXCEPT !.at = "stored", !.hit = @ \cup {t}]
      /\ UNCHANGED <<deploy, mishaps>>
  BY DEF Commit, Mine
<1>2. t = OwnTenant /\ t \in Tenants
  BY StoreTenant
<1>3. rows \in [Tenants -> Rows] /\ call \in Call
  BY RowsType DEF RInv
<1> HIDE DEF t
<1>4. rows' \in [Tenants -> Rows]
  BY <1>1, <1>2, <1>3, MadeAndDropped DEF Call
<1>5. /\ call' \in Call /\ call'.at = "stored" /\ call'.hit = {OwnTenant} /\ call'.entries = {}
      /\ call'.path = call.path /\ call'.surface = call.surface /\ call'.op = call.op
      /\ OwnTenant' = OwnTenant
  BY <1>1, <1>2, <1>3 DEF RInv, Standing, Call, OwnTenant
<1>6. TypeOK'
  BY <1>1, <1>4, <1>5, RowsType DEF RInv, TypeOK, Rows
<1> QED BY <1>1, <1>5, <1>6 DEF RInv, Standing, OwnTenantOnly, EveryWriteIsTold

LEMMA RecordInv == RInv /\ Record => RInv'
<1> SUFFICES ASSUME RInv, Record PROVE RInv'
  OBVIOUS
<1>1. PICK answer \in Answers, entries \in {_record(call)} \cup (IF call.op \in Verifications THEN {{}} ELSE {}) :
         call' = [call EXCEPT !.at = "answered", !.answer = answer, !.entries = entries]
  BY ToldIsAnswer DEF Record, Answers, Reasons
<1>2. call.at = "stored" /\ UNCHANGED <<deploy, rows, mishaps>>
  BY DEF Record
<1>3. _record(call) = {[kind |-> call.op, actor |-> Attributed]}
  BY <1>2, ActorIsCaller DEF _record, RInv, Standing
<1>4. /\ entries \subseteq {[kind |-> call.op, actor |-> Attributed]}
      /\ entries = {} => call.op \in Verifications
  BY <1>3
<1>5. entries \in SUBSET [kind : BOARD_OPERATIONS, actor : Credentials \cup {"user", "local"}]
  BY <1>4, ActorIsCaller DEF RInv, TypeOK, Call
<1>6. /\ call' \in Call /\ call'.at = "answered" /\ call'.hit = {OwnTenant} /\ call'.entries = entries
      /\ call'.path = call.path /\ call'.surface = call.surface /\ call'.op = call.op
      /\ OwnTenant' = OwnTenant /\ Attributed' = Attributed
  BY <1>1, <1>2, <1>5 DEF RInv, TypeOK, Standing, Call, OwnTenant, Attributed
<1> QED BY <1>2, <1>4, <1>6 DEF RInv, TypeOK, Standing, OwnTenantOnly, EveryWriteIsTold

LEMMA NextRInv == RInv /\ [Next]_vars => RInv'
<1>1. RInv /\ UNCHANGED vars => RInv'
  BY DEF vars, RInv, TypeOK, Standing, OwnTenantOnly, EveryWriteIsTold, OwnTenant, Attributed
<1> QED BY <1>1, SendInv, LeaveInv, RetryInv, RouteInv, ReadInv, RefuseInv, CommitInv, RecordInv,
           FailInv DEF Next

THEOREM SurfacesInductive == Spec => []RInv
BY InitRInv, NextRInv, PTL DEF Spec

\* A request writes only to its caller's own tenant (api_deps.py, routes_git_config.py).
THEOREM OwnRowsOnly == Spec => []OwnTenantOnly
BY SurfacesInductive, PTL DEF RInv

\* A write is in the trail once, under its caller's name, by either surface.
THEOREM WritesAreTold == Spec => []EveryWriteIsTold
BY SurfacesInductive, PTL DEF RInv

-----------------------------------------------------------------------------
(* Prepared actions.                                                         *)

\* A caller has an id from the confirmation until the action is recorded.
Numbered ==
    /\ actions \in Nat
    /\ DOMAIN caller = Callers
    /\ \A c \in Callers :
          /\ {"pc", "id"} \subseteq DOMAIN caller[c]
          /\ caller[c].pc \in {"idle", "proposed", "writing", "prune", "audit"}
          /\ IF caller[c].pc \in {"idle", "proposed"} THEN caller[c].id = 0
             ELSE caller[c].id \in Nat \ {0}
    /\ \A e \in effects : e[1] \in Nat \ {0}

PInv == Numbered /\ EffectsAreRecorded

\* A step of a caller that keeps its id, or takes one, or was recorded.
LEMMA CallerStep ==
    ASSUME PInv, NEW c \in Callers, NEW new, caller' = [caller EXCEPT ![c] = new],
           {"pc", "id"} \subseteq DOMAIN new,
           new.pc \in {"idle", "proposed", "writing", "prune", "audit"},
           IF new.pc \in {"idle", "proposed"} THEN new.id = 0 ELSE new.id \in Nat \ {0},
           \/ new.id = caller[c].id
           \/ caller[c].id = 0
           \/ \E entry \in trail' : entry.id = caller[c].id,
           trail \subseteq trail', UNCHANGED cut, actions' \in Nat,
           \/ UNCHANGED effects
           \/ /\ new.id = caller[c].id /\ new.pc = "writing"
              /\ \E step : effects' = effects \cup {<<caller[c].id, step>>}
    PROVE  PInv'
<1>1. /\ DOMAIN caller' = Callers /\ caller'[c] = new
      /\ \A d \in Callers \ {c} : caller'[d] = caller[d]
  BY DEF PInv, Numbered
<1>2. \A e \in effects' : e \in effects \/ (e[1] = new.id /\ new.pc = "writing")
  OBVIOUS
<1>3. Numbered'
  BY <1>1, <1>2 DEF PInv, Numbered
<1>4. ASSUME NEW e \in effects'
      PROVE  \/ \E entry \in trail' : entry.id = e[1]
             \/ \E d \in Callers : caller'[d].id = e[1]
             \/ e[1] \in cut'
  <2>1. CASE e \in effects
    <3>1. e[1] # 0
      BY <2>1 DEF PInv, Numbered
    <3>2. CASE \E entry \in trail : entry.id = e[1]
      BY <3>2
    <3>3. CASE e[1] \in cut
      BY <3>3
    <3>4. ASSUME NEW d \in Callers, caller[d].id = e[1]
          PROVE  \/ \E entry \in trail' : entry.id = e[1]
                 \/ \E k \in Callers : caller'[k].id = e[1]
      <4>1. CASE d # c
        BY <1>1, <3>4, <4>1
      <4>2. CASE d = c
        BY <1>1, <3>1, <3>4, <4>2
      <4> QED BY <4>1, <4>2
    <3> QED BY <2>1, <3>2, <3>3, <3>4 DEF PInv, EffectsAreRecorded
  <2>2. CASE e \notin effects
    BY <1>1, <1>2, <2>2
  <2> QED BY <2>1, <2>2
<1> QED BY <1>3, <1>4 DEF PInv, EffectsAreRecorded

LEMMA ProposeInv ==
    ASSUME PInv, NEW c \in Callers, NEW kind \in Kinds, Propose(c, kind)
    PROVE  PInv'
<1> DEFINE new == [IdleCaller EXCEPT !.pc = "proposed", !.kind = kind, !.target = target_of(kind),
                                     !.steps = steps_of(kind, target_of(kind))]
<1>1. caller' = [caller EXCEPT ![c] = new] /\ UNCHANGED <<trail, actions, effects, cut>>
  BY DEF Propose
<1>2. new.pc = "proposed" /\ new.id = 0 /\ {"pc", "id"} \subseteq DOMAIN new
  BY DEF IdleCaller
<1>3. caller[c].id = 0 /\ actions \in Nat
  BY DEF Propose, PInv, Numbered
<1> HIDE DEF new
<1> QED BY <1>1, <1>2, <1>3, CallerStep

LEMMA ConfirmInv == ASSUME PInv, NEW c \in Callers, Confirm(c) PROVE PInv'
<1> DEFINE new == [caller[c] EXCEPT !.pc = "writing", !.id = actions + 1]
<1>1. caller' = [caller EXCEPT ![c] = new] /\ actions' = actions + 1
  BY DEF Confirm, PInv, Numbered
<1>2. UNCHANGED <<trail, effects, cut>>
  BY DEF Confirm
<1>3. caller[c].id = 0 /\ actions \in Nat /\ {"pc", "id"} \subseteq DOMAIN caller[c]
  BY DEF Confirm, PInv, Numbered
<1>4. /\ new.pc = "writing" /\ new.id = actions + 1 /\ DOMAIN new = DOMAIN caller[c]
      /\ actions + 1 \in Nat \ {0}
  BY <1>3
<1> HIDE DEF new
<1> QED BY <1>1, <1>2, <1>3, <1>4, CallerStep

\* One write of the chain, answered or lost.
LEMMA WriteInv ==
    ASSUME PInv, NEW c \in Callers, ActionStep(c) \/ StepLost(c)
    PROVE  PInv'
<1>1. PICK answer : caller' = [caller EXCEPT ![c].answers = Append(@, answer), ![c].steps = remaining(@, answer)]
  <2>1. CASE ActionStep(c)
    BY <2>1, Zenon DEF ActionStep
  <2>2. CASE StepLost(c)
    BY <2>2, Zenon DEF StepLost, remaining, is_ok
  <2> QED BY <2>1, <2>2
<1> DEFINE new == [caller[c] EXCEPT !.answers = Append(@, answer), !.steps = remaining(@, answer)]
<1>2. caller' = [caller EXCEPT ![c] = new]
  BY <1>1 DEF PInv, Numbered
<1>3. caller[c].pc = "writing" /\ UNCHANGED <<trail, actions, cut>>
  BY DEF ActionStep, StepLost
<1>4. UNCHANGED effects \/ \E step : effects' = effects \cup {<<caller[c].id, step>>}
  <2>1. CASE ActionStep(c)
    BY <2>1, Zenon DEF ActionStep
  <2>2. CASE StepLost(c)
    BY <2>2, Zenon DEF StepLost
  <2> QED BY <2>1, <2>2
<1>5. actions \in Nat /\ {"pc", "id"} \subseteq DOMAIN caller[c] /\ caller[c].id \in Nat \ {0}
  BY <1>3 DEF PInv, Numbered
<1>6. new.pc = "writing" /\ new.id = caller[c].id /\ DOMAIN new = DOMAIN caller[c]
  BY <1>3, <1>5
<1> HIDE DEF new
<1> QED BY <1>2, <1>3, <1>4, <1>5, <1>6, CallerStep

\* The answer, and the row pruned: the id stays.
LEMMA AnswerActionInv ==
    ASSUME PInv, NEW c \in Callers, AnswerAction(c) \/ Prune(c)
    PROVE  PInv'
<1> DEFINE next(ok, pc) == [caller[c] EXCEPT !.ok = ok, !.pc = pc]
<1>1. PICK pc \in {"prune", "audit"} : \E ok : caller' = [caller EXCEPT ![c] = next(ok, pc)]
  <2>1. CASE AnswerAction(c)
    <3>1. PICK pc \in {"prune", "audit"} :
             caller' = [caller EXCEPT ![c].ok = all_ok(caller[c].answers), ![c].pc = pc]
      BY <2>1 DEF AnswerAction
    <3>2. caller' = [caller EXCEPT ![c] = next(all_ok(caller[c].answers), pc)]
      BY <3>1 DEF PInv, Numbered
    <3> QED BY <3>2
  <2>2. CASE Prune(c)
    <3>1. caller' = [caller EXCEPT ![c].pc = "audit", ![c].ok = removal_ok(c)]
      BY <2>2 DEF Prune
    <3>2. caller' = [caller EXCEPT ![c] = next(removal_ok(c), "audit")]
      BY <3>1 DEF PInv, Numbered
    <3> QED BY <3>2
  <2> QED BY <2>1, <2>2
<1>2. PICK ok : caller' = [caller EXCEPT ![c] = next(ok, pc)]
  BY <1>1
<1> DEFINE new == next(ok, pc)
<1>3. caller[c].pc \in {"writing", "prune"} /\ UNCHANGED <<trail, actions, effects, cut>>
  BY DEF AnswerAction, Prune
<1>4. actions \in Nat /\ {"pc", "id"} \subseteq DOMAIN caller[c] /\ caller[c].id \in Nat \ {0}
  BY <1>3 DEF PInv, Numbered
<1>5. new.pc = pc /\ new.id = caller[c].id /\ DOMAIN new = DOMAIN caller[c]
  BY <1>4
<1> HIDE DEF new
<1> QED BY <1>2, <1>3, <1>4, <1>5, CallerStep

LEMMA RecordActionInv == ASSUME PInv, NEW c \in Callers, RecordAction(c) PROVE PInv'
<1> DEFINE entry == [id |-> caller[c].id, ok |-> caller[c].ok]
<1>1. /\ caller' = [caller EXCEPT ![c] = IdleCaller] /\ trail' = trail \cup {entry}
      /\ UNCHANGED <<actions, effects, cut>>
  BY DEF RecordAction
<1>2. IdleCaller.pc = "idle" /\ IdleCaller.id = 0 /\ {"pc", "id"} \subseteq DOMAIN IdleCaller
  BY DEF IdleCaller
<1>3. \E e \in trail' : e.id = caller[c].id
  <2>1. entry.id = caller[c].id /\ entry \in trail'
    BY <1>1
  <2> HIDE DEF entry
  <2> QED BY <2>1
<1>4. actions \in Nat
  BY DEF PInv, Numbered
<1> QED BY <1>1, <1>2, <1>3, <1>4, CallerStep

LEMMA CrashInv == PInv /\ CrashAction => PInv'
<1> SUFFICES ASSUME PInv, CrashAction PROVE PInv'
  OBVIOUS
<1> DEFINE busy == {d \in Callers : caller[d].pc \notin {"idle", "proposed"}}
<1>1. /\ cut' = cut \cup {caller[c].id : c \in busy}
      /\ caller' = [c \in Callers |-> IF caller[c].pc = "proposed" THEN caller[c] ELSE IdleCaller]
      /\ UNCHANGED <<trail, actions, effects>>
  BY DEF CrashAction
<1>2. IdleCaller.pc = "idle" /\ IdleCaller.id = 0 /\ {"pc", "id"} \subseteq DOMAIN IdleCaller
  BY DEF IdleCaller
<1>3. Numbered'
  BY <1>1, <1>2 DEF PInv, Numbered
<1>4. ASSUME NEW e \in effects, NEW c \in Callers, caller[c].id = e[1] PROVE e[1] \in cut'
  <2>1. c \in busy
    BY <1>4 DEF PInv, Numbered
  <2> QED BY <1>1, <1>4, <2>1
<1> QED BY <1>1, <1>3, <1>4 DEF PInv, EffectsAreRecorded

LEMMA InitPInv == ActionInit => PInv
<1>1. IdleCaller.pc = "idle" /\ IdleCaller.id = 0 /\ {"pc", "id"} \subseteq DOMAIN IdleCaller
  BY DEF IdleCaller
<1> QED BY <1>1 DEF ActionInit, PInv, Numbered, EffectsAreRecorded

LEMMA NextPInv == PInv /\ [ActionNext]_actionVars => PInv'
<1> SUFFICES ASSUME PInv, [ActionNext]_actionVars PROVE PInv'
  OBVIOUS
<1>1. CASE UNCHANGED <<caller, trail, actions, effects, cut>>
  BY <1>1 DEF PInv, Numbered, EffectsAreRecorded
<1>2. CASE UNCHANGED actionVars
  BY <1>1, <1>2 DEF actionVars
<1>3. ASSUME NEW s \in Service, Move(s) \/ List(s) PROVE PInv'
  BY <1>1, <1>3 DEF Move, List
<1>4. CASE Store
  BY <1>1, <1>4 DEF Store
<1> QED BY <1>2, <1>3, <1>4, ProposeInv, ConfirmInv, WriteInv, AnswerActionInv, RecordActionInv,
           CrashInv DEF ActionNext, Executing

\* What an action changed in a factory is in the trail, unless the process died
\* before it could be written (routes_actions.py:97-106).
THEOREM ActionsAreRecorded == ActionSpec => []EffectsAreRecorded
<1>1. PInv => EffectsAreRecorded
  BY DEF PInv
<1> QED BY <1>1, InitPInv, NextPInv, PTL DEF ActionSpec

=============================================================================
