---------------------------- MODULE PagingProofs ----------------------------
(***************************************************************************)
(* Two walks over pages of something that changes meanwhile.               *)
(*                                                                         *)
(* The append of AuditChain is atomic, its pages are complete, and check() *)
(* tells an honest table from one that was changed, for any number of      *)
(* appenders, rows and pages.  All rest on the same fact: from the moment  *)
(* an appender holds the lock, the newest row stays the newest until it    *)
(* commits.                                                                *)
(*                                                                         *)
(* An incremental read of IssueListing misses no issue, for any number of  *)
(* issues, page size and changes: what changes while the pages are read    *)
(* pushes the others down the listing, and never up.                       *)
(***************************************************************************)
EXTENDS AuditChain, IssueListing, FiniteSetTheorems, SequenceTheorems,
        WellFoundedInduction, TLAPS

-----------------------------------------------------------------------------
(* The audit trail.                                                        *)

\* Only the holder of the lock is inside its transaction.
LockInv ==
    \A p \in Appenders : pc[p] \in {"locked", "read", "flushed"} => lock = p

\* What the holder read of the newest row is still true, and the id it was
\* given lies beyond every visible row and beyond the auditor.
DraftInv ==
    \A p \in Appenders :
        /\ pc[p] \in {"read", "flushed"} => draft[p].prev = TailHash(Ids)
        /\ pc[p] = "flushed" =>
              /\ draft[p].id \in 1 .. (nextId - 1)
              /\ \A i \in Ids : i < draft[p].id
              /\ cursor < draft[p].id

\* Every appender has a draft.
Drafts == draft = [p \in Appenders |-> draft[p]]

IInv == TypeOK /\ LockInv /\ DraftInv /\ Drafts /\ PagesMissNothing

-----------------------------------------------------------------------------
LEMMA InitInv == Init => IInv
<1> SUFFICES ASSUME Init PROVE IInv
  OBVIOUS
<1>1. Ids \subseteq 1 .. (FirstId - 1)
  BY LegacyAssumption, NumbersAssumption DEF Init, Ids
<1>2. TypeOK
  BY <1>1, NumbersAssumption DEF Init, TypeOK, Nobody
<1>3. LockInv /\ DraftInv /\ Drafts
  BY DEF Init, LockInv, DraftInv, Drafts
<1>4. PagesMissNothing
  BY <1>1, NumbersAssumption DEF Init, PagesMissNothing
<1> QED BY <1>2, <1>3, <1>4 DEF IInv

\* Two appenders are never inside their transactions together.
LEMMA Alone ==
    ASSUME IInv, NEW p \in Appenders, pc[p] \in {"locked", "read", "flushed"},
           NEW q \in Appenders, pc[q] \in {"locked", "read", "flushed"}
    PROVE  p = q
BY DEF IInv, LockInv

LEMMA CommitInv ==
    ASSUME IInv, NEW p \in Appenders, NEW fields \in Fields, Commit(p, fields)
    PROVE  IInv'
<1> DEFINE id == draft[p].id
<1>1. /\ id \in 1 .. (nextId - 1)
      /\ \A i \in Ids : i < id
      /\ cursor < id
      /\ lock = p
  BY DEF Commit, At, IInv, DraftInv, LockInv
<1>2. /\ Ids' = Ids \cup {id}
      /\ nextId' = nextId /\ cursor' = cursor /\ served' = served
  BY DEF Commit, With, Ids
<1>3. \A q \in Appenders : pc'[q] \notin {"locked", "read", "flushed"}
  <2>1. \A q \in Appenders :
           q # p => pc[q] \notin {"locked", "read", "flushed"}
    BY Alone DEF Commit, At
  <2> QED BY <2>1 DEF Commit, IInv, TypeOK
<1>4. TypeOK'
  BY <1>1, <1>2, NumbersAssumption DEF Commit, IInv, TypeOK
<1>5. LockInv' /\ DraftInv'
  BY <1>3 DEF LockInv, DraftInv
<1>6. Drafts'
  BY DEF Commit, IInv, Drafts
<1>7. PagesMissNothing'
  <2>1. cursor \in Nat /\ id \in Nat
    BY <1>1, NumbersAssumption DEF IInv, TypeOK
  <2> QED BY <1>1, <1>2, <2>1 DEF IInv, PagesMissNothing
<1> QED BY <1>4, <1>5, <1>6, <1>7 DEF IInv

\* The steps of an append that leave the table alone.
LEMMA RecordInv ==
    ASSUME IInv, NEW p \in Appenders, record(p)
    PROVE  IInv'
<1>1. CASE Begin(p)
  BY <1>1 DEF Begin, At, IInv, TypeOK, LockInv, DraftInv, Drafts,
         PagesMissNothing, Ids, TailHash, Newest
<1>2. CASE _lock_chain(p)
  <2>1. \A q \in Appenders : pc[q] \notin {"locked", "read", "flushed"}
    BY <1>2, AppenderAssumption DEF _lock_chain, IInv, LockInv
  <2> QED BY <1>2, <2>1 DEF _lock_chain, At, IInv, TypeOK, LockInv, DraftInv,
         Drafts, PagesMissNothing, Ids, TailHash, Newest
<1>3. CASE ReadTail(p)
  <2>1. draft'[p] = [id |-> 0, prev |-> TailHash(Ids)]
    BY <1>3 DEF ReadTail, IInv, Drafts
  <2>2. \A q \in Appenders : q # p => draft'[q] = draft[q] /\ pc'[q] = pc[q]
    BY <1>3 DEF ReadTail, IInv, Drafts, TypeOK
  <2>3. TailHash(Ids)' = TailHash(Ids) /\ Ids' = Ids
    BY <1>3 DEF ReadTail, TailHash, Newest, Ids
  <2>4. pc'[p] = "read" /\ lock = p
    BY <1>3 DEF ReadTail, At, IInv, TypeOK, LockInv
  <2>5. DraftInv'
    BY <1>3, <2>1, <2>2, <2>3, <2>4 DEF ReadTail, IInv, DraftInv
  <2>6. LockInv'
    BY <1>3, <2>2, <2>4 DEF ReadTail, IInv, LockInv
  <2>7. Drafts'
    BY <1>3 DEF ReadTail, IInv, Drafts
  <2> QED BY <1>3, <2>3, <2>5, <2>6, <2>7
          DEF ReadTail, IInv, TypeOK, PagesMissNothing
<1>4. CASE Flush(p)
  <2>1. draft'[p] = [id |-> nextId, prev |-> draft[p].prev]
    BY <1>4 DEF Flush, IInv, Drafts
  <2>2. \A q \in Appenders : q # p => draft'[q] = draft[q] /\ pc'[q] = pc[q]
    BY <1>4 DEF Flush, IInv, Drafts, TypeOK
  <2>3. TailHash(Ids)' = TailHash(Ids) /\ Ids' = Ids
    BY <1>4 DEF Flush, TailHash, Newest, Ids
  <2>4. pc[p] = "read" /\ pc'[p] = "flushed" /\ lock = p
    BY <1>4 DEF Flush, At, IInv, TypeOK, LockInv
  <2>5. /\ nextId \in Nat \ {0} /\ nextId <= MaxId
        /\ Ids \subseteq 1 .. (nextId - 1)
        /\ cursor \in 0 .. (nextId - 1) /\ served \subseteq 1 .. (nextId - 1)
    BY <1>4, NumbersAssumption DEF Flush, IInv, TypeOK
  <2>6. nextId' = nextId + 1 /\ cursor' = cursor /\ served' = served
    BY <1>4 DEF Flush
  <2>7. \A q \in Appenders : q # p => pc[q] # "flushed" /\ pc[q] # "read"
    BY <2>4, Alone
  <2>8. DraftInv'
    <3>1. ASSUME NEW q \in Appenders, q # p
          PROVE  pc'[q] # "read" /\ pc'[q] # "flushed"
      BY <2>2, <2>7, <3>1
    <3>2. draft'[p].prev = TailHash(Ids)'
      BY <2>1, <2>3, <2>4 DEF IInv, DraftInv
    <3>3. /\ draft'[p].id \in 1 .. (nextId' - 1)
          /\ \A i \in Ids' : i < draft'[p].id
          /\ cursor' < draft'[p].id
      BY <2>1, <2>3, <2>5, <2>6
    <3> QED BY <3>1, <3>2, <3>3 DEF DraftInv
  <2>9. LockInv'
    BY <1>4, <2>2, <2>4 DEF Flush, IInv, LockInv
  <2>10. Drafts'
    BY <1>4 DEF Flush, IInv, Drafts
  <2>11. TypeOK'
    BY <1>4, <2>3, <2>5, <2>6, NumbersAssumption DEF Flush, IInv, TypeOK
  <2>12. PagesMissNothing'
    BY <2>3, <2>6 DEF IInv, PagesMissNothing
  <2> QED BY <2>8, <2>9, <2>10, <2>11, <2>12 DEF IInv
<1>5. CASE \E fields \in Fields : Commit(p, fields)
  BY <1>5, CommitInv
<1>6. CASE Rollback(p)
  <2>1. TailHash(Ids)' = TailHash(Ids) /\ Ids' = Ids
    BY <1>6 DEF Rollback, TailHash, Newest, Ids
  <2>2. \A q \in Appenders :
           /\ pc'[q] \in {"locked", "read", "flushed"} => q # p /\ pc'[q] = pc[q]
           /\ draft'[q] = draft[q]
    BY <1>6 DEF Rollback, IInv, TypeOK
  <2>3. LockInv'
    BY <1>6, <2>2 DEF Rollback, IInv, LockInv
  <2>4. DraftInv'
    BY <1>6, <2>1, <2>2 DEF Rollback, IInv, DraftInv
  <2>5. Drafts'
    BY <1>6 DEF Rollback, IInv, Drafts
  <2> QED BY <1>6, <2>1, <2>3, <2>4, <2>5
          DEF Rollback, IInv, TypeOK, PagesMissNothing
<1> QED BY <1>1, <1>2, <1>3, <1>4, <1>5, <1>6 DEF record

\* A page holds the next rows, without a gap.
LEMMA ListInv ==
    ASSUME IInv, list
    PROVE  IInv'
<1> DEFINE later == {i \in Ids : i > cursor}
<1>1. PICK page \in SUBSET later :
              /\ \A i \in page, j \in later \ page : i < j
              /\ \E last \in page : (\A i \in page : i <= last) /\ cursor' = last
              /\ served' = served \cup page
              /\ UNCHANGED <<rows, nextId, lock, pc, draft, changes>>
  BY DEF list
<1>2. Ids' = Ids /\ TailHash(Ids)' = TailHash(Ids)
  BY <1>1 DEF Ids, TailHash, Newest
<1>3. Ids \subseteq 1 .. (nextId - 1) /\ nextId \in Nat /\ cursor \in Nat
  BY NumbersAssumption DEF IInv, TypeOK
<1>4. cursor' \in page /\ cursor' \in Ids /\ cursor' \in Nat
  BY <1>1, <1>3
<1>5. PagesMissNothing'
  <2> SUFFICES ASSUME NEW i \in Ids, i <= cursor'
               PROVE  i \in served'
    BY <1>2 DEF PagesMissNothing
  <2>1. CASE i <= cursor
    BY <1>1, <2>1 DEF IInv, PagesMissNothing
  <2>2. CASE i > cursor
    <3>1. i \in later
      BY <2>2
    <3>2. i \notin page => cursor' < i
      BY <1>1, <1>4, <3>1
    <3> QED BY <1>1, <1>3, <1>4, <3>2
  <2> QED BY <1>3, <2>1, <2>2
<1>6. DraftInv'
  BY <1>1, <1>2, <1>4 DEF IInv, DraftInv
<1>7. TypeOK'
  BY <1>1, <1>2, <1>3, <1>4 DEF IInv, TypeOK
<1>8. LockInv' /\ Drafts'
  BY <1>1 DEF IInv, LockInv, Drafts
<1> QED BY <1>5, <1>6, <1>7, <1>8 DEF IInv

\* No append runs while the table is changed behind the store's back.
LEMMA ChangeInv ==
    ASSUME IInv, NEW i \in Ids, Change(i)
    PROVE  IInv'
<1>1. /\ lock = Nobody
      /\ UNCHANGED <<lock, pc, draft, cursor, served>>
      /\ changes' \in 0 .. MaxChanges
  BY NumbersAssumption
     DEF Change, Edit, Copy, Erase, Changing, IInv, TypeOK
<1>2. LockInv' /\ DraftInv'
  BY <1>1, AppenderAssumption DEF IInv, LockInv, DraftInv
<1>3. Drafts'
  BY <1>1 DEF IInv, Drafts
<1>4. \/ Ids' \subseteq Ids /\ nextId' = nextId
      \/ Ids' = Ids \cup {nextId} /\ nextId' = nextId + 1 /\ nextId <= MaxId
  <2>1. CASE \E fields \in Fields : Edit(i, fields)
    BY <2>1 DEF Edit, Ids
  <2>2. CASE Copy(i)
    BY <2>2 DEF Copy, With, Ids
  <2>3. CASE Erase(i)
    BY <2>3 DEF Erase, Ids
  <2> QED BY <2>1, <2>2, <2>3 DEF Change
<1>5. TypeOK'
  <2>1. /\ nextId \in FirstId .. (MaxId + 1) /\ nextId \in Nat \ {0}
        /\ Ids \subseteq 1 .. (nextId - 1)
        /\ served \subseteq 1 .. (nextId - 1)
        /\ cursor \in 0 .. (nextId - 1)
    BY NumbersAssumption DEF IInv, TypeOK
  <2>2. /\ nextId' \in FirstId .. (MaxId + 1)
        /\ Ids' \subseteq 1 .. (nextId' - 1)
        /\ served' \subseteq 1 .. (nextId' - 1)
        /\ cursor' \in 0 .. (nextId' - 1)
    <3>1. CASE Ids' \subseteq Ids /\ nextId' = nextId
      BY <1>1, <2>1, <3>1
    <3>2. CASE Ids' = Ids \cup {nextId} /\ nextId' = nextId + 1 /\ nextId <= MaxId
      BY <1>1, <2>1, <3>2, NumbersAssumption
    <3> QED BY <1>4, <3>1, <3>2
  <2> QED BY <1>1, <2>2 DEF IInv, TypeOK
<1>6. PagesMissNothing'
  <2>1. cursor < nextId /\ cursor \in Nat /\ nextId \in Nat
    BY NumbersAssumption DEF IInv, TypeOK
  <2> QED BY <1>1, <1>4, <2>1 DEF IInv, PagesMissNothing
<1> QED BY <1>2, <1>3, <1>5, <1>6 DEF IInv

LEMMA NextInv == IInv /\ [Next]_vars => IInv'
<1> SUFFICES ASSUME IInv, [Next]_vars PROVE IInv'
  OBVIOUS
<1>1. CASE UNCHANGED vars
  BY <1>1 DEF vars, IInv, TypeOK, LockInv, DraftInv, Drafts, PagesMissNothing,
         Ids, TailHash, Newest
<1> QED BY <1>1, RecordInv, ListInv, ChangeInv DEF Next

THEOREM Inductive == Spec => []IInv
BY InitInv, NextInv, PTL DEF Spec

-----------------------------------------------------------------------------
(* What follows from it.                                                   *)

\* An auditor who pages by after_id misses no row.
THEOREM PagesAreComplete == Spec => []PagesMissNothing
<1>1. IInv => PagesMissNothing
  BY DEF IInv
<1> QED BY <1>1, Inductive, PTL

\* Only a commit of p changes the table while p holds a flushed row.
LEMMA FlushedCommits ==
    ASSUME IInv, Next, NEW p \in Appenders, At(p, "flushed"), rows' # rows
    PROVE  \E fields \in Fields : Commit(p, fields)
<1>1. lock = p /\ lock # Nobody
  BY AppenderAssumption DEF At, IInv, LockInv
<1>2. ~ \E i \in Ids : Change(i)
  BY <1>1 DEF Change, Edit, Copy, Erase, Changing
<1>3. ~ list
  BY DEF list
<1>4. PICK q \in Appenders : record(q)
  BY <1>2, <1>3 DEF Next
<1>5. \E fields \in Fields : Commit(q, fields)
  BY <1>4 DEF record, Begin, _lock_chain, ReadTail, Flush, Rollback
<1>6. q = p
  BY <1>5, Alone DEF Commit, At
<1> QED BY <1>5, <1>6

\* Every row an append adds is the newest and is chained to the one before.
THEOREM AppendsAreAtomic == Spec => AppendsLink
<1> DEFINE Links ==
             \A p \in Appenders :
                (At(p, "flushed") /\ rows' # rows) =>
                    /\ draft[p].id \in DOMAIN rows'
                    /\ \A i \in Ids : i < draft[p].id
                    /\ rows'[draft[p].id].prev = TailHash(Ids)
<1>1. IInv /\ [Next]_vars => [Links]_vars
  <2> SUFFICES ASSUME IInv, Next, NEW p \in Appenders, At(p, "flushed"),
                      rows' # rows
               PROVE  /\ draft[p].id \in DOMAIN rows'
                      /\ \A i \in Ids : i < draft[p].id
                      /\ rows'[draft[p].id].prev = TailHash(Ids)
    BY DEF vars
  <2>1. PICK fields \in Fields : Commit(p, fields)
    BY FlushedCommits
  <2>2. /\ draft[p].id \in DOMAIN rows'
        /\ rows'[draft[p].id] = Entry(fields, draft[p].prev)
    BY <2>1 DEF Commit, With
  <2>3. Entry(fields, draft[p].prev).prev = draft[p].prev
    BY DEF Entry
  <2> QED BY <2>2, <2>3 DEF At, IInv, DraftInv
<1> QED BY <1>1, Inductive, PTL DEF Spec, AppendsLink

-----------------------------------------------------------------------------
(* What check() finds.                                                     *)

\* Every row carries the hash of what it says.
Genuine == \A i \in Ids : rows[i] = Entry(rows[i].fields, rows[i].prev)

Distinct == \A i, j \in Ids : rows[i].hash = rows[j].hash => i = j

HasParent(i) == \E k \in Ids : k < i /\ rows[k].hash = rows[i].prev

\* The table while only appends have written to it.
Honest ==
    /\ Genuine /\ Distinct
    /\ \A i \in Ids : rows[i].prev = None \/ HasParent(i)
    /\ \A i \in Ids : \/ rows[i].prev = expected_prev(i)
                      \/ i < FirstId /\ Siblings(i) # {}

\* The row that row j is chained to is gone, and cannot come back: what it was
\* chained to is older than j, and appends chain to the newest.
Orphan(j) ==
    /\ Genuine /\ Distinct
    /\ rows[j].prev # None
    /\ \A i \in Ids : rows[i].hash # rows[j].prev
    /\ \A i \in Ids : rows[i].prev \in {None, rows[j].prev} \/ HasParent(i)
    /\ \/ rows[j].prev[2] = None
       \/ \E k \in Ids : k < j /\ rows[k].hash = rows[j].prev[2]

\* What a single change leaves behind.
Evidence ==
    \/ \E i \in Ids :
          rows[i].hash # compute_entry_hash(rows[i].fields, rows[i].prev)
    \/ \E i \in Ids : Twins(i) # {}
    \/ \E j \in Ids : Orphan(j)

NewIds == \A p \in Appenders : pc[p] = "flushed" => draft[p].id >= FirstId

ChainInv ==
    /\ NewIds
    /\ changes = 0 => Honest
    /\ changes = 1 => Evidence

\* The id sequence moves up, and an appender gets an id no row had before.
LEMMA NewIdsInv == IInv /\ NewIds /\ [Next]_vars => NewIds'
<1> SUFFICES ASSUME IInv, NewIds, [Next]_vars, NEW q \in Appenders,
                    pc'[q] = "flushed"
             PROVE  draft'[q].id >= FirstId
  BY DEF NewIds
<1>1. nextId \in Nat /\ nextId >= FirstId /\ FirstId \in Nat
  BY NumbersAssumption DEF IInv, TypeOK
<1>2. pc \in [Appenders -> {"idle", "waiting", "locked", "read", "flushed"}]
      /\ draft = [r \in Appenders |-> draft[r]]
  BY DEF IInv, TypeOK, Drafts
<1>3. ASSUME NEW p \in Appenders, record(p) PROVE draft'[q].id >= FirstId
  <2>1. CASE Flush(p)
    BY <1>1, <1>2, <2>1 DEF Flush, At, NewIds
  <2>2. CASE ReadTail(p)
    BY <1>2, <2>2 DEF ReadTail, At, NewIds
  <2>3. CASE ~Flush(p) /\ ~ReadTail(p)
    BY <1>2, <1>3, <2>3 DEF record, Begin, _lock_chain, Commit, Rollback, NewIds
  <2> QED BY <2>1, <2>2, <2>3
<1>4. ASSUME list \/ UNCHANGED vars \/ \E i \in Ids : Change(i)
      PROVE  draft'[q].id >= FirstId
  BY <1>4 DEF list, vars, Change, Edit, Copy, Erase, NewIds
<1> QED BY <1>3, <1>4 DEF Next

\* A set of ids that is not empty has a largest one.
LEMMA Largest ==
    ASSUME NEW n \in Nat, NEW S, S \subseteq 1 .. n, S # {}
    PROVE  Newest(S) \in S /\ \A j \in S : j <= Newest(S)
<1> DEFINE R == OpToRel(<, Nat)
           T == {m \in Nat : \E i \in S : m = n - i}
<1>1. IsWellFoundedOn(R, Nat)
  BY NatLessThanWellFounded, Zenon
<1>2. T \subseteq Nat /\ T # {}
  <2>1. PICK i \in S : TRUE
    OBVIOUS
  <2>2. n - i \in T
    BY <2>1
  <2> QED BY <2>2
<1>3. PICK x \in T : \A y \in T : ~(<<y, x>> \in R)
  <2> HIDE DEF R, T
  <2> QED BY <1>1, <1>2, WFMin
<1>4. \A y \in T : ~(y < x)
  BY <1>2, <1>3 DEF OpToRel
<1>5. PICK i \in S : x = n - i
  OBVIOUS
<1>6. ASSUME NEW j \in S PROVE j <= i
  <2>1. n - j \in Nat /\ i \in Int /\ j \in Int
    OBVIOUS
  <2>2. ~(n - j < n - i)
    BY <2>1, <1>4, <1>5
  <2> HIDE DEF T
  <2> QED BY <2>1, <2>2
<1>7. \E k \in S : \A j \in S : j <= k
  BY <1>6
<1> QED BY <1>7 DEF Newest

\* The tail is the hash of a row that no row comes after.
LEMMA TailIsNewest ==
    ASSUME IInv, NEW S \in SUBSET Ids, S # {}
    PROVE  /\ Newest(S) \in S
           /\ \A j \in S : j <= Newest(S)
           /\ TailHash(S) = rows[Newest(S)].hash
<1>1. nextId - 1 \in Nat /\ S \subseteq 1 .. (nextId - 1)
  BY NumbersAssumption DEF IInv, TypeOK
<1>2. Newest(S) \in S /\ \A j \in S : j <= Newest(S)
  BY <1>1, Largest
<1>3. S # {}
  OBVIOUS
<1>4. TailHash(S) = rows[Newest(S)].hash
  BY <1>3 DEF TailHash
<1> QED BY <1>2, <1>4

\* No row has the hash that the next append will be given: its parent would be
\* the newest row, and be followed by the row that has it.
LEMMA NextHashIsNew ==
    ASSUME IInv, Genuine, Distinct, NEW f,
           \A i \in Ids : \/ rows[i].prev = None
                          \/ HasParent(i)
                          \/ \A k \in Ids : rows[k].hash # rows[i].prev
    PROVE  \A i \in Ids : rows[i].hash # compute_entry_hash(f, TailHash(Ids))
<1> SUFFICES ASSUME NEW i \in Ids,
                    rows[i].hash = compute_entry_hash(f, TailHash(Ids))
             PROVE  FALSE
  OBVIOUS
<1> DEFINE n == Newest(Ids)
<1>1. n \in Ids /\ (\A j \in Ids : j <= n) /\ TailHash(Ids) = rows[n].hash
  <2>1. Ids \in SUBSET Ids /\ Ids # {}
    OBVIOUS
  <2> QED BY <2>1, TailIsNewest
<1> HIDE DEF n
<1>2. rows[i].prev = rows[n].hash
  <2>1. rows[i] = Entry(rows[i].fields, rows[i].prev)
    BY DEF Genuine
  <2>2. rows[i].hash = <<rows[i].fields, rows[i].prev>>
    BY <2>1 DEF Entry, compute_entry_hash
  <2>3. <<rows[i].fields, rows[i].prev>> = <<f, rows[n].hash>>
    BY <1>1, <2>2 DEF compute_entry_hash
  <2> QED BY <2>3
<1>3. rows[n].hash # None
  <2>1. rows[n] = Entry(rows[n].fields, rows[n].prev)
    BY <1>1 DEF Genuine
  <2>2. rows[n].hash = <<rows[n].fields, rows[n].prev>>
    BY <2>1 DEF Entry, compute_entry_hash
  <2> QED BY <2>2 DEF None
<1>4. PICK k \in Ids : k < i /\ rows[k].hash = rows[n].hash
  BY <1>1, <1>2, <1>3 DEF HasParent
<1>5. k = n
  BY <1>1, <1>4 DEF Distinct
<1>6. k \in Int /\ i \in Int
  BY <1>4 DEF IInv, TypeOK
<1> QED BY <1>1, <1>4, <1>5, <1>6

\* A row that says f is appended, and nothing else happens to the table.
Appends(id, f) ==
    /\ id \in Nat /\ id \notin Ids /\ id >= FirstId
    /\ \A i \in Ids : i < id /\ i \in Nat
    /\ Ids' = Ids \cup {id}
    /\ \A i \in Ids : rows'[i] = rows[i]
    /\ rows'[id] = Entry(f, TailHash(Ids))

LEMMA Committed ==
    ASSUME IInv, NewIds, NEW p \in Appenders, NEW f \in Fields, Commit(p, f)
    PROVE  \E id : Appends(id, f)
<1> DEFINE id == draft[p].id
<1>1. id \in Nat /\ (\A i \in Ids : i < id) /\ id >= FirstId
  BY NumbersAssumption DEF Commit, At, IInv, TypeOK, DraftInv, NewIds
<1>2. \A i \in Ids : i \in Nat
  BY NumbersAssumption DEF IInv, TypeOK
<1>3. id \notin Ids
  BY <1>1
<1>4. rows' = [j \in Ids \cup {id} |->
                  IF j = id THEN Entry(f, draft[p].prev) ELSE rows[j]]
  BY DEF Commit, With
<1>5. draft[p].prev = TailHash(Ids)
  BY DEF Commit, At, IInv, DraftInv
<1>6. Appends(id, f)
  BY <1>1, <1>2, <1>3, <1>4, <1>5 DEF Appends, Ids
<1> QED BY <1>6

\* A row that is added beyond the row i changes nothing of what i is checked
\* against.
LEMMA TailStays ==
    ASSUME IInv, NEW i, NEW S \in SUBSET Ids, {j \in Ids' : j < i} = S,
           \A k \in S : rows'[k] = rows[k]
    PROVE  expected_prev(i)' = TailHash(S)
<1>1. expected_prev(i)' = IF S = {} THEN None ELSE rows'[Newest(S)].hash
  BY DEF expected_prev, TailHash
<1>2. CASE S = {}
  BY <1>1, <1>2 DEF TailHash
<1>3. CASE S # {}
  <2>1. Newest(S) \in S /\ TailHash(S) = rows[Newest(S)].hash
    BY <1>3, TailIsNewest
  <2> QED BY <1>1, <1>3, <2>1
<1> QED BY <1>2, <1>3

\* An append keeps rows genuine and hashes distinct, and gives its row a parent
\* unless the table is empty.
LEMMA AppendKeeps ==
    ASSUME IInv, NEW id, NEW f, Appends(id, f), Genuine, Distinct,
           \A i \in Ids : \/ rows[i].prev = None
                          \/ HasParent(i)
                          \/ \A k \in Ids : rows[k].hash # rows[i].prev
    PROVE  /\ Genuine' /\ Distinct'
           /\ \A i \in Ids : HasParent(i) => HasParent(i)'
           /\ rows'[id].prev = None \/ HasParent(id)'
<1>1. /\ id \notin Ids /\ id \in Nat
      /\ \A i \in Ids : i < id /\ i \in Nat
      /\ Ids' = Ids \cup {id}
      /\ \A i \in Ids : rows'[i] = rows[i]
      /\ rows'[id] = Entry(f, TailHash(Ids))
  BY DEF Appends
<1>2. /\ rows'[id].fields = f /\ rows'[id].prev = TailHash(Ids)
      /\ rows'[id].hash = compute_entry_hash(f, TailHash(Ids))
  BY <1>1 DEF Entry
<1>3. Genuine'
  <2> SUFFICES ASSUME NEW i \in Ids'
               PROVE  rows'[i] = Entry(rows'[i].fields, rows'[i].prev)
    BY DEF Genuine
  <2>1. CASE i \in Ids
    BY <1>1, <2>1 DEF Genuine
  <2>2. CASE i = id
    BY <1>1, <1>2, <2>2
  <2> QED BY <1>1, <2>1, <2>2
<1>4. Distinct'
  <2>1. \A i \in Ids : rows[i].hash # compute_entry_hash(f, TailHash(Ids))
    BY NextHashIsNew
  <2> SUFFICES ASSUME NEW i \in Ids', NEW j \in Ids', rows'[i].hash = rows'[j].hash
               PROVE  i = j
    BY DEF Distinct
  <2>2. CASE i \in Ids /\ j \in Ids
    BY <1>1, <2>2 DEF Distinct
  <2>3. CASE i = id /\ j \in Ids
    BY <1>1, <1>2, <2>1, <2>3
  <2>4. CASE i \in Ids /\ j = id
    BY <1>1, <1>2, <2>1, <2>4
  <2> QED BY <1>1, <2>2, <2>3, <2>4
<1>5. \A i \in Ids : HasParent(i) => HasParent(i)'
  BY <1>1 DEF HasParent
<1>6. rows'[id].prev = None \/ HasParent(id)'
  <2>1. CASE Ids = {}
    BY <1>2, <2>1 DEF TailHash
  <2>2. CASE Ids # {}
    <3>1. Ids \in SUBSET Ids
      OBVIOUS
    <3>2. Newest(Ids) \in Ids /\ TailHash(Ids) = rows[Newest(Ids)].hash
      BY <2>2, <3>1, TailIsNewest
    <3>3. rows'[Newest(Ids)].hash = rows'[id].prev
      BY <1>1, <1>2, <3>2
    <3> QED BY <1>1, <3>2, <3>3 DEF HasParent
  <2> QED BY <2>1, <2>2
<1> QED BY <1>3, <1>4, <1>5, <1>6

LEMMA HonestAppend ==
    ASSUME IInv, NEW id, NEW f, Appends(id, f), Honest
    PROVE  Honest'
<1>1. /\ id \notin Ids /\ id \in Nat
      /\ \A i \in Ids : i < id /\ i \in Nat
      /\ Ids' = Ids \cup {id}
      /\ \A i \in Ids : rows'[i] = rows[i]
      /\ rows'[id] = Entry(f, TailHash(Ids))
  BY DEF Appends
<1>2. /\ Genuine' /\ Distinct'
      /\ \A i \in Ids : HasParent(i) => HasParent(i)'
      /\ rows'[id].prev = None \/ HasParent(id)'
  BY AppendKeeps DEF Honest
<1>3. rows'[id].prev = TailHash(Ids)
  BY <1>1 DEF Entry
<1>4. ASSUME NEW i \in Ids' PROVE rows'[i].prev = None \/ HasParent(i)'
  <2>1. CASE i = id
    BY <1>2, <2>1
  <2>2. CASE i \in Ids
    BY <1>1, <1>2, <2>2 DEF Honest
  <2> QED BY <1>1, <2>1, <2>2
<1>5. ASSUME NEW i \in Ids'
      PROVE  \/ rows'[i].prev = expected_prev(i)'
             \/ i < FirstId /\ Siblings(i)' # {}
  <2>1. CASE i = id
    <3>1. {j \in Ids' : j < i} = Ids
      <4>1. \A j \in Ids : j < i
        BY <1>1, <2>1
      <4>2. ~(i < i)
        BY <1>1, <2>1
      <4> QED BY <1>1, <2>1, <4>1, <4>2, Zenon
    <3>2. expected_prev(i)' = TailHash(Ids)
      BY <1>1, <3>1, TailStays
    <3> QED BY <1>3, <2>1, <3>2
  <2>2. CASE i \in Ids
    <3> DEFINE S == {j \in Ids : j < i}
    <3>1. {j \in Ids' : j < i} = S
      BY <1>1, <2>2
    <3>2. expected_prev(i)' = TailHash(S)
      BY <1>1, <3>1, TailStays
    <3>3. rows[i].prev = expected_prev(i) => rows'[i].prev = expected_prev(i)'
      BY <1>1, <2>2, <3>2 DEF expected_prev
    <3>4. Siblings(i) # {} => Siblings(i)' # {}
      BY <1>1, <2>2 DEF Siblings
    <3> QED BY <2>2, <3>3, <3>4 DEF Honest
  <2> QED BY <1>1, <2>1, <2>2
<1> QED BY <1>2, <1>4, <1>5 DEF Honest

\* What gives the change away outlives every append.
LEMMA EvidenceAppend ==
    ASSUME IInv, NEW id, NEW f, Appends(id, f), Evidence
    PROVE  Evidence'
<1>1. /\ id \notin Ids /\ id \in Nat
      /\ \A i \in Ids : i < id /\ i \in Nat
      /\ Ids' = Ids \cup {id}
      /\ \A i \in Ids : rows'[i] = rows[i]
      /\ rows'[id] = Entry(f, TailHash(Ids))
  BY DEF Appends
<1>2. ASSUME NEW i \in Ids,
             rows[i].hash # compute_entry_hash(rows[i].fields, rows[i].prev)
      PROVE  Evidence'
  BY <1>1, <1>2 DEF Evidence
<1>3. ASSUME NEW i \in Ids, Twins(i) # {}
      PROVE  Evidence'
  <2>1. Twins(i)' # {}
    BY <1>1, <1>3 DEF Twins
  <2> QED BY <1>1, <2>1 DEF Evidence
<1>4. ASSUME NEW j \in Ids, Orphan(j)
      PROVE  Evidence'
  <2> DEFINE h == rows[j].prev
  <2>1. /\ Genuine' /\ Distinct'
        /\ \A i \in Ids : HasParent(i) => HasParent(i)'
        /\ rows'[id].prev = None \/ HasParent(id)'
    BY <1>4, AppendKeeps DEF Orphan
  <2>2. rows'[j].prev = h /\ h # None
    BY <1>1, <1>4 DEF Orphan
  <2>3. ASSUME NEW i \in Ids' PROVE rows'[i].prev \in {None, h} \/ HasParent(i)'
    <3>1. CASE i = id
      BY <2>1, <3>1
    <3>2. CASE i \in Ids
      BY <1>1, <1>4, <2>1, <3>2 DEF Orphan
    <3> QED BY <1>1, <3>1, <3>2
  <2>4. h[2] = None \/ \E k \in Ids' : k < j /\ rows'[k].hash = h[2]
    BY <1>1, <1>4 DEF Orphan
  <2>5. rows'[id].hash # h
    <3>1. Newest(Ids) \in Ids /\ j <= Newest(Ids)
          /\ TailHash(Ids) = rows[Newest(Ids)].hash
      <4>1. Ids \in SUBSET Ids /\ Ids # {}
        OBVIOUS
      <4> QED BY <4>1, TailIsNewest
    <3>2. TailHash(Ids) # None
      <4>1. rows[Newest(Ids)] =
              Entry(rows[Newest(Ids)].fields, rows[Newest(Ids)].prev)
        BY <1>4, <3>1 DEF Orphan, Genuine
      <4> QED BY <3>1, <4>1 DEF Entry, compute_entry_hash, None
    <3>3. ASSUME NEW k \in Ids, k < j PROVE rows[k].hash # TailHash(Ids)
      <4>1. k # Newest(Ids)
        BY <1>1, <3>1, <3>3
      <4> QED BY <1>4, <3>1, <4>1 DEF Orphan, Distinct
    <3>4. h[2] # TailHash(Ids)
      BY <1>4, <3>2, <3>3 DEF Orphan
    <3>5. rows'[id].hash = <<f, TailHash(Ids)>>
      BY <1>1 DEF Entry, compute_entry_hash
    <3> QED BY <3>4, <3>5
  <2>6. \A i \in Ids' : rows'[i].hash # h
    BY <1>1, <1>4, <2>5 DEF Orphan
  <2>7. Orphan(j)'
    BY <2>1, <2>2, <2>3, <2>4, <2>6 DEF Orphan
  <2> QED BY <1>1, <2>7 DEF Evidence
<1> QED BY <1>2, <1>3, <1>4 DEF Evidence

\* Each kind of change to an honest table leaves evidence.
LEMMA ChangeLeavesEvidence ==
    ASSUME IInv, Honest, NEW i \in Ids, Change(i)
    PROVE  Evidence'
<1>0. Ids \subseteq Nat /\ nextId \notin Ids /\ i \in Nat
  BY NumbersAssumption DEF IInv, TypeOK
<1>1. rows[i] = Entry(rows[i].fields, rows[i].prev)
  BY DEF Honest, Genuine
<1>2. ASSUME NEW f \in Fields, Edit(i, f) PROVE Evidence'
  <2>1. Ids' = Ids /\ rows'[i] = [rows[i] EXCEPT !.fields = f] /\ rows[i].fields # f
    BY <1>2 DEF Edit, Ids
  <2>2. rows'[i] = [fields |-> f, prev |-> rows[i].prev,
                    hash |-> <<rows[i].fields, rows[i].prev>>]
    BY <1>1, <2>1 DEF Entry, compute_entry_hash
  <2>3. rows'[i].hash # compute_entry_hash(rows'[i].fields, rows'[i].prev)
    BY <2>1, <2>2 DEF compute_entry_hash
  <2> QED BY <2>1, <2>3 DEF Evidence
<1>3. ASSUME Copy(i) PROVE Evidence'
  <2>1. /\ Ids' = Ids \cup {nextId} /\ i # nextId
        /\ rows'[i] = rows[i] /\ rows'[nextId] = rows[i]
    BY <1>0, <1>3 DEF Copy, With, Ids
  <2>2. nextId \in Twins(i)'
    BY <2>1 DEF Twins
  <2> QED BY <2>1, <2>2 DEF Evidence
<1>4. ASSUME Erase(i) PROVE Evidence'
  <2>1. PICK j \in Ids : rows[j].prev = rows[i].hash
    BY <1>4 DEF Erase
  <2> DEFINE h == rows[i].hash
  <2>2. Ids' = Ids \ {i} /\ \A k \in Ids' : rows'[k] = rows[k]
    BY <1>4 DEF Erase, Ids
  <2>3. h = <<rows[i].fields, rows[i].prev>> /\ h # None
    BY <1>1 DEF Entry, compute_entry_hash, None
  <2>4. \A k \in Ids' : rows'[k].hash # h
    BY <2>2 DEF Honest, Distinct
  <2>5. i < j
    BY <2>1, <2>3 DEF Honest, HasParent, Distinct
  <2>6. j \in Ids' /\ rows'[j].prev = h
    BY <1>0, <2>1, <2>2, <2>5
  <2>7. Genuine' /\ Distinct'
    BY <2>2 DEF Honest, Genuine, Distinct
  <2>8. \A k \in Ids' : rows'[k].prev \in {None, h} \/ HasParent(k)'
    BY <2>2 DEF Honest, HasParent
  <2>9. h[2] = None \/ \E k \in Ids' : k < j /\ rows'[k].hash = h[2]
    <3>1. h[2] = rows[i].prev
      BY <2>3
    <3>2. CASE rows[i].prev = None
      BY <3>1, <3>2
    <3>3. CASE HasParent(i)
      <4>1. PICK k \in Ids : k < i /\ rows[k].hash = rows[i].prev
        BY <3>3 DEF HasParent
      <4>2. k \in Ids' /\ k < j
        BY <1>0, <2>1, <2>2, <2>5, <4>1
      <4> QED BY <2>2, <3>1, <4>1, <4>2
    <3> QED BY <3>2, <3>3 DEF Honest
  <2>10. Orphan(j)'
    BY <2>3, <2>4, <2>6, <2>7, <2>8, <2>9 DEF Orphan
  <2> QED BY <2>6, <2>10 DEF Evidence
<1> QED BY <1>2, <1>3, <1>4 DEF Change

LEMMA ChainInit == Init => ChainInv
<1> SUFFICES ASSUME Init PROVE ChainInv
  OBVIOUS
<1>1. rows \in Legacies /\ changes = 0 /\ \A p \in Appenders : pc[p] = "idle"
  BY DEF Init
<1>2. ASSUME NEW i \in Ids
      PROVE  /\ rows[i] = Entry(rows[i].fields, rows[i].prev)
             /\ \A j \in Ids : rows[i].hash = rows[j].hash => i = j
             /\ rows[i].prev = None \/ \E j \in Ids : j < i /\ rows[j].hash = rows[i].prev
             /\ Follows(rows, i) \/ Forks(rows, i)
             /\ i < FirstId
  BY <1>1, ForkAssumption, LegacyAssumption DEF Ids
<1>3. ASSUME NEW i \in Ids, Follows(rows, i) PROVE rows[i].prev = expected_prev(i)
  BY <1>3 DEF Follows, expected_prev, TailHash, Ids
<1>4. ASSUME NEW i \in Ids, Forks(rows, i) PROVE Siblings(i) # {}
  BY <1>4 DEF Forks, Siblings, Ids
<1>5. Honest
  <2>1. \A i \in Ids : \/ rows[i].prev = expected_prev(i)
                       \/ i < FirstId /\ Siblings(i) # {}
    BY <1>2, <1>3, <1>4
  <2> QED BY <1>2, <2>1 DEF Honest, Genuine, Distinct, HasParent
<1> QED BY <1>1, <1>5 DEF ChainInv, NewIds

\* Steps that neither commit nor change the table.
LEMMA SameTable ==
    ASSUME UNCHANGED <<rows, changes>>
    PROVE  (Honest => Honest') /\ (Evidence => Evidence')
BY DEF Honest, Evidence, Genuine, Distinct, HasParent, expected_prev, TailHash,
       Siblings, Twins, Orphan, Ids, Newest

LEMMA ChainNext == IInv /\ ChainInv /\ [Next]_vars => ChainInv'
<1> SUFFICES ASSUME IInv, ChainInv, [Next]_vars PROVE ChainInv'
  OBVIOUS
<1>1. NewIds'
  BY NewIdsInv DEF ChainInv
<1>2. changes \in Nat
  BY NumbersAssumption DEF IInv, TypeOK
<1>3. ASSUME UNCHANGED <<rows, changes>> PROVE ChainInv'
  BY <1>1, <1>3, SameTable DEF ChainInv
<1>4. ASSUME NEW p \in Appenders, NEW f \in Fields, Commit(p, f) PROVE ChainInv'
  <2>1. PICK id : Appends(id, f)
    BY <1>4, Committed DEF ChainInv
  <2>2. changes' = changes
    BY <1>4 DEF Commit
  <2> QED BY <1>1, <2>1, <2>2, HonestAppend, EvidenceAppend DEF ChainInv
<1>5. ASSUME NEW i \in Ids, Change(i) PROVE ChainInv'
  <2>1. changes' = changes + 1
    BY <1>5 DEF Change, Edit, Copy, Erase, Changing
  <2>2. changes' # 0 /\ (changes' = 1 => changes = 0)
    BY <1>2, <2>1
  <2> QED BY <1>1, <1>5, <2>2, ChangeLeavesEvidence DEF ChainInv
<1>6. ASSUME NEW p \in Appenders, record(p) PROVE ChainInv'
  <2>1. CASE \E f \in Fields : Commit(p, f)
    BY <1>4, <2>1
  <2>2. CASE ~ \E f \in Fields : Commit(p, f)
    BY <1>3, <1>6, <2>2
       DEF record, Begin, _lock_chain, ReadTail, Flush, Rollback
  <2> QED BY <2>1, <2>2
<1>7. ASSUME list PROVE ChainInv'
  BY <1>3, <1>7 DEF list
<1>8. ASSUME UNCHANGED vars PROVE ChainInv'
  BY <1>3, <1>8 DEF vars
<1> QED BY <1>5, <1>6, <1>7, <1>8 DEF Next

THEOREM ChainInductive == Spec => [](IInv /\ ChainInv)
BY InitInv, NextInv, ChainInit, ChainNext, PTL DEF Spec

\* A table that only appends have written to is clean but for the forks it
\* started with, however many threads and replicas append, fail or die.
THEOREM HonestTablesAreClean == Spec => []HonestChainIsSound
<1>1. IInv /\ ChainInv => HonestChainIsSound
  <2> SUFFICES ASSUME Honest, NEW i \in Ids, _classify(i) # "sound"
               PROVE  _classify(i) = "forked" /\ i < FirstId
    BY DEF ChainInv, HonestChainIsSound, check
  <2>1. rows[i].hash = compute_entry_hash(rows[i].fields, rows[i].prev)
    <3>1. rows[i] = Entry(rows[i].fields, rows[i].prev)
      BY DEF Honest, Genuine
    <3> QED BY <3>1 DEF Entry
  <2>2. Twins(i) = {}
    BY DEF Honest, Distinct, Twins
  <2>3. ParentExists(i)
    BY DEF Honest, HasParent, ParentExists
  <2> QED BY <2>1, <2>2, <2>3 DEF Honest, _classify
<1> QED BY <1>1, ChainInductive, PTL

\* One row edited, copied or erased is reported as tampering, whatever is
\* acknowledged and however many rows are appended afterwards.
THEOREM ChangesAreReported == Spec => []ChangeIsReported
<1>1. IInv /\ ChainInv => ChangeIsReported
  <2> SUFFICES ASSUME IInv, Evidence PROVE report = "tampered"
    BY DEF ChainInv, ChangeIsReported
  <2>1. ASSUME NEW i \in Ids, _classify(i) \notin {"sound", "forked"}
        PROVE  report = "tampered"
    <3>1. <<i, _classify(i)>> \in check
      BY <2>1 DEF check
    <3> QED BY <2>1, <3>1 DEF report
  <2>2. ASSUME NEW i \in Ids,
               rows[i].hash # compute_entry_hash(rows[i].fields, rows[i].prev)
        PROVE  report = "tampered"
    BY <2>1, <2>2 DEF _classify
  <2>3. ASSUME NEW i \in Ids, Twins(i) # {} PROVE report = "tampered"
    BY <2>1, <2>3 DEF _classify
  <2>4. ASSUME NEW j \in Ids, Orphan(j) PROVE report = "tampered"
    <3>1. rows[j].prev # expected_prev(j)
      <4> DEFINE S == {k \in Ids : k < j}
      <4>1. expected_prev(j) = TailHash(S) /\ S \in SUBSET Ids
        BY DEF expected_prev
      <4>2. CASE S = {}
        BY <2>4, <4>1, <4>2 DEF Orphan, TailHash
      <4>3. CASE S # {}
        <5>1. Newest(S) \in Ids /\ TailHash(S) = rows[Newest(S)].hash
          BY <4>1, <4>3, TailIsNewest
        <5> QED BY <2>4, <4>1, <5>1 DEF Orphan
      <4> QED BY <4>2, <4>3
    <3>2. ~ParentExists(j)
      BY <2>4 DEF Orphan, ParentExists
    <3>3. _classify(j) \in {"mutated", "duplicate", "dangling"}
      BY <3>1, <3>2 DEF _classify
    <3> QED BY <2>1, <3>3
  <2> QED BY <2>2, <2>3, <2>4 DEF Evidence
<1> QED BY <1>1, ChainInductive, PTL

-----------------------------------------------------------------------------
(* The appends of the threads implement the trail of AuditTrail.           *)

\* What ReadTail reads is the tail of the trail.
LEMMA TailIsATail == IInv => TailHash(Ids) \in Trail!Tails
<1> SUFFICES ASSUME IInv PROVE TailHash(Ids) \in Trail!Tails
  OBVIOUS
<1>1. CASE Ids = {}
  BY <1>1 DEF TailHash, Trail!Tails, Trail!Ids, Ids
<1>2. CASE Ids # {}
  <2>1. /\ Newest(Ids) \in Ids
        /\ \A j \in Ids : j <= Newest(Ids)
        /\ TailHash(Ids) = rows[Newest(Ids)].hash
    BY <1>2, TailIsNewest
  <2> QED BY <1>2, <2>1 DEF Trail!Tails, Trail!Ids, Ids
<1> QED BY <1>1, <1>2

LEMMA CommitAppends ==
    ASSUME IInv, NEW p \in Appenders, NEW fields \in Fields, Commit(p, fields)
    PROVE  Trail!Next
<1> DEFINE id == draft[p].id
           prev == draft[p].prev
<1>1. /\ \A i \in Ids : i < id
      /\ cursor < id
      /\ prev = TailHash(Ids)
  BY DEF Commit, At, IInv, DraftInv
<1>2. prev \in Trail!Tails
  BY <1>1, TailIsATail
<1>3. rows' = [i \in Ids \cup {id} |->
                  IF i = id THEN Trail!Chained(fields, prev) ELSE rows[i]]
  BY DEF Commit, With, Entry, compute_entry_hash, Trail!Chained
<1>4. UNCHANGED <<cursor, served, changes>>
  BY DEF Commit
<1>5. id \in DOMAIN rows'
  BY <1>3
<1> HIDE DEF id, prev
<1>6. Trail!Append(id, fields)
  BY <1>1, <1>2, <1>3, <1>4 DEF Trail!Append, Trail!Ids, Ids
<1> QED BY <1>5, <1>6 DEF Trail!Next

\* A page ends at a visible row, and holds every row up to it.
LEMMA PageReadsOn ==
    ASSUME IInv, list
    PROVE  Trail!Next
<1> DEFINE later == {i \in Ids : i > cursor}
<1>1. PICK page \in SUBSET later :
              /\ \A i \in page, j \in later \ page : i < j
              /\ \E last \in page : (\A i \in page : i <= last) /\ cursor' = last
              /\ served' = served \cup page
              /\ UNCHANGED <<rows, nextId, lock, pc, draft, changes>>
  BY DEF list
<1>2. PICK last \in page : (\A i \in page : i <= last) /\ cursor' = last
  BY <1>1
<1>3. Ids \subseteq Nat /\ cursor \in Nat
  BY NumbersAssumption DEF IInv, TypeOK
<1>4. last \in Ids /\ cursor < last
  BY <1>2, <1>3
<1>5. page = {i \in Ids : cursor < i /\ i <= last}
  <2>1. ASSUME NEW i \in page PROVE i \in Ids /\ cursor < i /\ i <= last
    BY <1>2, <1>3
  <2>2. ASSUME NEW i \in Ids, cursor < i, i <= last PROVE i \in page
    <3>1. i \in later
      BY <1>3, <2>2
    <3>2. i \notin page => last < i
      BY <1>1, <1>2, <3>1
    <3> QED BY <1>3, <1>4, <2>2, <3>2
  <2> QED BY <2>1, <2>2
<1>6. Trail!ReadOn(last)
  BY <1>1, <1>2, <1>4, <1>5 DEF Trail!ReadOn, Trail!Ids, Ids
<1> QED BY <1>4, <1>6 DEF Trail!Next, Trail!Ids, Ids

\* The threads' appends implement a trail that grows one entry at a time, each
\* chained to the newest, and that is read without a gap.
THEOREM AppendsKeepTheTrail == Spec => KeepsTheTrail
<1>1. Init => Trail!Init
  BY DEF Init, Trail!Init
<1>2. ASSUME IInv, [Next]_vars
      PROVE  [Trail!Next]_(Trail!trail)
  <2>1. CASE UNCHANGED vars
    BY <2>1 DEF vars, Trail!trail
  <2>2. ASSUME NEW p \in Appenders, record(p)
        PROVE  [Trail!Next]_(Trail!trail)
    <3>1. CASE Begin(p)
      BY <3>1 DEF Begin, Trail!trail
    <3>2. CASE _lock_chain(p)
      BY <3>2 DEF _lock_chain, Trail!trail
    <3>3. CASE ReadTail(p)
      BY <3>3 DEF ReadTail, Trail!trail
    <3>4. CASE Flush(p)
      BY <3>4 DEF Flush, Trail!trail
    <3>5. CASE \E fields \in Fields : Commit(p, fields)
      BY <1>2, <3>5, CommitAppends
    <3>6. CASE Rollback(p)
      BY <3>6 DEF Rollback, Trail!trail
    <3> QED BY <2>2, <3>1, <3>2, <3>3, <3>4, <3>5, <3>6 DEF record
  <2>3. CASE list
    BY <1>2, <2>3, PageReadsOn
  <2>4. ASSUME NEW i \in Ids, Change(i)
        PROVE  [Trail!Next]_(Trail!trail)
    <3>1. Trail!Tamper
      BY <2>4 DEF Change, Edit, Copy, Erase, Changing, Trail!Tamper
    <3> QED BY <3>1 DEF Trail!Next
  <2> QED BY <1>2, <2>1, <2>2, <2>3, <2>4 DEF Next
<1> QED BY <1>1, <1>2, Inductive, PTL DEF Spec, KeepsTheTrail, Trail!Spec

-----------------------------------------------------------------------------
(* Listings of issues.                                                     *)

\* The numbers of a listing go down.
Descends(s) == \A j, k \in DOMAIN s : j < k => s[j] > s[k]

\* A set of numbers that is not empty has a lowest one.
LEMMA Lowest ==
    ASSUME NEW S \in SUBSET Nat, S # {}
    PROVE  \E n \in S : \A k \in S : n <= k
<1> DEFINE R == OpToRel(<, Nat)
<1>1. IsWellFoundedOn(R, Nat)
  BY NatLessThanWellFounded, Zenon
<1>2. PICK n \in S : \A k \in S : ~(<<k, n>> \in R)
  <2> HIDE DEF R
  <2> QED BY <1>1, WFMin
<1>3. \A k \in S : ~(k < n)
  BY <1>2 DEF OpToRel
<1> QED BY <1>3

\* A listing of what is left when the lowest number is taken out, with that
\* number put last, is a listing of the whole.
LEMMA Lengthen ==
    ASSUME NEW T \in SUBSET Nat, IsFiniteSet(T), NEW m \in T, \A k \in T : m <= k,
           NEW s \in [1 .. Cardinality(T \ {m}) -> T \ {m}], Descends(s)
    PROVE  \E t \in [1 .. Cardinality(T) -> T] : Descends(t)
<1>1. PICK n \in Nat : n = Cardinality(T)
  BY FS_CardinalityType
<1>2. s \in [1 .. (n - 1) -> T \ {m}] /\ n - 1 \in Nat
  <2>1. IsFiniteSet(T \ {m}) /\ Cardinality(T \ {m}) = n - 1
    BY <1>1, FS_RemoveElement
  <2>2. Cardinality(T \ {m}) \in Nat
    BY <2>1, FS_CardinalityType
  <2> QED BY <2>1, <2>2
<1> DEFINE t == [k \in 1 .. n |-> IF k = n THEN m ELSE s[k]]
<1>3. \A k \in 1 .. (n - 1) : s[k] \in T \ {m} /\ t[k] = s[k] /\ t[k] > m
  <2> TAKE k \in 1 .. (n - 1)
  <2>1. s[k] \in T \ {m}
    BY <1>2
  <2>2. s[k] \in Nat /\ m \in Nat /\ s[k] # m /\ m <= s[k]
    BY <2>1
  <2>3. k \in 1 .. n /\ k # n
    BY <1>2
  <2> QED BY <2>1, <2>2, <2>3
<1>4. t[n] = m
  BY <1>1, <1>2
<1>5. t \in [1 .. n -> T]
  <2>1. ASSUME NEW k \in 1 .. n, k # n PROVE s[k] \in T
    <3>1. k \in 1 .. (n - 1)
      BY <2>1
    <3> QED BY <1>3, <3>1
  <2> QED BY <2>1
<1>6. ASSUME NEW j \in 1 .. n, NEW k \in 1 .. n, j < k PROVE t[j] > t[k]
  <2>1. CASE k = n
    <3>1. j \in 1 .. (n - 1)
      BY <1>6, <2>1
    <3> QED BY <1>3, <1>4, <2>1, <3>1
  <2>2. CASE k # n
    <3>1. j \in 1 .. (n - 1) /\ k \in 1 .. (n - 1)
      BY <1>2, <1>6, <2>2
    <3>2. s[j] > s[k]
      BY <1>2, <1>6, <3>1 DEF Descends
    <3> QED BY <1>3, <3>1, <3>2
  <2> QED BY <2>1, <2>2
<1>7. DOMAIN t = 1 .. n
  OBVIOUS
<1> HIDE DEF t
<1>8. Descends(t)
  BY <1>6, <1>7 DEF Descends
<1> QED BY <1>1, <1>5, <1>8

\* Every set of numbers has a listing: of the sets that had none, one would be
\* the smallest.
LEMMA ListingExists ==
    ASSUME NEW S \in SUBSET Nat, IsFiniteSet(S)
    PROVE  \E s \in [1 .. Cardinality(S) -> S] : Descends(s)
<1> DEFINE Unlisted(n) ==
        \E T \in SUBSET Nat :
            /\ IsFiniteSet(T) /\ Cardinality(T) = n
            /\ ~ \E s \in [1 .. Cardinality(T) -> T] : Descends(s)
           C == {n \in Nat : Unlisted(n)}
<1>1. CASE C = {}
  BY <1>1, FS_CardinalityType
<1>2. CASE C # {}
  <2>1. PICK n \in C : \A k \in C : n <= k
    <3>1. C \in SUBSET Nat
      OBVIOUS
    <3> HIDE DEF C
    <3> QED BY <1>2, <3>1, Lowest
  <2>2. PICK T \in SUBSET Nat :
            /\ IsFiniteSet(T) /\ Cardinality(T) = n
            /\ ~ \E s \in [1 .. Cardinality(T) -> T] : Descends(s)
    BY <2>1
  <2>3. T # {}
    <3>1. SUFFICES ASSUME T = {} PROVE FALSE
      OBVIOUS
    <3>2. Cardinality(T) = 0
      BY <3>1, FS_EmptySet
    <3>3. [k \in 1 .. 0 |-> 0] \in [1 .. 0 -> T] /\ Descends([k \in 1 .. 0 |-> 0])
      BY DEF Descends
    <3> QED BY <2>2, <3>2, <3>3
  <2>4. PICK m \in T : \A k \in T : m <= k
    BY <2>3, Lowest
  <2>5. T \ {m} \in SUBSET Nat /\ IsFiniteSet(T \ {m}) /\ Cardinality(T \ {m}) = n - 1
    BY <2>2, FS_RemoveElement
  <2>6. n - 1 \in Nat
    BY <2>2, <2>5, FS_CardinalityType
  <2>7. n - 1 \notin C
    BY <2>1, <2>6
  <2>8. \E s \in [1 .. Cardinality(T \ {m}) -> T \ {m}] : Descends(s)
    BY <2>5, <2>6, <2>7
  <2> HIDE DEF C
  <2> QED BY <2>2, <2>4, <2>8, Lengthen
<1> QED BY <1>1, <1>2

\* NewestFirst names every member of a set once, the highest first.
LEMMA NewestFirstLists ==
    ASSUME NEW S \in SUBSET Nat, IsFiniteSet(S)
    PROVE  /\ NewestFirst(S) \in [1 .. Cardinality(S) -> S]
           /\ \A j, k \in DOMAIN NewestFirst(S) : j < k => NewestFirst(S)[j] > NewestFirst(S)[k]
           /\ \A x \in S : \E k \in DOMAIN NewestFirst(S) : NewestFirst(S)[k] = x
           /\ Cardinality(S) \in Nat
<1>1. \E s \in [1 .. Cardinality(S) -> S] : \A j, k \in DOMAIN s : j < k => s[j] > s[k]
  BY ListingExists DEF Descends
<1>2. PICK s : s = NewestFirst(S)
  OBVIOUS
<1>3. s \in [1 .. Cardinality(S) -> S] /\ \A j, k \in DOMAIN s : j < k => s[j] > s[k]
  BY <1>1, <1>2, Zenon DEF NewestFirst
<1>4. PICK n \in Nat : n = Cardinality(S)
  BY FS_CardinalityType
<1>5. s \in Injection(1 .. n, S)
  <2>1. ASSUME NEW j \in 1 .. n, NEW k \in 1 .. n, j # k PROVE s[j] # s[k]
    <3>1. j < k \/ k < j
      BY <2>1
    <3>2. j \in DOMAIN s /\ k \in DOMAIN s /\ s[j] \in S /\ s[k] \in S
      BY <1>3, <1>4
    <3>3. s[j] \in Nat /\ s[k] \in Nat
      BY <3>2
    <3>4. s[j] > s[k] \/ s[k] > s[j]
      BY <1>3, <3>1, <3>2
    <3> QED BY <3>3, <3>4
  <2> QED BY <1>3, <1>4, <2>1 DEF Injection, IsInjective
<1>6. s \in Surjection(1 .. n, S)
  BY <1>4, <1>5, FS_Injection, FS_Interval
<1> QED BY <1>2, <1>3, <1>4, <1>6 DEF Surjection

\* An issue that joins a listing or moves up in it pushes the others down,
\* and never up.
LEMMA NothingMovesUp ==
    ASSUME NEW S \in SUBSET Nat, NEW T \in SUBSET Nat, S \subseteq T, IsFiniteSet(T),
           NEW k \in DOMAIN NewestFirst(S), NEW j \in DOMAIN NewestFirst(T),
           NewestFirst(T)[j] = NewestFirst(S)[k]
    PROVE  k <= j
<1>1. PICK before : before = NewestFirst(S)
  OBVIOUS
<1>2. PICK after : after = NewestFirst(T)
  OBVIOUS
<1>3. PICK c \in Nat : /\ before \in [1 .. c -> S]
                       /\ \A x, y \in 1 .. c : x < y => before[x] > before[y]
  <2>1. IsFiniteSet(S)
    BY FS_Subset
  <2> QED BY <1>1, <2>1, NewestFirstLists
<1>4. PICK d \in Nat : /\ after \in [1 .. d -> T]
                       /\ \A x, y \in 1 .. d : x < y => after[x] > after[y]
                       /\ \A x \in T : \E y \in 1 .. d : after[y] = x
  BY <1>2, NewestFirstLists
<1>5. k \in 1 .. c /\ j \in 1 .. d /\ after[j] = before[k]
  BY <1>1, <1>2, <1>3, <1>4
<1>6. SUFFICES ASSUME j < k PROVE FALSE
  BY <1>5
<1>7. \A x \in 1 .. k : \E y \in 1 .. j : after[y] = before[x]
  <2> TAKE x \in 1 .. k
  <2>1. x \in 1 .. c
    BY <1>5
  <2>2. before[x] \in S
    BY <1>3, <2>1
  <2>3. PICK y \in 1 .. d : after[y] = before[x]
    BY <1>4, <2>2
  <2>4. before[x] \in Nat /\ before[k] \in Nat
    <3>1. before[x] \in S /\ before[k] \in S
      BY <1>3, <1>5, <2>1
    <3> QED BY <3>1
  <2>5. before[x] >= before[k]
    <3>1. x = k \/ x < k
      BY <1>5
    <3> QED BY <1>3, <1>5, <2>1, <2>4, <3>1
  <2>6. ~(j < y)
    <3>1. SUFFICES ASSUME j < y PROVE FALSE
      OBVIOUS
    <3>2. after[j] > after[y]
      BY <1>4, <1>5, <3>1
    <3> QED BY <1>5, <2>3, <2>4, <2>5, <3>2
  <2> QED BY <1>5, <2>3, <2>6
<1> DEFINE f == [x \in 1 .. k |-> CHOOSE y \in 1 .. j : after[y] = before[x]]
<1>8. f \in [1 .. k -> 1 .. j] /\ \A x \in 1 .. k : after[f[x]] = before[x]
  BY <1>7
<1> HIDE DEF f
<1>9. PICK x \in 1 .. k, y \in 1 .. k : x # y /\ f[x] = f[y]
  <2>1. /\ IsFiniteSet(1 .. k) /\ IsFiniteSet(1 .. j)
        /\ Cardinality(1 .. k) = k /\ Cardinality(1 .. j) = j
    BY <1>5, FS_Interval
  <2>2. Cardinality(1 .. j) < Cardinality(1 .. k)
    BY <1>5, <1>6, <2>1
  <2>3. PICK A, B : A = 1 .. k /\ B = 1 .. j
    OBVIOUS
  <2>4. /\ IsFiniteSet(A) /\ IsFiniteSet(B)
        /\ Cardinality(B) < Cardinality(A) /\ f \in [A -> B]
    BY <1>8, <2>1, <2>2, <2>3
  <2>5. \E x, y \in A : x # y /\ f[x] = f[y]
    BY <2>4, FS_PigeonHole
  <2> QED BY <2>3, <2>5
<1>10. before[x] = before[y]
  BY <1>8, <1>9
<1>11. x \in 1 .. c /\ y \in 1 .. c /\ before[x] \in S /\ before[y] \in S
  BY <1>3, <1>5
<1>12. x < y \/ y < x
  BY <1>9, <1>11
<1>13. before[x] > before[y] \/ before[y] > before[x]
  BY <1>3, <1>11, <1>12
<1>14. before[x] \in Nat /\ before[y] \in Nat
  BY <1>11
<1> QED BY <1>10, <1>13, <1>14

-----------------------------------------------------------------------------
(* No instant of the state is later than the present.                      *)

\* A version of an issue of the instant t or earlier, and a pass of that time.
IssueBy(t) == [updated : 0 .. t, open : BOOLEAN]

PassBy(t) ==
    [pc : {"idle", "read", "refs", "import"}, since : {n \in Int : n <= t},
     page : Nat \ {0}, refs : Seq(Numbers),
     got : Seq([id : Numbers, issue : IssueBy(t)]), began : Nat]

\* Every instant the import knows of is past.
ListingInv ==
    /\ limit \in Nat
    /\ now \in Nat /\ FirstTick <= now
    /\ filed \in 0 .. Cardinality(Numbers)
    /\ host \in [Numbers -> IssueBy(now)]
    /\ watermark \in Int /\ watermark <= now
    /\ pass \in PassBy(now)

\* The numbers of a repository, and any of them, are a finite set.
LEMMA NumbersAreFinite ==
    /\ Numbers \in SUBSET Nat /\ IsFiniteSet(Numbers)
    /\ Cardinality(Numbers) \in Nat
    /\ \A S \in SUBSET Numbers : S \in SUBSET Nat /\ IsFiniteSet(S)
<1>1. IsFiniteSet(Numbers) /\ Cardinality(Numbers) \in Nat
  BY IssueNumbers, FS_CardinalityType
<1>2. Numbers \in SUBSET Nat
  BY <1>1, IssueNumbers
<1> QED BY <1>1, <1>2, FS_Subset

\* A listing is a sequence.
LEMMA ListingIsSequence ==
    ASSUME NEW S \in SUBSET Numbers
    PROVE  NewestFirst(S) \in Seq(S)
<1>1. PICK c \in Nat : NewestFirst(S) \in [1 .. c -> S]
  BY NumbersAreFinite, NewestFirstLists
<1> QED BY <1>1

\* Cutting a listing off leaves a listing.
LEMMA FirstOfSequence ==
    ASSUME NEW S, NEW s \in Seq(S), NEW n \in Nat
    PROVE  FirstOf(n, s) \in Seq(S)
<1>1. CASE Len(s) <= n
  BY <1>1 DEF FirstOf
<1>2. CASE ~(Len(s) <= n)
  <2>1. 1 \in 1 .. (Len(s) + 1) /\ n \in (1 - 1) .. Len(s)
    BY <1>2
  <2>2. SubSeq(s, 1, n) \in Seq(S)
    BY <2>1, SubSeqProperties
  <2> QED BY <1>2, <2>2 DEF FirstOf
<1> QED BY <1>1, <1>2

\* The invariant holds at first.
LEMMA ListingStarts == ListingInit => ListingInv
<1> SUFFICES ASSUME ListingInit PROVE ListingInv
  OBVIOUS
<1>1. now = FirstTick /\ now \in Nat /\ limit \in Nat
  BY ListingBounds DEF ListingInit, FirstTick
<1>2. host \in [Numbers -> IssueBy(now)]
  BY <1>1 DEF ListingInit, IssueBy, NoIssue, Null
<1>3. pass \in PassBy(now)
  <2>1. <<>> \in Seq(Numbers) /\ <<>> \in Seq([id : Numbers, issue : IssueBy(now)])
    OBVIOUS
  <2> QED BY <1>1, <2>1 DEF ListingInit, PassBy, Idle, Null
<1>4. filed \in 0 .. Cardinality(Numbers)
  BY ListingBounds DEF ListingInit
<1>5. watermark \in Int /\ watermark <= now
  BY <1>1 DEF ListingInit, Null
<1>6. FirstTick <= now
  BY <1>1
<1> QED BY <1>1, <1>2, <1>3, <1>4, <1>5, <1>6 DEF ListingInv

\* What is read of an issue of the host is a version of it until now.
LEMMA ReadOf ==
    ASSUME ListingInv, NEW i \in Numbers
    PROVE  Read(i) \in [id : Numbers, issue : IssueBy(now)]
BY DEF ListingInv, Read

\* What is read of a listing's issues is a sequence of such reads.
LEMMA ReadsOf ==
    ASSUME ListingInv, NEW s \in Seq(Numbers)
    PROVE  [k \in DOMAIN s |-> Read(s[k])] \in Seq([id : Numbers, issue : IssueBy(now)])
<1>1. PICK n \in Nat : n = Len(s) /\ DOMAIN s = 1 .. n
  OBVIOUS
<1>2. \A k \in 1 .. n : Read(s[k]) \in [id : Numbers, issue : IssueBy(now)]
  BY <1>1, ReadOf
<1>3. [k \in DOMAIN s |-> Read(s[k])] \in [1 .. n -> [id : Numbers, issue : IssueBy(now)]]
  BY <1>1, <1>2
<1> QED BY <1>3

\* The steps of the three providers keep the type of the pass.
LEMMA ReadPageInv ==
    ASSUME ListingInv, ReadPage
    PROVE  pass' \in PassBy(now)
<1> DEFINE listed == Listing(host, pass.since)
           page == {listed[k] : k \in DOMAIN listed \cap (Offset + 1 .. Offset + PageSize)}
           issues == NewestFirst(page \ Pulls)
           got == pass.got \o [k \in DOMAIN issues |-> Read(issues[k])]
           Reads == Seq([id : Numbers, issue : IssueBy(now)])
<1>1. pass' = IF last_page(page) \/ Len(got) >= limit
              THEN [pass EXCEPT !.pc = "import", !.got = FirstOf(limit, got)]
              ELSE [pass EXCEPT !.page = @ + 1, !.got = got]
  BY DEF ReadPage, Becomes
<1>2. page \subseteq Numbers
  <2>1. Matching(host, pass.since) \in SUBSET Numbers
    BY DEF Matching
  <2>2. listed \in Seq(Numbers)
    <3>1. listed \in Seq(Matching(host, pass.since))
      BY <2>1, ListingIsSequence DEF Listing
    <3> HIDE DEF listed
    <3> QED BY <2>1, <3>1
  <2> HIDE DEF listed
  <2> QED BY <2>2
<1>3. issues \in Seq(Numbers)
  <2>1. page \ Pulls \in SUBSET Numbers
    BY <1>2
  <2>2. issues \in Seq(page \ Pulls)
    BY <2>1, ListingIsSequence
  <2> HIDE DEF issues, page
  <2> QED BY <2>1, <2>2
<1>4. got \in Reads
  <2> HIDE DEF issues, page
  <2>1. PICK new : new = [k \in DOMAIN issues |-> Read(issues[k])]
    OBVIOUS
  <2>2. new \in Reads
    BY <1>3, <2>1, ReadsOf
  <2>3. pass.got \in Reads
    BY DEF ListingInv, PassBy
  <2>4. got = pass.got \o new
    BY <2>1
  <2> HIDE DEF got
  <2> QED BY <2>2, <2>3, <2>4
<1> HIDE DEF got, page
<1>5. FirstOf(limit, got) \in Reads
  BY <1>4, FirstOfSequence DEF ListingInv
<1>6. pass \in PassBy(now) /\ pass.page + 1 \in Nat \ {0}
  BY DEF ListingInv, PassBy
<1>7. CASE last_page(page) \/ Len(got) >= limit
  <2>1. pass' = [pass EXCEPT !.pc = "import", !.got = FirstOf(limit, got)]
    BY <1>1, <1>7
  <2> QED BY <1>5, <1>6, <2>1 DEF PassBy
<1>8. CASE ~(last_page(page) \/ Len(got) >= limit)
  <2>1. pass' = [pass EXCEPT !.page = @ + 1, !.got = got]
    BY <1>1, <1>8
  <2> QED BY <1>4, <1>6, <2>1 DEF PassBy
<1> QED BY <1>7, <1>8

LEMMA ReadOnceInv ==
    ASSUME ListingInv, ReadOnce
    PROVE  pass' \in PassBy(now)
<1> DEFINE listed == NewestFirst(Matching(host, pass.since) \ Pulls)
           issues == FirstOf(Min({limit, HostCap}), listed)
<1>1. pass' = [pass EXCEPT !.pc = "import", !.got = [k \in DOMAIN issues |-> Read(issues[k])]]
  BY DEF ReadOnce, Becomes
<1>2. listed \in Seq(Numbers)
  <2>1. Matching(host, pass.since) \ Pulls \in SUBSET Numbers
    BY DEF Matching
  <2>2. listed \in Seq(Matching(host, pass.since) \ Pulls)
    BY <2>1, ListingIsSequence
  <2> HIDE DEF listed
  <2> QED BY <2>1, <2>2
<1> HIDE DEF listed
<1>3. issues \in Seq(Numbers)
  <2>1. limit \in Nat /\ HostCap \in Nat
    BY ListingBounds DEF ListingInv
  <2>2. Min({limit, HostCap}) \in Nat
    BY <2>1 DEF Min
  <2> QED BY <1>2, <2>2, FirstOfSequence
<1> HIDE DEF issues
<1>4. [k \in DOMAIN issues |-> Read(issues[k])] \in Seq([id : Numbers, issue : IssueBy(now)])
  BY <1>3, ReadsOf
<1> QED BY <1>1, <1>4 DEF ListingInv, PassBy

LEMMA QueryInv ==
    ASSUME ListingInv, Query
    PROVE  pass' \in PassBy(now)
<1> DEFINE listed == NewestFirst(Matching(host, pass.since) \ Pulls)
<1>1. pass' = [pass EXCEPT !.pc = "refs", !.refs = FirstOf(limit, listed)]
  BY DEF Query, Becomes
<1>2. listed \in Seq(Numbers)
  <2>1. Matching(host, pass.since) \ Pulls \in SUBSET Numbers
    BY DEF Matching
  <2>2. listed \in Seq(Matching(host, pass.since) \ Pulls)
    BY <2>1, ListingIsSequence
  <2> HIDE DEF listed
  <2> QED BY <2>1, <2>2
<1> HIDE DEF listed
<1>3. FirstOf(limit, listed) \in Seq(Numbers)
  BY <1>2, FirstOfSequence DEF ListingInv
<1> QED BY <1>1, <1>3 DEF ListingInv, PassBy

LEMMA ReadRefInv ==
    ASSUME ListingInv, ReadRef
    PROVE  pass' \in PassBy(now)
<1>1. CASE pass.refs = <<>>
  BY <1>1 DEF ReadRef, Becomes, ListingInv, PassBy
<1>2. CASE pass.refs # <<>>
  <2>1. pass.refs \in Seq(Numbers) /\ Head(pass.refs) \in Numbers
    BY <1>2 DEF ListingInv, PassBy
  <2>2. Tail(pass.refs) \in Seq(Numbers)
    BY <1>2, <2>1
  <2>3. Append(pass.got, Read(Head(pass.refs))) \in Seq([id : Numbers, issue : IssueBy(now)])
    BY <2>1, ReadOf DEF ListingInv, PassBy
  <2> QED BY <1>2, <2>2, <2>3 DEF ReadRef, Becomes, Mishap, ListingInv, PassBy
<1> QED BY <1>1, <1>2

\* The members of a sequence over S are in S.
LEMMA ElementsOf ==
    ASSUME NEW S, NEW s \in Seq(S), NEW k \in DOMAIN s
    PROVE  s[k] \in S
OBVIOUS

\* The watermark of a pass lies in the past.
LEMMA WatermarkInv ==
    ASSUME ListingInv
    PROVE  next_watermark(pass.got) \in Int /\ next_watermark(pass.got) <= now
<1>1. CASE pass.got = <<>>
  BY <1>1 DEF next_watermark, ListingInv, PassBy
<1>2. CASE pass.got # <<>>
  <2> DEFINE U == {pass.got[k].issue.updated : k \in DOMAIN pass.got}
  <2>1. U \in SUBSET (0 .. now) /\ U # {}
    <3>1. pass.got \in Seq([id : Numbers, issue : IssueBy(now)])
      BY DEF ListingInv, PassBy
    <3>2. \A k \in DOMAIN pass.got : pass.got[k].issue.updated \in 0 .. now
      <4> TAKE k \in DOMAIN pass.got
      <4>1. pass.got[k] \in [id : Numbers, issue : IssueBy(now)]
        BY <3>1, ElementsOf
      <4>2. pass.got[k].issue \in IssueBy(now)
        BY <4>1
      <4> QED BY <4>2 DEF IssueBy
    <3>3. DOMAIN pass.got # {}
      <4>1. Len(pass.got) # 0
        BY <1>2, <3>1
      <4>2. 1 \in DOMAIN pass.got
        BY <3>1, <4>1
      <4> QED BY <4>2
    <3> QED BY <3>2, <3>3
  <2> HIDE DEF U
  <2>2. Max(U) \in U
    <3>1. IsFiniteSet(0 .. now) /\ now \in Nat
      BY FS_Interval DEF ListingInv
    <3>2. U \in SUBSET Nat /\ IsFiniteSet(U)
      <4>1. IsFiniteSet(U)
        BY <2>1, <3>1, FS_Subset
      <4> QED BY <2>1, <3>1, <4>1
    <3>3. PICK s : s = NewestFirst(U)
      OBVIOUS
    <3>4. PICK c \in Nat : /\ s \in [1 .. c -> U]
                           /\ \A j, k \in 1 .. c : j < k => s[j] > s[k]
                           /\ \A x \in U : \E k \in 1 .. c : s[k] = x
      BY <3>2, <3>3, NewestFirstLists
    <3>5. 1 \in 1 .. c
      <4>1. PICK x \in U : TRUE
        BY <2>1
      <4>2. PICK k \in 1 .. c : s[k] = x
        BY <3>4
      <4> QED BY <3>4, <4>2
    <3>6. \A k \in 1 .. c : s[1] >= s[k]
      <4> TAKE k \in 1 .. c
      <4>1. s[1] \in Nat /\ s[k] \in Nat
        BY <3>2, <3>4, <3>5
      <4> QED BY <3>4, <3>5, <4>1
    <3>7. s[1] \in U /\ \A y \in U : s[1] >= y
      BY <3>4, <3>5, <3>6
    <3> QED BY <3>7 DEF Max
  <2>3. next_watermark(pass.got) = Max(U) - Overlap
    BY <1>2 DEF next_watermark, U
  <2>4. Overlap \in Nat /\ now \in Nat
    BY ListingBounds DEF ListingInv
  <2>5. Max(U) \in Int /\ Max(U) <= now
    <3>1. PICK w \in U : w = Max(U)
      BY <2>2
    <3>2. w \in 0 .. now
      BY <2>1
    <3> QED BY <2>4, <3>1, <3>2
  <2> QED BY <2>3, <2>4, <2>5
<1> QED BY <1>1, <1>2

\* What was not later than t is not later than t + 1.
LEMMA Later ==
    ASSUME NEW t \in Nat
    PROVE  /\ IssueBy(t) \subseteq IssueBy(t + 1)
           /\ PassBy(t) \subseteq PassBy(t + 1)
<1>1. IssueBy(t) \subseteq IssueBy(t + 1)
  BY DEF IssueBy
<1>2. [id : Numbers, issue : IssueBy(t)] \subseteq [id : Numbers, issue : IssueBy(t + 1)]
  BY <1>1
<1>3. Seq([id : Numbers, issue : IssueBy(t)]) \subseteq Seq([id : Numbers, issue : IssueBy(t + 1)])
  <2> DEFINE A == [id : Numbers, issue : IssueBy(t)]
             B == [id : Numbers, issue : IssueBy(t + 1)]
  <2>1. A \subseteq B
    BY <1>2
  <2> HIDE DEF A, B
  <2>2. Seq(A) \subseteq Seq(B)
    BY <2>1
  <2> QED BY <2>2 DEF A, B
<1>4. {n \in Int : n <= t} \subseteq {n \in Int : n <= t + 1}
  OBVIOUS
<1> QED BY <1>1, <1>3, <1>4 DEF PassBy

\* What an issue becomes when it is filed or changed.
Version(o) == [updated |-> now, open |-> o]

\* The steps of the host: an issue is filed or changed, and nothing else is
\* touched.
LEMMA HostSteps ==
    ASSUME ListingInv,
           File \/ \E i \in Numbers, open \in BOOLEAN : Touch(i, open)
    PROVE  \E i \in Numbers, o \in BOOLEAN :
              /\ HostBecomes([host EXCEPT ![i] = Version(o)])
              /\ filed' \in 0 .. Cardinality(Numbers)
<1>1. CASE File
  <2>1. /\ filed + 1 \in 1 .. Cardinality(Numbers)
        /\ filed' = filed + 1
        /\ HostBecomes([host EXCEPT ![filed + 1] = Version(TRUE)])
    BY <1>1, NumbersAreFinite DEF File, Version, ListingInv
  <2>2. filed + 1 \in Numbers /\ filed' \in 0 .. Cardinality(Numbers)
    BY <2>1, NumbersAreFinite, IssueNumbers
  <2> QED BY <2>1, <2>2
<1>2. CASE \E i \in Numbers, open \in BOOLEAN : Touch(i, open)
  BY <1>2 DEF Touch, Version, ListingInv
<1> QED BY <1>1, <1>2

\* A step of the host keeps the invariant.
LEMMA HostInv ==
    ASSUME ListingInv, NEW i \in Numbers, NEW o \in BOOLEAN,
           HostBecomes([host EXCEPT ![i] = Version(o)]),
           filed' \in 0 .. Cardinality(Numbers)
    PROVE  ListingInv'
<1>1. Version(o) \in IssueBy(now)
  BY DEF Version, IssueBy, ListingInv
<1>2. host' \in [Numbers -> IssueBy(now)]
  BY <1>1 DEF HostBecomes, ListingInv
<1>3. /\ limit' = limit /\ now' = now /\ watermark' = watermark /\ pass' = pass
  BY DEF HostBecomes, state
<1>4. FirstTick' = FirstTick
  BY DEF FirstTick
<1> QED BY <1>2, <1>3 DEF ListingInv, PassBy, IssueBy, FirstTick

\* A pass that asks for every state loses no issue from its listing.
LEMMA ListingGrows ==
    ASSUME ListingInv, pass.since # Null, NEW i \in Numbers, NEW o \in BOOLEAN
    PROVE  Matching(host, pass.since)
              \subseteq Matching([host EXCEPT ![i] = Version(o)], pass.since)
<1> DEFINE h == [host EXCEPT ![i] = Version(o)]
<1> SUFFICES ASSUME NEW n \in Matching(host, pass.since)
             PROVE  n \in Matching(h, pass.since)
  OBVIOUS
<1>1. n \in Numbers /\ host[n] # NoIssue /\ (provider = "github" => host[n].updated >= pass.since)
  BY DEF Matching
<1>2. state_filter(pass.since) = BOOLEAN
  BY DEF state_filter
<1>3. CASE n # i
  <2>1. h[n] = host[n]
    BY <1>1, <1>3 DEF ListingInv
  <2>2. h[n].open \in BOOLEAN
    BY <1>1, <2>1 DEF ListingInv, IssueBy
  <2> QED BY <1>1, <1>2, <2>1, <2>2 DEF Matching
<1>4. CASE n = i
  <2>1. h[n] = Version(o)
    BY <1>1, <1>4 DEF ListingInv
  <2>2. Version(o).open \in BOOLEAN /\ Version(o).updated = now
    BY DEF Version
  <2>3. Version(o) # NoIssue
    <3>1. now # Null
      BY ListingBounds DEF ListingInv, FirstTick, Null
    <3> QED BY <2>2, <3>1 DEF NoIssue
  <2>4. now >= pass.since
    BY DEF ListingInv, PassBy
  <2> QED BY <1>1, <1>2, <2>1, <2>2, <2>3, <2>4 DEF Matching
<1> QED BY <1>3, <1>4

\* What changes while an incremental pass reads pushes no unread issue onto a
\* page that has been read.
LEMMA NothingSlips ==
    ASSUME ListingInv, pass.since # Null, NEW i \in Numbers, NEW o \in BOOLEAN
    PROVE  ShiftedPast([host EXCEPT ![i] = Version(o)]) = {}
<1> DEFINE h == [host EXCEPT ![i] = Version(o)]
           S == Matching(host, pass.since)
           T == Matching(h, pass.since)
<1>1. S \subseteq T
  BY ListingGrows
<1>2. T \in SUBSET Numbers
  BY DEF Matching
<1>3. S \in SUBSET Nat /\ T \in SUBSET Nat /\ IsFiniteSet(T) /\ IsFiniteSet(S)
  <2> HIDE DEF S, T
  <2> QED BY <1>1, <1>2, NumbersAreFinite
<1>4. Offset \in Int
  <2>1. PageSize \in Int /\ pass.page - 1 \in Int
    BY ListingBounds DEF ListingInv, PassBy
  <2> QED BY <2>1 DEF Offset
<1> SUFFICES ASSUME NEW k \in DOMAIN NewestFirst(S) \ (1 .. Offset),
                    NEW j \in DOMAIN NewestFirst(T) \cap (1 .. Offset),
                    NewestFirst(T)[j] = NewestFirst(S)[k]
             PROVE  FALSE
  BY DEF ShiftedPast, Listing
<1> HIDE DEF S, T
<1>5. k <= j
  BY <1>1, <1>3, NothingMovesUp
<1>6. k \in Nat \ {0}
  <2>1. PICK c \in Nat : NewestFirst(S) \in [1 .. c -> S]
    BY <1>3, NewestFirstLists
  <2> QED BY <2>1
<1> QED BY <1>4, <1>5, <1>6

\* Every step keeps the invariant.
LEMMA ListingContinues == ListingInv /\ [ListingNext]_listingVars => ListingInv'
<1> SUFFICES ASSUME ListingInv, [ListingNext]_listingVars PROVE ListingInv'
  OBVIOUS
<1>1. ASSUME pass' \in PassBy(now), watermark' \in Int, watermark' <= now,
             UNCHANGED <<limit, now, host, filed>>
      PROVE  ListingInv'
  BY <1>1 DEF ListingInv, PassBy, IssueBy, FirstTick
<1>2. Idle \in PassBy(now)
  <2>1. <<>> \in Seq(Numbers) /\ <<>> \in Seq([id : Numbers, issue : IssueBy(now)])
    OBVIOUS
  <2> QED BY <2>1 DEF ListingInv, PassBy, Idle, Null
<1>3. CASE BeginListing
  <2>1. pass' = [Idle EXCEPT !.pc = "read", !.since = watermark, !.began = now]
    BY <1>3 DEF BeginListing, Becomes
  <2>2. pass' \in PassBy(now)
    BY <1>2, <2>1 DEF PassBy, ListingInv
  <2> QED BY <1>1, <1>3, <2>2 DEF BeginListing, outside, state, ListingInv
<1>4. CASE ReadPage
  BY <1>1, <1>4, ReadPageInv DEF ReadPage, outside, state, ListingInv
<1>5. CASE ReadOnce
  BY <1>1, <1>5, ReadOnceInv DEF ReadOnce, outside, state, ListingInv
<1>6. CASE Query
  BY <1>1, <1>6, QueryInv DEF Query, outside, state, ListingInv
<1>7. CASE ReadRef
  BY <1>1, <1>7, ReadRefInv DEF ReadRef, outside, state, ListingInv
<1>8. CASE Import
  BY <1>1, <1>2, <1>8, WatermarkInv DEF Import, Becomes, outside
<1>9. CASE Fail
  BY <1>1, <1>2, <1>9 DEF Fail, Becomes, outside, state, ListingInv
<1>10. CASE File \/ \E i \in Numbers, open \in BOOLEAN : Touch(i, open)
  BY <1>10, HostSteps, HostInv
<1>11. CASE Tick
  <2>1. now' = now + 1 /\ UNCHANGED <<limit, host, filed, watermark, pass>>
    BY <1>11 DEF Tick, state
  <2>2. host \in [Numbers -> IssueBy(now + 1)] /\ pass \in PassBy(now + 1)
    BY Later DEF ListingInv
  <2>3. now + 1 \in Nat /\ FirstTick <= now + 1 /\ watermark <= now + 1
    BY ListingBounds DEF ListingInv, FirstTick
  <2> QED BY <2>1, <2>2, <2>3 DEF ListingInv, PassBy, IssueBy, FirstTick
<1>12. CASE UNCHANGED listingVars
  BY <1>12 DEF listingVars, outside, state, ListingInv, PassBy, IssueBy, FirstTick
<1> QED BY <1>3, <1>4, <1>5, <1>6, <1>7, <1>8, <1>9, <1>10, <1>11, <1>12
        DEF ListingNext, Listed

\* No watermark, version or read of the import lies in the future: what a pass
\* asks for by date holds everything that changes from then on.
THEOREM InstantsArePast == ListingSpec => []ListingInv
<1> QED BY ListingStarts, ListingContinues, PTL DEF ListingSpec

\* IncrementalReadsMissNothing: the pages of an incremental pass, which asks for
\* issues of every state (issue_import.py:228-245), miss no issue because of what
\* is filed, edited, closed or reopened while they are read.
THEOREM IncrementalPassesAreWhole == ListingSpec => IncrementalReadsMissNothing
<1>1. ASSUME ListingInv, [ListingNext]_listingVars
      PROVE  [pass.since # Null => slipped' = slipped]_listingVars
  <2> SUFFICES ASSUME ListingNext, pass.since # Null PROVE slipped' = slipped
    BY <1>1
  <2>1. CASE File \/ \E i \in Numbers, open \in BOOLEAN : Touch(i, open)
    <3>1. PICK i \in Numbers, o \in BOOLEAN :
              HostBecomes([host EXCEPT ![i] = Version(o)])
      BY <1>1, <2>1, HostSteps
    <3>2. ShiftedPast([host EXCEPT ![i] = Version(o)]) = {}
      BY <1>1, NothingSlips
    <3> QED BY <3>1, <3>2 DEF HostBecomes
  <2>2. CASE ~(File \/ \E i \in Numbers, open \in BOOLEAN : Touch(i, open))
    BY <2>2 DEF ListingNext, Listed, BeginListing, ReadPage, ReadOnce, Query,
           ReadRef, Import, Fail, Tick, outside
  <2> QED BY <2>1, <2>2
<1> QED BY <1>1, InstantsArePast, PTL DEF ListingSpec, IncrementalReadsMissNothing

=============================================================================
