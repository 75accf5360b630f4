-------------------------- MODULE IssueImportProofs --------------------------
(***************************************************************************)
(* The proofs about IssueImport.  While passes do not overlap and a first  *)
(* import is not cut short, the watermark leaves no change of an issue     *)
(* behind.  A card that was deleted stays as it is, whatever happens.      *)
(***************************************************************************)
EXTENDS IssueImport, TLAPS

\* One pass at a time, none of them full, no first import interrupted.
Serial == ~Overlaps /\ ~Interrupts /\ TRUE \notin FullChoices

-----------------------------------------------------------------------------
(* The invariant.                                                          *)

TInv ==
    /\ now \in Stamps
    /\ host \in [Issues -> Issue]
    /\ shown \in [Issues -> Issue]
    /\ card \in [Issues -> Card]
    /\ watermark \in Watermarks
    /\ lease \in BOOLEAN
    /\ pass \in [Importers -> Pass]
    /\ reported \in BOOLEAN

\* Whoever polls holds the lease, and what is known of it as free is free.
LeaseInv ==
    /\ OnePollerPerLease
    /\ \A p, q \in Importers : InPass(p) /\ InPass(q) => p = q
    /\ \A p \in Pollers : InPass(p) => lease
    /\ \A p \in Pollers : At(p, "claim") /\ pass[p].fresh => ~lease
    /\ \A p \in Manual : ~At(p, "claim")
    /\ \A p \in Importers : ~pass[p].full

\* The listing is behind the host by at most the lag.
HostInv ==
    /\ watermark <= now
    /\ \A i \in Issues :
          /\ host[i].updated <= now
          /\ host[i].updated = Never => host[i] = NotFiled
          /\ shown[i].updated = Never => shown[i] = NotFiled
          /\ shown[i] # host[i] =>
                shown[i].updated < host[i].updated /\ now <= host[i].updated + Lag

Reading(p) == pass[p].pc \in {"next", "create", "labels", "update"}
Writing(p) == pass[p].pc \in {"create", "labels", "update"}

\* Issue i will be asked for again after a pass whose newest update is t.
AskedAgain(i, t) == host[i].updated >= t - Overlap

\* What pass p has listed is at least as new as the watermark, and where the
\* host is newer by now, the next pass will ask.
ListedInv(p) ==
    \A i \in Issues : pass[p].listed[i] # NotFiled =>
        /\ pass[p].newest # Never
        /\ pass[p].listed[i].updated # Never
        /\ watermark <= pass[p].listed[i].updated
        /\ pass[p].listed[i].updated <= host[i].updated
        /\ pass[p].listed[i].updated # host[i].updated =>
              AskedAgain(i, pass[p].newest)

\* What it has not listed, or has dealt with, is as it should be.
DoneInv(p) ==
    \A i \in Issues : pass[p].listed[i] = NotFiled =>
        \/ reported
        \/ pass[p].newest = Never
        \/ UpToDate(i)
        \/ AskedAgain(i, pass[p].newest)

\* The row of the issue that is being written is the one that was looked up.
RowInv(p) ==
    LET i == pass[p].issue
    IN  /\ i \in Issues
        /\ pass[p].listed[i] # NotFiled
        /\ At(p, "labels") =>
              \/ card[i].row = "deleted"
              \/ card[i].row = "live" /\ card[i].fields = pass[p].listed[i].updated
        /\ At(p, "update") =>
              \/ card[i].row = "deleted"
              \/ /\ card[i].row = "live"
                 /\ card[i].fields = pass[p].snap.fields
                 /\ card[i].labels = pass[p].snap.labels

PassInv(p) ==
    /\ InPass(p) /\ ~At(p, "start") => pass[p].since = watermark
    /\ Reading(p) =>
          pass[p].newest <= now /\ ListedInv(p) /\ DoneInv(p)
    /\ Writing(p) => RowInv(p)

\* Without a watermark there are no cards, but those of the first import.
FirstInv ==
    watermark = Never =>
        \/ \A i \in Issues : card[i].row = "none"
        \/ \E p \in Importers : Reading(p) /\ pass[p].newest # Never

IInv ==
    /\ TInv /\ LeaseInv /\ HostInv
    /\ \A p \in Importers : PassInv(p)
    /\ FirstInv
    /\ NothingFallsBehind

-----------------------------------------------------------------------------
(* Types.                                                                  *)

\* The constants of the vocabulary have their types.
LEMMA ConstantTypes ==
    /\ Overlap \in Nat /\ Lag \in Nat /\ MaxTime \in Nat /\ Lag <= Overlap
    /\ Issues \subseteq Nat \ {0}
    /\ NotFiled \in Issue
    /\ Nothing \in [Issues -> Issue]
    /\ NoCard \in Card
    /\ Idle \in Pass
    /\ FirstTick \in Stamps
<1>1. /\ Overlap \in Nat /\ Lag \in Nat /\ MaxTime \in Nat /\ Lag <= Overlap
      /\ Issues \subseteq Nat \ {0}
  BY NumberAssumption, LagAssumption
<1>2. NotFiled \in Issue
  BY DEF NotFiled, Issue
<1>3. Nothing \in [Issues -> Issue]
  BY <1>2 DEF Nothing
<1>4. NoCard \in Card
  BY DEF NoCard, Card, Statuses
<1>5. Idle \in Pass
  BY <1>3, <1>4 DEF Idle, Pass, Steps, Watermarks
<1>6. FirstTick \in Stamps
  BY <1>1, NumberAssumption DEF FirstTick, Stamps
<1>7. QED
  BY <1>1, <1>2, <1>3, <1>4, <1>5, <1>6

\* A pass that is done with an issue is a pass without that issue.
LEMMA OverTypes ==
    ASSUME NEW p \in Importers, pass \in [Importers -> Pass], NEW i \in Issues
    PROVE  /\ Over(p, i) \in Pass
           /\ Over(p, i).pc = "next"
           /\ Over(p, i).newest = pass[p].newest
           /\ Over(p, i).since = pass[p].since
           /\ Over(p, i).full = pass[p].full
           /\ Over(p, i).listed = [pass[p].listed EXCEPT ![i] = NotFiled]
  BY ConstantTypes DEF Over, Pass, Steps

\* What an update writes on a card is a card; its row and entry are as they
\* were, and its fields and labels come from the issue or stay.
LEMMA ChangesTypes ==
    ASSUME NEW c \in Card, NEW snap \in Card, NEW issue \in Issue
    PROVE  LET w == _changes_for(c, snap, issue)
           IN  /\ w \in Card
               /\ w.row = c.row
               /\ w.fields = IF snap.fields # issue.updated THEN issue.updated ELSE c.fields
               /\ w.labels = IF snap.labels # issue.updated THEN issue.updated ELSE c.labels
  BY DEF _changes_for, Card, Issue, Statuses, _status_for

\* What a listing leaves the pass with.
LEMMA FetchStep ==
    ASSUME TInv, NEW p \in Importers, NEW limit \in Limits, fetch_issues(p, limit)
    PROVE  \E page \in SUBSET Issues, newest \in Stamps \cup {Never} :
              /\ IsPage(page, _filters(pass[p].since), limit)
              /\ page \subseteq _filters(pass[p].since)
              /\ newest \in {shown[i].updated : i \in page} \cup {Never}
              /\ \A i \in page : shown[i].updated <= newest
              /\ pass'[p] \in Pass
              /\ pass'[p].pc = "next"
              /\ pass'[p].since = pass[p].since
              /\ pass'[p].full = pass[p].full
              /\ pass'[p].newest = newest
              /\ pass'[p].listed = [i \in Issues |-> IF i \in page THEN shown[i] ELSE NotFiled]
              /\ pass' = [pass EXCEPT ![p] = pass'[p]]
              /\ reported' = (reported \/ Cardinality(page) >= limit)
<1> USE ConstantTypes DEF TInv
<1>1. PICK page \in SUBSET _filters(pass[p].since) :
        /\ IsPage(page, _filters(pass[p].since), limit)
        /\ \E newest \in {shown[i].updated : i \in page} \cup {Never} :
              /\ \A t \in {shown[i].updated : i \in page} \cup {Never} : t <= newest
              /\ Becomes(p, [pass[p] EXCEPT
                   !.pc = "next", !.newest = newest,
                   !.listed = [i \in Issues |-> IF i \in page THEN shown[i] ELSE NotFiled]])
        /\ reported' = (reported \/ Cardinality(page) >= limit)
  BY DEF fetch_issues
<1>2. PICK newest \in {shown[i].updated : i \in page} \cup {Never} :
        /\ \A t \in {shown[i].updated : i \in page} \cup {Never} : t <= newest
        /\ Becomes(p, [pass[p] EXCEPT
              !.pc = "next", !.newest = newest,
              !.listed = [i \in Issues |-> IF i \in page THEN shown[i] ELSE NotFiled]])
  BY <1>1
<1>3. page \in SUBSET Issues
  BY DEF _filters
<1>4. newest \in Stamps \cup {Never}
  BY <1>3 DEF Issue
<1> DEFINE r == [pass[p] EXCEPT
              !.pc = "next", !.newest = newest,
              !.listed = [i \in Issues |-> IF i \in page THEN shown[i] ELSE NotFiled]]
<1>5. [i \in Issues |-> IF i \in page THEN shown[i] ELSE NotFiled] \in [Issues -> Issue]
  OBVIOUS
<1>6. /\ r \in Pass
      /\ r.pc = "next" /\ r.since = pass[p].since /\ r.full = pass[p].full
      /\ r.newest = newest
      /\ r.listed = [i \in Issues |-> IF i \in page THEN shown[i] ELSE NotFiled]
  BY <1>4, <1>5 DEF Pass, Steps
<1>7. pass'[p] = r /\ pass' = [pass EXCEPT ![p] = r]
  BY <1>2 DEF Becomes
<1>8. \A i \in page : shown[i].updated <= newest
  BY <1>2
<1> HIDE DEF r
<1>9. QED
  BY <1>1, <1>2, <1>3, <1>4, <1>6, <1>7, <1>8

\* What a lookup leaves the pass with.
LEMMA LookupStep ==
    ASSUME TInv, NEW p \in Importers, NEW i \in Issues, get_by_issue_ref(p, i)
    PROVE  /\ pass'[p] \in Pass
           /\ pass' = [pass EXCEPT ![p] = pass'[p]]
           /\ pass'[p].since = pass[p].since
           /\ pass'[p].full = pass[p].full
           /\ pass'[p].newest = pass[p].newest
           /\ \/ /\ pass'[p].pc = "create"
                 /\ pass'[p].issue = i
                 /\ pass'[p].listed = pass[p].listed
              \/ /\ pass'[p].pc = "update"
                 /\ pass'[p].issue = i
                 /\ pass'[p].snap = card[i]
                 /\ card[i].row = "live"
                 /\ pass'[p].listed = pass[p].listed
              \/ /\ pass'[p].pc = "next"
                 /\ pass'[p].listed = [pass[p].listed EXCEPT ![i] = NotFiled]
                 /\ \/ card[i].row = "deleted"
                    \/ /\ card[i].row = "live"
                       /\ _changes_for(card[i], card[i], pass[p].listed[i]) = card[i]
<1> DEFINE to == [pass[p] EXCEPT !.issue = i]
<1>1. /\ pass[p] \in Pass /\ card[i] \in Card
      /\ pass \in [Importers -> Pass]
  BY DEF TInv
<1>2. to \in Pass
  BY <1>1 DEF Pass
<1>3. CASE Becomes(p, [to EXCEPT !.pc = "create"])
  <2>1. [to EXCEPT !.pc = "create"] \in Pass
    BY <1>2 DEF Pass, Steps
  <2>2. pass'[p] = [to EXCEPT !.pc = "create"]
    BY <1>1, <1>3 DEF Becomes
  <2>3. QED
    BY <1>1, <1>3, <2>1, <2>2 DEF Becomes, Pass
<1>4. CASE card[i].row = "live" /\ Becomes(p, [to EXCEPT !.pc = "update", !.snap = card[i]])
  <2>1. [to EXCEPT !.pc = "update", !.snap = card[i]] \in Pass
    BY <1>1, <1>2 DEF Pass, Steps
  <2>2. pass'[p] = [to EXCEPT !.pc = "update", !.snap = card[i]]
    BY <1>1, <1>4 DEF Becomes
  <2>3. QED
    BY <1>1, <1>4, <2>1, <2>2 DEF Becomes, Pass
<1>5. CASE /\ Becomes(p, Over(p, i))
           /\ \/ card[i].row = "deleted"
              \/ /\ card[i].row = "live"
                 /\ _changes_for(card[i], card[i], pass[p].listed[i]) = card[i]
  <2>1. pass'[p] = Over(p, i)
    BY <1>1, <1>5 DEF Becomes
  <2>2. pass' = [pass EXCEPT ![p] = pass'[p]]
    BY <1>5, <2>1 DEF Becomes
  <2>3. /\ pass'[p] \in Pass
        /\ pass'[p].pc = "next"
        /\ pass'[p].newest = pass[p].newest
        /\ pass'[p].since = pass[p].since
        /\ pass'[p].full = pass[p].full
        /\ pass'[p].listed = [pass[p].listed EXCEPT ![i] = NotFiled]
    BY <1>1, <2>1, OverTypes
  <2>4. QED
    BY <1>5, <2>2, <2>3
<1> HIDE DEF to
<1>6. QED
  BY <1>3, <1>4, <1>5 DEF get_by_issue_ref, to

LEMMA TypesPreserved ==
    ASSUME TInv, [Next]_vars, \A p \in Importers : Writing(p) => RowInv(p)
    PROVE  TInv'
<1> USE ConstantTypes DEF TInv, external, state
<1>1. ASSUME NEW p \in Pollers, due(p) PROVE TInv'
  <2>1. p \in Importers
    BY DEF Importers
  <2>2. [Idle EXCEPT !.pc = "claim", !.fresh = TRUE] \in Pass
    BY DEF Pass, Steps
  <2>3. QED
    BY <1>1, <2>1, <2>2 DEF due, Becomes
<1>2. ASSUME NEW p \in Manual, NEW full \in FullChoices, import_cards(p, full) PROVE TInv'
  <2>1. p \in Importers /\ full \in BOOLEAN
    BY RoleAssumption DEF Importers
  <2>2. [Idle EXCEPT !.pc = "start", !.full = full] \in Pass
    BY <2>1 DEF Pass, Steps
  <2>3. QED
    BY <1>2, <2>1, <2>2 DEF import_cards, Becomes
<1>3. ASSUME NEW p \in Importers, claim_import_lease(p) PROVE TInv'
  <2>1. [Idle EXCEPT !.pc = "start"] \in Pass
    BY DEF Pass, Steps
  <2>2. \A q \in Importers : [pass[q] EXCEPT !.fresh = FALSE] \in Pass
    BY DEF Pass
  <2>3. CASE pass[p].fresh
    <3>1. pass' \in [Importers -> Pass]
      BY <1>3, <2>1, <2>2, <2>3 DEF claim_import_lease
    <3> QED
      BY <1>3, <2>3, <3>1 DEF claim_import_lease
  <2>4. CASE ~pass[p].fresh
    BY <1>3, <2>4 DEF claim_import_lease, Becomes
  <2>5. QED
    BY <2>3, <2>4
<1>4. ASSUME NEW p \in Importers, get_watermark(p) PROVE TInv'
  <2>1. [pass[p] EXCEPT !.pc = "fetch",
                        !.since = IF pass[p].full THEN Never ELSE watermark] \in Pass
    BY DEF Pass, Steps, Watermarks, Never
  <2>2. QED
    BY <1>4, <2>1 DEF get_watermark, Becomes
<1>5. ASSUME NEW p \in Importers, NEW limit \in Limits, fetch_issues(p, limit) PROVE TInv'
  <2>1. pass' \in [Importers -> Pass] /\ reported' \in BOOLEAN
    BY <1>5, FetchStep
  <2>2. QED
    BY <1>5, <2>1 DEF fetch_issues
<1>6. ASSUME NEW p \in Importers, NEW i \in Issues, get_by_issue_ref(p, i) PROVE TInv'
  <2>1. pass' \in [Importers -> Pass]
    BY <1>6, LookupStep
  <2>2. QED
    BY <1>6, <2>1 DEF get_by_issue_ref
<1>7. ASSUME NEW p \in Importers, create(p) PROVE TInv'
  <2>1. pass[p].issue \in Issues
    BY <1>7 DEF create, At, Writing, RowInv
  <2>2. pass[p].listed[pass[p].issue] \in Issue
    BY <2>1 DEF Pass
  <2>3. [row |-> "live", status |-> _status_for(pass[p].listed[pass[p].issue]),
         entered |-> FALSE, fields |-> pass[p].listed[pass[p].issue].updated,
         labels |-> Never] \in Card
    BY <2>2 DEF Card, Issue, Statuses, _status_for
  <2>4. /\ [pass[p] EXCEPT !.pc = "labels"] \in Pass
        /\ [pass[p] EXCEPT !.pc = "next"] \in Pass
    BY DEF Pass, Steps
  <2>5. QED
    BY <1>7, <2>1, <2>3, <2>4 DEF create, Becomes
<1>8. ASSUME NEW p \in Importers, WriteLabels(p) PROVE TInv'
  <2>1. pass[p].issue \in Issues
    BY <1>8 DEF WriteLabels, At, Writing, RowInv
  <2>2. pass[p].listed[pass[p].issue] \in Issue
    BY <2>1 DEF Pass
  <2>3. [card[pass[p].issue] EXCEPT !.labels = pass[p].listed[pass[p].issue].updated] \in Card
    BY <2>1, <2>2 DEF Card, Issue
  <2>4. Over(p, pass[p].issue) \in Pass
    BY <2>1, OverTypes
  <2>5. QED
    BY <1>8, <2>1, <2>3, <2>4 DEF WriteLabels, update, Becomes
<1>9. ASSUME NEW p \in Importers, WriteChanges(p) PROVE TInv'
  <2>1. pass[p].issue \in Issues
    BY <1>9 DEF WriteChanges, At, Writing, RowInv
  <2>2. pass[p].listed[pass[p].issue] \in Issue /\ pass[p].snap \in Card
    BY <2>1 DEF Pass
  <2>3. _changes_for(card[pass[p].issue], pass[p].snap, pass[p].listed[pass[p].issue]) \in Card
    BY <2>1, <2>2, ChangesTypes
  <2>4. Over(p, pass[p].issue) \in Pass
    BY <2>1, OverTypes
  <2>5. QED
    BY <1>9, <2>1, <2>3, <2>4 DEF WriteChanges, update, Becomes
<1>10. ASSUME NEW p \in Importers, set_watermark(p) PROVE TInv'
  <2>1. pass[p].newest \in Stamps \cup {Never} /\ pass[p].since \in Watermarks
    BY DEF Pass
  <2>2. _next_watermark(pass[p]) \in Watermarks
    BY <2>1 DEF _next_watermark, Watermarks, Stamps, FirstTick, Never
  <2>3. QED
    BY <1>10, <2>2 DEF set_watermark, Becomes
<1>11. ASSUME NEW p \in Importers, Fail(p) PROVE TInv'
  <2>1. ASSUME NEW refused \in BOOLEAN, FetchFails(p, refused) PROVE TInv'
    BY <2>1 DEF FetchFails, Becomes
  <2>2. CASE SkipIssue(p)
    <3>1. pass[p].issue \in Issues
      BY <2>2 DEF SkipIssue, Writing, RowInv
    <3>2. QED
      BY <2>2, <3>1, OverTypes DEF SkipIssue, Becomes
  <2>3. CASE Crash(p)
    BY <2>3 DEF Crash, Becomes
  <2>4. QED
    BY <1>11, <2>1, <2>2, <2>3 DEF Fail
<1>12. CASE LeaseExpires
  BY <1>12 DEF LeaseExpires
<1>13. ASSUME NEW i \in Issues, NEW open \in BOOLEAN, Touch(i, open) PROVE TInv'
  BY <1>13 DEF Touch, Issue
<1>14. ASSUME NEW i \in Issues, Show(i) PROVE TInv'
  BY <1>14 DEF Show
<1>15. CASE Tick
  BY <1>15 DEF Tick, Stamps, FirstTick
<1>16. ASSUME NEW i \in Issues, Dispatch(i) PROVE TInv'
  BY <1>16 DEF Dispatch, Card, Statuses
<1>17. ASSUME NEW i \in Issues, delete(i) PROVE TInv'
  BY <1>17 DEF delete, Card
<1>18. CASE UNCHANGED vars
  BY <1>18 DEF vars
<1>19. QED
  BY <1>1, <1>2, <1>3, <1>4, <1>5, <1>6, <1>7, <1>8, <1>9, <1>10, <1>11, <1>12,
     <1>13, <1>14, <1>15, <1>16, <1>17, <1>18
  DEF Next, Proceed, Environment

-----------------------------------------------------------------------------
(* One pass at a time.                                                     *)

\* The steps of a pass that is under way: it stays under way or ends, no
\* other pass begins or learns of the lease, and it stays a pass that asks
\* for the changes only.
Continues(p) ==
    /\ InPass(p)
    /\ \E r \in Pass : Becomes(p, r) /\ r.pc # "claim" /\ r.full = pass[p].full
    /\ lease' = lease

LEMMA ContinuingKeepsLease ==
    ASSUME TInv, LeaseInv, NEW p \in Importers, Continues(p) PROVE LeaseInv'
  BY DEF TInv, LeaseInv, Continues, Becomes, InPass, At, OnePollerPerLease, Importers

\* A pass that stops leaves the others as they are.
LEMMA StoppingKeepsLease ==
    ASSUME TInv, LeaseInv, NEW p \in Importers, Becomes(p, Idle), lease' = lease
    PROVE  LeaseInv'
  BY DEF TInv, LeaseInv, Becomes, Idle, InPass, At, OnePollerPerLease, Importers

LEMMA LeasePreserved ==
    ASSUME Serial, TInv, LeaseInv, TInv', [Next]_vars,
           \A p \in Importers : Writing(p) => RowInv(p)
    PROVE  LeaseInv'
<1> USE DEF external, state
<1>1. ASSUME NEW p \in Pollers, due(p) PROVE LeaseInv'
  <2>1. lease' = lease /\ p \in Importers /\ p \notin Manual
    BY <1>1, RoleAssumption DEF due, Importers
  <2>2. CASE pass' = pass
    BY <2>1, <2>2 DEF LeaseInv, InPass, At, OnePollerPerLease
  <2>3. CASE ~lease /\ Becomes(p, [Idle EXCEPT !.pc = "claim", !.fresh = TRUE])
    <3>1. /\ pass'[p].pc = "claim" /\ pass'[p].full = FALSE
          /\ \A q \in Importers \ {p} : pass'[q] = pass[q]
      BY <2>1, <2>3 DEF Becomes, Idle, TInv
    <3>2. QED
      BY <2>1, <2>3, <3>1 DEF LeaseInv, InPass, At, OnePollerPerLease, Importers
  <2>4. QED
    BY <1>1, <2>2, <2>3 DEF due
<1>2. ASSUME NEW p \in Manual, NEW full \in FullChoices, import_cards(p, full) PROVE LeaseInv'
  <2>1. full = FALSE
    BY RoleAssumption DEF Serial
  <2>2. \A q \in Importers \ {p} : At(q, "idle")
    BY <1>2 DEF import_cards, Quiet, Serial
  <2>3. p \in Importers /\ p \notin Pollers /\ Pollers \subseteq Importers
    BY RoleAssumption DEF Importers
  <2>4. lease' = lease /\ Becomes(p, [Idle EXCEPT !.pc = "start", !.full = FALSE])
    BY <1>2, <2>1 DEF import_cards
  <2>5. QED
    BY <2>2, <2>3, <2>4
    DEF Becomes, Idle, TInv, LeaseInv, InPass, At, OnePollerPerLease
<1>3. ASSUME NEW p \in Importers, claim_import_lease(p) PROVE LeaseInv'
  <2>1. p \in Pollers /\ \A q \in Manual : At(q, "idle")
    BY <1>3, RoleAssumption
    DEF claim_import_lease, Quiet, Serial, LeaseInv, Importers, At
  <2>2. CASE pass[p].fresh
    <3>1. \A q \in Importers : ~InPass(q)
      BY <1>3, <2>1, <2>2 DEF claim_import_lease, LeaseInv, Importers, InPass, At
    <3>2. lease' /\ pass' = [q \in Importers |->
                           IF q = p THEN [Idle EXCEPT !.pc = "start"]
                           ELSE [pass[q] EXCEPT !.fresh = FALSE]]
      BY <1>3, <2>2 DEF claim_import_lease
    <3>3. /\ pass'[p] = [Idle EXCEPT !.pc = "start"]
          /\ \A q \in Importers \ {p} : /\ pass'[q].pc = pass[q].pc
                                        /\ pass'[q].full = pass[q].full
                                        /\ pass'[q].fresh = FALSE
      BY <3>2, <2>1 DEF TInv, Pass, Importers
    <3>4. QED
      BY <3>1, <3>2, <3>3, <2>1
      DEF Idle, LeaseInv, InPass, At, OnePollerPerLease, Importers
  <2>3. CASE ~pass[p].fresh
    BY <1>3, <2>3, StoppingKeepsLease DEF claim_import_lease
  <2>4. QED
    BY <2>2, <2>3
<1>4. ASSUME NEW p \in Importers, get_watermark(p) PROVE LeaseInv'
  <2>1. pass'[p] \in Pass
    BY DEF TInv
  <2>2. Continues(p)
    BY <1>4, <2>1 DEF get_watermark, Continues, Becomes, InPass, At, TInv, Pass
  <2>3. QED
    BY <2>2, ContinuingKeepsLease
<1>5. ASSUME NEW p \in Importers, NEW limit \in Limits, fetch_issues(p, limit) PROVE LeaseInv'
  <2>1. /\ pass'[p] \in Pass /\ pass'[p].pc = "next" /\ pass'[p].full = pass[p].full
        /\ pass' = [pass EXCEPT ![p] = pass'[p]]
    BY <1>5, FetchStep
  <2>2. Continues(p)
    BY <1>5, <2>1 DEF fetch_issues, Continues, Becomes, InPass, At
  <2>3. QED
    BY <2>2, ContinuingKeepsLease
<1>6. ASSUME NEW p \in Importers, NEW i \in Issues, get_by_issue_ref(p, i) PROVE LeaseInv'
  <2>1. /\ pass'[p] \in Pass /\ pass'[p].pc # "claim" /\ pass'[p].full = pass[p].full
        /\ pass' = [pass EXCEPT ![p] = pass'[p]]
    BY <1>6, LookupStep
  <2>2. Continues(p)
    BY <1>6, <2>1 DEF get_by_issue_ref, Continues, Becomes, InPass, At
  <2>3. QED
    BY <2>2, ContinuingKeepsLease
<1>7. ASSUME NEW p \in Importers, create(p) PROVE LeaseInv'
  <2>1. pass'[p] \in Pass
    BY DEF TInv
  <2>2. Continues(p)
    BY <1>7, <2>1 DEF create, Continues, Becomes, InPass, At, TInv, Pass
  <2>3. QED
    BY <2>2, ContinuingKeepsLease
<1>8. ASSUME NEW p \in Importers, WriteLabels(p) \/ WriteChanges(p) \/ SkipIssue(p)
      PROVE LeaseInv'
  <2>1. pass[p].issue \in Issues
    BY <1>8 DEF WriteLabels, WriteChanges, SkipIssue, At, Writing, RowInv
  <2>2. Continues(p)
    BY <1>8, <2>1, OverTypes
    DEF WriteLabels, WriteChanges, SkipIssue, Continues, InPass, At, TInv
  <2>3. QED
    BY <2>2, ContinuingKeepsLease
<1>9. ASSUME NEW p \in Importers, set_watermark(p) \/ Crash(p) PROVE LeaseInv'
  BY <1>9, StoppingKeepsLease DEF set_watermark, Crash
<1>10. ASSUME NEW p \in Importers, NEW refused \in BOOLEAN, FetchFails(p, refused)
       PROVE LeaseInv'
  BY <1>10, StoppingKeepsLease DEF FetchFails
<1>11. CASE LeaseExpires
  BY <1>11 DEF LeaseExpires, Serial, LeaseInv, InPass, At, OnePollerPerLease
<1>12. CASE Environment \/ UNCHANGED vars
  <2>1. UNCHANGED <<lease, pass>>
    BY <1>12 DEF Environment, Touch, Show, Tick, Dispatch, delete, vars
  <2>2. QED
    BY <2>1 DEF LeaseInv, InPass, At, OnePollerPerLease
<1>13. QED
  BY <1>1, <1>2, <1>3, <1>4, <1>5, <1>6, <1>7, <1>8, <1>9, <1>10, <1>11, <1>12
  DEF Next, Proceed, Fail

-----------------------------------------------------------------------------
(* The host and its listing.                                               *)

LEMMA HostPreserved ==
    ASSUME TInv, HostInv, \A p \in Importers : PassInv(p), [Next]_vars
    PROVE  HostInv'
<1> USE ConstantTypes DEF external, state
<1>1. ASSUME NEW i \in Issues, NEW open \in BOOLEAN, Touch(i, open) PROVE HostInv'
  <2>1. now \in Nat /\ now # Never /\ \A j \in Issues : shown[j].updated \in Nat
    BY DEF TInv, Issue, Stamps, FirstTick, Never
  <2>2. shown[i].updated < now
    BY <1>1, <2>1 DEF Touch, HostInv, TInv, Issue, Stamps, FirstTick, Never
  <2>3. QED
    BY <1>1, <2>1, <2>2 DEF Touch, HostInv, TInv
<1>2. ASSUME NEW i \in Issues, Show(i) PROVE HostInv'
  BY <1>2 DEF Show, HostInv, TInv
<1>3. CASE Tick
  <2>1. now \in Nat /\ watermark \in Nat /\ \A j \in Issues : host[j].updated \in Nat
    BY DEF TInv, Issue, Stamps, FirstTick, Never, Watermarks
  <2>2. watermark' <= now'
    BY <1>3, <2>1 DEF Tick, HostInv
  <2>3. ASSUME NEW i \in Issues
        PROVE  /\ host[i].updated <= now'
               /\ shown[i] # host[i] => now' <= host[i].updated + Lag
    BY <1>3, <2>1 DEF Tick, HostInv
  <2>4. QED
    BY <1>3, <2>2, <2>3 DEF Tick, HostInv
<1>4. ASSUME NEW p \in Importers, set_watermark(p) PROVE HostInv'
  <2>1. pass[p].newest <= now /\ pass[p].since = watermark
    BY <1>4 DEF set_watermark, PassInv, Reading, InPass, At
  <2>2. pass[p].newest \in Nat /\ now \in Nat
    BY DEF TInv, Pass, Stamps, FirstTick, Never
  <2>3. watermark' <= now
    BY <1>4, <2>1, <2>2 DEF set_watermark, _next_watermark, HostInv
  <2>4. QED
    BY <1>4, <2>3 DEF set_watermark, HostInv
<1>5. CASE UNCHANGED <<now, host, shown, watermark>>
  BY <1>5 DEF HostInv
<1>6. QED
  BY <1>1, <1>2, <1>3, <1>4, <1>5
  DEF Next, Proceed, Fail, Environment, due, import_cards, claim_import_lease,
      get_watermark, fetch_issues, get_by_issue_ref, create, WriteLabels, WriteChanges,
      FetchFails, SkipIssue, Crash, LeaseExpires, Dispatch, delete, vars

-----------------------------------------------------------------------------
(* What a pass has read and written.                                       *)

\* Nothing is promised of an importer outside a pass.
LEMMA OutsideKeeps ==
    ASSUME NEW q \in Importers, ~InPass(q)' PROVE PassInv(q)'
  BY DEF PassInv, InPass, Reading, Writing, At

\* After a step into or within a pass only that pass matters.
LEMMA OnlyMover ==
    ASSUME LeaseInv', NEW p \in Importers, InPass(p)', PassInv(p)'
    PROVE  (\A q \in Importers : PassInv(q))'
<1>1. ASSUME NEW q \in Importers PROVE PassInv(q)'
  <2>1. CASE q = p
    BY <2>1
  <2>2. CASE q # p
    <3>1. ~InPass(q)'
      BY <2>2 DEF LeaseInv
    <3>2. QED
      BY <3>1, OutsideKeeps
  <2>3. QED
    BY <2>1, <2>2
<1>2. QED
  BY <1>1

\* After the end of a pass there is none.
LEMMA AfterTheEnd ==
    ASSUME TInv, LeaseInv, NEW p \in Importers, InPass(p), Becomes(p, Idle)
    PROVE  (\A q \in Importers : PassInv(q))'
<1>1. ASSUME NEW q \in Importers PROVE ~InPass(q)'
  BY DEF TInv, LeaseInv, Becomes, Idle, InPass
<1>2. QED
  BY <1>1, OutsideKeeps

\* A pass that does not move, while the host and the board do not either.
LEMMA StandsStill ==
    ASSUME NEW q \in Importers, PassInv(q), pass'[q] = pass[q],
           UNCHANGED <<now, host, card, watermark>>, reported => reported'
    PROVE  PassInv(q)'
  BY DEF PassInv, InPass, Reading, Writing, At, ListedInv, DoneInv, RowInv,
         AskedAgain, UpToDate

\* The pass deals with issue i, and leaves it as it should be.
LEMMA DealsWith ==
    ASSUME TInv, NEW p \in Importers, PassInv(p), Reading(p), NEW i \in Issues,
           UNCHANGED <<now, host, watermark>>,
           pass'[p].pc = "next",
           pass'[p].newest = pass[p].newest,
           pass'[p].since = pass[p].since,
           pass'[p].listed = [pass[p].listed EXCEPT ![i] = NotFiled],
           \A j \in Issues \ {i} : card'[j] = card[j],
           reported => reported',
           reported' \/ UpToDate(i)' \/ AskedAgain(i, pass[p].newest)
    PROVE  PassInv(p)'
<1>1. /\ pass'[p].listed[i] = NotFiled
      /\ \A j \in Issues \ {i} : pass'[p].listed[j] = pass[p].listed[j]
  BY DEF TInv, Pass
<1>2. InPass(p)' /\ InPass(p) /\ ~At(p, "start") /\ ~Writing(p)' /\ Reading(p)'
  BY DEF InPass, Reading, Writing, At
<1>3. ListedInv(p)'
  BY <1>1, <1>2 DEF PassInv, ListedInv, AskedAgain
<1>4. DoneInv(p)'
  BY <1>1, <1>2 DEF PassInv, DoneInv, AskedAgain, UpToDate
<1>5. QED
  BY <1>2, <1>3, <1>4 DEF PassInv

\* A card that holds the version a pass has listed is as it should be.
LEMMA HoldsListed ==
    ASSUME NEW p \in Importers, NEW i \in Issues, ListedInv(p),
           pass[p].listed[i] # NotFiled, host' = host,
           \/ card'[i].row = "deleted"
           \/ /\ card'[i].row = "live"
              /\ card'[i].fields = pass[p].listed[i].updated
              /\ card'[i].labels = pass[p].listed[i].updated
    PROVE  UpToDate(i)' \/ AskedAgain(i, pass[p].newest)
  BY DEF ListedInv, UpToDate

\* A listing reads what the board does not show, or says that it does not.
LEMMA FetchReads ==
    ASSUME TInv, TInv', LeaseInv, HostInv, FirstInv, NothingFallsBehind,
           NEW p \in Importers, PassInv(p),
           NEW limit \in Limits, fetch_issues(p, limit)
    PROVE  PassInv(p)'
<1> USE ConstantTypes
<1>1. PICK page \in SUBSET Issues, newest \in Stamps \cup {Never} :
        /\ IsPage(page, _filters(pass[p].since), limit)
        /\ page \subseteq _filters(pass[p].since)
        /\ newest \in {shown[i].updated : i \in page} \cup {Never}
        /\ \A i \in page : shown[i].updated <= newest
        /\ pass'[p].pc = "next"
        /\ pass'[p].since = pass[p].since
        /\ pass'[p].newest = newest
        /\ pass'[p].listed = [i \in Issues |-> IF i \in page THEN shown[i] ELSE NotFiled]
        /\ reported' = (reported \/ Cardinality(page) >= limit)
  BY FetchStep
<1>2. UNCHANGED <<now, host, shown, card, watermark>>
  BY DEF fetch_issues, external, state
<1>3. pass[p].since = watermark /\ ~Reading(p)
  BY DEF fetch_issues, PassInv, InPass, At, Reading
<1>4. /\ now \in Nat /\ newest \in Nat /\ watermark \in Nat
      /\ \A i \in Issues : host[i].updated \in Nat /\ shown[i].updated \in Nat
  BY DEF TInv, Issue, Stamps, FirstTick, Never, Watermarks
<1>5. \A i \in page : shown[i] # NotFiled /\ shown[i].updated # Never
  BY <1>1 DEF _filters, HostInv
<1>6. newest <= now
  BY <1>1, <1>4 DEF HostInv, Never
<1>7. ASSUME NEW i \in Issues, shown[i] # host[i] PROVE AskedAgain(i, newest)
  <2>1. now <= host[i].updated + Lag
    BY <1>7 DEF HostInv
  <2>2. host[i].updated >= newest - Overlap
    BY <1>4, <1>6, <2>1
  <2>3. QED
    BY <2>2 DEF AskedAgain
<1>8. ListedInv(p)'
  <2>1. SUFFICES ASSUME NEW i \in Issues, pass'[p].listed[i] # NotFiled
                 PROVE  /\ newest # Never
                        /\ shown[i].updated # Never
                        /\ watermark <= shown[i].updated
                        /\ shown[i].updated <= host[i].updated
                        /\ shown[i].updated # host[i].updated => AskedAgain(i, newest)
                        /\ i \in page
    BY <1>1, <1>2 DEF ListedInv, AskedAgain
  <2>2. i \in page
    BY <1>1, <2>1
  <2>3. shown[i].updated # Never /\ newest # Never
    <3>1. shown[i].updated # Never /\ shown[i].updated <= newest
      BY <1>1, <1>5, <2>2
    <3>2. shown[i].updated \in Nat /\ newest \in Nat
      BY <1>4
    <3>3. QED
      BY <3>1, <3>2 DEF Never
  <2>4. watermark <= shown[i].updated
    <3>1. i \in _filters(watermark)
      BY <1>1, <1>3, <2>2
    <3>2. watermark = Never \/ shown[i].updated >= watermark
      BY <3>1 DEF _filters
    <3>3. shown[i].updated \in Nat /\ watermark \in Nat
      BY <1>4
    <3>4. QED
      BY <3>2, <3>3 DEF Never
  <2>5. shown[i].updated <= host[i].updated
    <3>1. shown[i] = host[i] \/ shown[i].updated < host[i].updated
      BY DEF HostInv
    <3>2. shown[i].updated \in Nat /\ host[i].updated \in Nat
      BY <1>4
    <3>3. QED
      BY <3>1, <3>2
  <2>6. QED
    BY <1>7, <2>2, <2>3, <2>4, <2>5
<1>9. DoneInv(p)'
  <2>1. SUFFICES ASSUME NEW i \in Issues, pass'[p].listed[i] = NotFiled
                 PROVE  reported' \/ UpToDate(i) \/ AskedAgain(i, newest)
    BY <1>1, <1>2 DEF DoneInv, AskedAgain, UpToDate
  <2>2. i \notin page
    BY <1>1, <1>5, <2>1
  <2>3. CASE i \in _filters(pass[p].since)
    <3>1. Cardinality(page) = limit
      BY <1>1, <2>2, <2>3 DEF IsPage
    <3>2. limit >= limit
      BY NumberAssumption
    <3>3. QED
      BY <1>1, <3>1, <3>2
  <2>4. CASE shown[i] # host[i]
    BY <1>7, <2>4
  <2>5. CASE shown[i] = host[i] /\ i \notin _filters(pass[p].since)
    <3>1. CASE host[i] = NotFiled
      BY <3>1 DEF UpToDate
    <3>2. CASE watermark = Never /\ ~host[i].open
      <4>1. card[i].row = "none"
        BY <1>3, <3>2 DEF FirstInv, LeaseInv, Reading, InPass, fetch_issues, At
      <4>2. QED
        BY <3>2, <4>1 DEF UpToDate
    <3>3. CASE watermark # Never /\ ~(host[i].updated >= watermark)
      BY <1>1, <3>3 DEF NothingFallsBehind
    <3>4. QED
      BY <1>3, <2>5, <3>1, <3>2, <3>3 DEF _filters
  <2>6. QED
    BY <2>3, <2>4, <2>5
<1>10. QED
  BY <1>1, <1>2, <1>3, <1>6, <1>8, <1>9 DEF PassInv, InPass, Reading, Writing, At

\* The lookup finds the card as it should be, or goes on to write it.
LEMMA LookupKeeps ==
    ASSUME TInv, NEW p \in Importers, PassInv(p),
           NEW i \in Issues, get_by_issue_ref(p, i)
    PROVE  PassInv(p)'
<1>1. /\ pass'[p].since = pass[p].since
      /\ pass'[p].newest = pass[p].newest
  BY LookupStep
<1>2. UNCHANGED <<now, host, card, watermark, reported>>
  BY DEF get_by_issue_ref, external, state
<1>3. /\ pass[p].listed[i] # NotFiled /\ pass[p].listed[i] \in Issue /\ card[i] \in Card
      /\ Reading(p) /\ InPass(p) /\ ~At(p, "start")
  BY DEF get_by_issue_ref, Listed, Reading, InPass, At, TInv, Pass
<1>4. ListedInv(p) /\ DoneInv(p)
  BY <1>3 DEF PassInv
<1>5. CASE pass'[p].listed = pass[p].listed
  <2>1. ListedInv(p)' /\ DoneInv(p)'
    BY <1>1, <1>2, <1>4, <1>5 DEF ListedInv, DoneInv, AskedAgain, UpToDate
  <2>2. Writing(p)' => RowInv(p)'
    BY <1>1, <1>2, <1>3, <1>5, LookupStep DEF Writing, RowInv, At
  <2>3. QED
    BY <1>1, <1>2, <1>3, <2>1, <2>2 DEF PassInv
<1>6. CASE /\ pass'[p].pc = "next"
           /\ pass'[p].listed = [pass[p].listed EXCEPT ![i] = NotFiled]
           /\ \/ card[i].row = "deleted"
              \/ /\ card[i].row = "live"
                 /\ _changes_for(card[i], card[i], pass[p].listed[i]) = card[i]
  <2>1. \/ card[i].row = "deleted"
        \/ /\ card[i].row = "live"
           /\ card[i].fields = pass[p].listed[i].updated
           /\ card[i].labels = pass[p].listed[i].updated
    BY <1>3, <1>6, ChangesTypes
  <2>2. UpToDate(i)' \/ AskedAgain(i, pass[p].newest)
    BY <1>2, <1>3, <1>4, <2>1, HoldsListed
  <2>3. QED
    BY <1>1, <1>2, <1>3, <1>6, <2>2, DealsWith
<1>7. QED
  BY <1>5, <1>6, LookupStep

LEMMA CreateKeeps ==
    ASSUME TInv, NEW p \in Importers, PassInv(p), create(p)
    PROVE  PassInv(p)'
<1> DEFINE i == pass[p].issue
<1>1. Reading(p) /\ Writing(p) /\ InPass(p) /\ ~At(p, "start")
  BY DEF create, Reading, Writing, InPass, At
<1>2. i \in Issues /\ pass[p].listed[i] # NotFiled
  BY <1>1 DEF PassInv, RowInv
<1>3. ListedInv(p) /\ DoneInv(p)
  BY <1>1 DEF PassInv
<1>4. UNCHANGED <<now, host, watermark, reported>>
  BY DEF create, external, state
<1>5. /\ pass'[p].listed = pass[p].listed
      /\ pass'[p].newest = pass[p].newest
      /\ pass'[p].since = pass[p].since
      /\ pass'[p].issue = pass[p].issue
  BY DEF create, Becomes, TInv, Pass
<1>6. ListedInv(p)'
  BY <1>3, <1>4, <1>5 DEF ListedInv, AskedAgain
<1>7. \A j \in Issues \ {i} : card'[j] = card[j]
  BY <1>2 DEF create, TInv
<1>8. DoneInv(p)'
  BY <1>2, <1>3, <1>4, <1>5, <1>7 DEF DoneInv, AskedAgain, UpToDate
<1>9. \/ pass'[p].pc = "next"
      \/ /\ pass'[p].pc = "labels"
         /\ card'[i].row = "live"
         /\ card'[i].fields = pass[p].listed[i].updated
  BY <1>2 DEF create, Becomes, TInv, Pass
<1> HIDE DEF i
<1>10. Writing(p)' => RowInv(p)'
  BY <1>2, <1>4, <1>5, <1>9 DEF Writing, RowInv, At, i
<1>11. QED
  BY <1>1, <1>4, <1>5, <1>6, <1>8, <1>9, <1>10 DEF PassInv, InPass, Reading, At

\* What the last write of an issue, or a failure of it, leaves the pass with.
LEMMA WriteStep ==
    ASSUME TInv, NEW p \in Importers, PassInv(p),
           WriteLabels(p) \/ WriteChanges(p) \/ SkipIssue(p)
    PROVE  /\ pass'[p].pc = "next"
           /\ pass'[p].newest = pass[p].newest
           /\ pass'[p].since = pass[p].since
           /\ pass'[p].listed = [pass[p].listed EXCEPT ![pass[p].issue] = NotFiled]
<1>1. Writing(p)
  BY DEF WriteLabels, WriteChanges, SkipIssue, Writing, At
<1>2. PICK i \in Issues : i = pass[p].issue
  BY <1>1 DEF PassInv, RowInv
<1>3. pass'[p] = Over(p, i)
  BY <1>2 DEF WriteLabels, WriteChanges, SkipIssue, Becomes, TInv
<1>4. pass \in [Importers -> Pass]
  BY DEF TInv
<1>5. /\ pass'[p].pc = "next"
      /\ pass'[p].newest = pass[p].newest
      /\ pass'[p].since = pass[p].since
      /\ pass'[p].listed = [pass[p].listed EXCEPT ![i] = NotFiled]
  BY <1>3, <1>4, OverTypes
<1>6. QED
  BY <1>2, <1>5

\* The last write of an issue, or a failure of it.
LEMMA WriteKeeps ==
    ASSUME TInv, NEW p \in Importers, PassInv(p),
           WriteLabels(p) \/ WriteChanges(p) \/ SkipIssue(p)
    PROVE  PassInv(p)'
<1>1. Reading(p) /\ Writing(p)
  BY DEF WriteLabels, WriteChanges, SkipIssue, Reading, Writing, At
<1>2. PICK i \in Issues : i = pass[p].issue /\ pass[p].listed[i] # NotFiled /\ RowInv(p)
  BY <1>1 DEF PassInv, RowInv
<1>3. ListedInv(p)
  BY <1>1 DEF PassInv
<1>4. /\ pass[p] \in Pass /\ card[i] \in Card
      /\ pass[p].listed[i] \in Issue /\ pass[p].snap \in Card
  BY <1>2 DEF TInv, Pass
<1>5. /\ UNCHANGED <<now, host, watermark>>
      /\ reported => reported'
      /\ \A j \in Issues \ {i} : card'[j] = card[j]
  BY <1>2 DEF WriteLabels, WriteChanges, SkipIssue, update, external, state, TInv
<1>6. /\ pass'[p].pc = "next"
      /\ pass'[p].newest = pass[p].newest
      /\ pass'[p].since = pass[p].since
      /\ pass'[p].listed = [pass[p].listed EXCEPT ![i] = NotFiled]
  BY <1>2, WriteStep
<1>7. CASE SkipIssue(p)
  <2>1. reported'
    BY <1>7 DEF SkipIssue
  <2>2. QED
    BY <1>1, <1>2, <1>5, <1>6, <2>1, DealsWith
<1>8. CASE WriteLabels(p)
  <2>1. \/ card[i].row = "deleted"
        \/ card[i].row = "live" /\ card[i].fields = pass[p].listed[i].updated
    BY <1>2, <1>8 DEF WriteLabels, RowInv
  <2>2. \/ card'[i].row = "deleted"
        \/ /\ card'[i].row = "live"
           /\ card'[i].fields = pass[p].listed[i].updated
           /\ card'[i].labels = pass[p].listed[i].updated
    BY <1>2, <1>4, <1>8, <2>1 DEF WriteLabels, update, TInv, Card
  <2>3. UpToDate(i)' \/ AskedAgain(i, pass[p].newest)
    BY <1>2, <1>3, <1>5, <2>2, HoldsListed
  <2>4. QED
    BY <1>1, <1>2, <1>5, <1>6, <2>3, DealsWith
<1>9. CASE WriteChanges(p)
  <2>1. \/ card[i].row = "deleted"
        \/ /\ card[i].row = "live"
           /\ card[i].fields = pass[p].snap.fields
           /\ card[i].labels = pass[p].snap.labels
    BY <1>2, <1>9 DEF WriteChanges, RowInv
  <2> DEFINE w == _changes_for(card[i], pass[p].snap, pass[p].listed[i])
  <2>2. /\ w.row = card[i].row
        /\ card[i].row = "live" => /\ w.fields = pass[p].listed[i].updated
                                   /\ w.labels = pass[p].listed[i].updated
    <3> DEFINE snap == pass[p].snap
               issue == pass[p].listed[i]
    <3>1. /\ w.row = card[i].row
          /\ w.fields = IF snap.fields # issue.updated THEN issue.updated ELSE card[i].fields
          /\ w.labels = IF snap.labels # issue.updated THEN issue.updated ELSE card[i].labels
      BY <1>4, ChangesTypes
    <3> HIDE DEF w
    <3>2. QED
      BY <2>1, <3>1
  <2>3. card' = IF card[i].row = "live" THEN [card EXCEPT ![i] = w] ELSE card
    BY <1>2, <1>9 DEF WriteChanges, update
  <2> HIDE DEF w
  <2>4. \/ card'[i].row = "deleted"
        \/ /\ card'[i].row = "live"
           /\ card'[i].fields = pass[p].listed[i].updated
           /\ card'[i].labels = pass[p].listed[i].updated
    BY <1>2, <2>1, <2>2, <2>3 DEF TInv
  <2>5. UpToDate(i)' \/ AskedAgain(i, pass[p].newest)
    BY <1>2, <1>3, <1>5, <2>4, HoldsListed
  <2>6. QED
    BY <1>1, <1>2, <1>5, <1>6, <2>5, DealsWith
<1>10. QED
  BY <1>7, <1>8, <1>9

\* The host and the board change under a pass.
LEMMA EnvironmentKeeps ==
    ASSUME TInv, HostInv, NEW p \in Importers, PassInv(p), Environment
    PROVE  PassInv(p)'
<1> USE ConstantTypes DEF external, state
<1>0. /\ now \in Nat /\ pass[p].newest \in Nat
      /\ \A j \in Issues : host[j].updated \in Nat /\ pass[p].listed[j].updated \in Nat
  BY DEF TInv, Pass, Issue, Stamps, FirstTick, Never
<1>1. ASSUME NEW i \in Issues, NEW open \in BOOLEAN, Touch(i, open) PROVE PassInv(p)'
  <2>1. /\ host'[i].updated = now
        /\ \A j \in Issues \ {i} : host'[j] = host[j]
        /\ UNCHANGED <<now, card, watermark, pass, reported>>
    BY <1>1 DEF Touch, TInv
  <2>2. ASSUME Reading(p), PassInv(p) PROVE ListedInv(p)' /\ DoneInv(p)'
    <3>1. now >= pass[p].newest - Overlap
      BY <1>0, <2>2 DEF PassInv
    <3>2. host[i].updated < now
      BY <1>1 DEF Touch
    <3>3. ListedInv(p)'
      BY <1>0, <2>1, <2>2, <3>1, <3>2 DEF PassInv, ListedInv, AskedAgain
    <3>4. DoneInv(p)'
      BY <2>1, <2>2, <3>1 DEF PassInv, DoneInv, AskedAgain, UpToDate
    <3>5. QED
      BY <3>3, <3>4
  <2>3. QED
    BY <2>1, <2>2 DEF PassInv, InPass, Reading, Writing, At, RowInv
<1>2. ASSUME NEW i \in Issues, Show(i) PROVE PassInv(p)'
  BY <1>2, StandsStill DEF Show
<1>3. CASE Tick
  BY <1>0, <1>3 DEF Tick, PassInv, InPass, Reading, Writing, At, ListedInv, DoneInv, RowInv,
         AskedAgain, UpToDate
<1>4. ASSUME NEW i \in Issues, Dispatch(i) \/ delete(i) PROVE PassInv(p)'
  <2>1. /\ card[i].row = "live"
        /\ card'[i].row = "deleted"
              \/ /\ card'[i].row = "live"
                 /\ card'[i].fields = card[i].fields
                 /\ card'[i].labels = card[i].labels
        /\ \A j \in Issues \ {i} : card'[j] = card[j]
        /\ UNCHANGED <<now, host, watermark, pass, reported>>
    BY <1>4 DEF Dispatch, delete, TInv, Card
  <2>2. \A j \in Issues : UpToDate(j) => UpToDate(j)'
    BY <2>1 DEF UpToDate
  <2>3. (ListedInv(p) => ListedInv(p)') /\ (DoneInv(p) => DoneInv(p)')
    BY <2>1, <2>2 DEF ListedInv, DoneInv, AskedAgain
  <2>4. RowInv(p) => RowInv(p)'
    BY <2>1 DEF RowInv, At
  <2>5. QED
    BY <2>1, <2>3, <2>4 DEF PassInv, InPass, Reading, Writing, At
<1>5. QED
  BY <1>1, <1>2, <1>3, <1>4 DEF Environment

LEMMA PassesPreserved ==
    ASSUME Serial, IInv, TInv', LeaseInv', [Next]_vars
    PROVE  (\A p \in Importers : PassInv(p))'
<1> USE DEF IInv, external, state
<1>1. ASSUME NEW p \in Pollers, due(p) PROVE (\A q \in Importers : PassInv(q))'
  <2>1. /\ p \in Importers
        /\ UNCHANGED <<now, host, card, watermark, reported>>
        /\ \A q \in Importers \ {p} : pass'[q] = pass[q]
        /\ pass'[p] = pass[p] \/ ~InPass(p)'
    BY <1>1 DEF due, Becomes, TInv, Importers, Idle, InPass
  <2>2. ASSUME NEW q \in Importers PROVE PassInv(q)'
    <3>1. pass'[q] = pass[q] \/ ~InPass(q)'
      BY <2>1
    <3>2. QED
      BY <2>1, <3>1, StandsStill, OutsideKeeps
  <2>3. QED
    BY <2>2
<1>2. ASSUME NEW p \in Manual, NEW full \in FullChoices, import_cards(p, full)
      PROVE  (\A q \in Importers : PassInv(q))'
  <2>1. p \in Importers /\ pass'[p].pc = "start"
    BY <1>2 DEF import_cards, Becomes, TInv, Importers, Idle
  <2>2. InPass(p)' /\ PassInv(p)'
    BY <2>1 DEF InPass, PassInv, Reading, Writing, At
  <2>3. QED
    BY <2>1, <2>2, OnlyMover
<1>3. ASSUME NEW p \in Importers, claim_import_lease(p)
      PROVE  (\A q \in Importers : PassInv(q))'
  <2>1. CASE pass[p].fresh
    <3>1. pass'[p].pc = "start"
      BY <1>3, <2>1 DEF claim_import_lease, TInv, Idle
    <3>2. InPass(p)' /\ PassInv(p)'
      BY <3>1 DEF InPass, PassInv, Reading, Writing, At
    <3>3. QED
      BY <3>2, OnlyMover
  <2>2. CASE ~pass[p].fresh
    <3>1. /\ UNCHANGED <<now, host, card, watermark, reported>>
          /\ \A q \in Importers \ {p} : pass'[q] = pass[q]
          /\ ~InPass(p)'
      BY <1>3, <2>2 DEF claim_import_lease, Becomes, TInv, Idle, InPass
    <3>2. ASSUME NEW q \in Importers PROVE PassInv(q)'
      <4>1. pass'[q] = pass[q] \/ ~InPass(q)'
        BY <3>1
      <4>2. QED
        BY <3>1, <4>1, StandsStill, OutsideKeeps
    <3>3. QED
      BY <3>2
  <2>3. QED
    BY <2>1, <2>2
<1>4. ASSUME NEW p \in Importers, get_watermark(p) PROVE (\A q \in Importers : PassInv(q))'
  <2>1. /\ pass'[p].pc = "fetch"
        /\ pass'[p].since = watermark
        /\ watermark' = watermark
    BY <1>4 DEF get_watermark, Becomes, TInv, Pass, LeaseInv
  <2>2. InPass(p)' /\ PassInv(p)'
    BY <2>1 DEF InPass, PassInv, Reading, Writing, At
  <2>3. QED
    BY <2>2, OnlyMover
<1>5. ASSUME NEW p \in Importers, NEW limit \in Limits, fetch_issues(p, limit)
      PROVE  (\A q \in Importers : PassInv(q))'
  <2>1. PassInv(p)'
    BY <1>5, FetchReads
  <2>2. pass'[p].pc = "next"
    BY <1>5, FetchStep
  <2>3. QED
    BY <2>1, <2>2, OnlyMover DEF InPass
<1>6. ASSUME NEW p \in Importers, NEW i \in Issues, get_by_issue_ref(p, i)
      PROVE  (\A q \in Importers : PassInv(q))'
  <2>1. PassInv(p)'
    BY <1>6, LookupKeeps
  <2>2. pass'[p].pc \in {"create", "update", "next"}
    BY <1>6, LookupStep
  <2>3. QED
    BY <2>1, <2>2, OnlyMover DEF InPass
<1>7. ASSUME NEW p \in Importers, create(p) PROVE (\A q \in Importers : PassInv(q))'
  <2>1. PassInv(p)'
    BY <1>7, CreateKeeps
  <2>2. pass'[p].pc \in {"labels", "next"}
    BY <1>7 DEF create, Becomes, TInv, Pass
  <2>3. QED
    BY <2>1, <2>2, OnlyMover DEF InPass
<1>8. ASSUME NEW p \in Importers, WriteLabels(p) \/ WriteChanges(p) \/ SkipIssue(p)
      PROVE  (\A q \in Importers : PassInv(q))'
  <2>1. PassInv(p)'
    BY <1>8, WriteKeeps
  <2>2. pass'[p].pc = "next"
    BY <1>8, WriteStep
  <2>3. QED
    BY <2>1, <2>2, OnlyMover DEF InPass
<1>9. ASSUME NEW p \in Importers, set_watermark(p) PROVE (\A q \in Importers : PassInv(q))'
  BY <1>9, AfterTheEnd DEF set_watermark, InPass, At
<1>10. ASSUME NEW p \in Importers, NEW refused \in BOOLEAN, FetchFails(p, refused)
       PROVE (\A q \in Importers : PassInv(q))'
  BY <1>10, AfterTheEnd DEF FetchFails, InPass, At
<1>11. ASSUME NEW p \in Importers, Crash(p) PROVE (\A q \in Importers : PassInv(q))'
  <2>1. /\ UNCHANGED <<now, host, card, watermark, reported>>
        /\ \A q \in Importers \ {p} : pass'[q] = pass[q]
        /\ ~InPass(p)'
    BY <1>11 DEF Crash, Becomes, TInv, Idle, InPass
  <2>2. ASSUME NEW q \in Importers PROVE PassInv(q)'
    <3>1. pass'[q] = pass[q] \/ ~InPass(q)'
      BY <2>1
    <3>2. QED
      BY <2>1, <3>1, StandsStill, OutsideKeeps
  <2>3. QED
    BY <2>2
<1>12. CASE LeaseExpires \/ UNCHANGED vars
  BY <1>12, StandsStill DEF LeaseExpires, vars
<1>13. CASE Environment
  BY <1>13, EnvironmentKeeps
<1>14. QED
  BY <1>1, <1>2, <1>3, <1>4, <1>5, <1>6, <1>7, <1>8, <1>9, <1>10, <1>11, <1>12, <1>13
  DEF Next, Proceed, Fail

-----------------------------------------------------------------------------
(* The first import, and what the watermark leaves behind.                 *)

LEMMA FirstPreserved ==
    ASSUME Serial, IInv, TInv', LeaseInv', [Next]_vars PROVE FirstInv'
<1> USE DEF IInv, external, state
<1>1. CASE watermark' # Never
  BY <1>1 DEF FirstInv
<1>2. CASE /\ watermark' = watermark
           /\ \/ card' = card
              \/ \E i \in Issues : card[i].row = "live"
           /\ \A q \in Importers : Reading(q) =>
                  Reading(q)' /\ pass'[q].newest = pass[q].newest
  BY <1>2 DEF FirstInv
<1>3. ASSUME NEW p \in Importers,
             due(p) \/ (\E full \in FullChoices : import_cards(p, full))
                \/ claim_import_lease(p) \/ get_watermark(p)
                \/ (\E limit \in Limits : fetch_issues(p, limit))
                \/ \E refused \in BOOLEAN : FetchFails(p, refused)
      PROVE  FirstInv'
  <2>1. ~Reading(p) /\ watermark' = watermark /\ card' = card
    BY <1>3 DEF due, import_cards, claim_import_lease, get_watermark, fetch_issues,
                FetchFails, Reading, At
  <2>2. \A q \in Importers \ {p} : pass'[q].pc = pass[q].pc /\ pass'[q].newest = pass[q].newest
    <3>1. CASE claim_import_lease(p)
      BY <3>1 DEF claim_import_lease, Becomes, TInv, Pass
    <3>2. CASE \E limit \in Limits : fetch_issues(p, limit)
      BY <3>2, FetchStep DEF TInv
    <3>3. CASE due(p) \/ (\E full \in FullChoices : import_cards(p, full))
                \/ get_watermark(p) \/ \E refused \in BOOLEAN : FetchFails(p, refused)
      BY <3>3 DEF due, import_cards, get_watermark, FetchFails, Becomes, TInv
    <3>4. QED
      BY <1>3, <3>1, <3>2, <3>3
  <2>3. \A q \in Importers : Reading(q) => Reading(q)' /\ pass'[q].newest = pass[q].newest
    BY <2>1, <2>2 DEF Reading
  <2>4. QED
    BY <1>2, <2>1, <2>3
<1>4. ASSUME NEW p \in Importers, NEW i \in Issues, get_by_issue_ref(p, i) PROVE FirstInv'
  <2>1. /\ pass'[p].newest = pass[p].newest
        /\ Reading(p)'
        /\ \A q \in Importers \ {p} : pass'[q] = pass[q]
    BY <1>4, LookupStep DEF TInv, Reading
  <2>2. watermark' = watermark /\ card' = card
    BY <1>4 DEF get_by_issue_ref
  <2>3. QED
    BY <1>2, <2>1, <2>2 DEF Reading
<1>5. ASSUME NEW p \in Importers,
             create(p) \/ WriteLabels(p) \/ WriteChanges(p) \/ SkipIssue(p)
      PROVE  FirstInv'
  <2>1. Writing(p) /\ Reading(p)
    BY <1>5 DEF create, WriteLabels, WriteChanges, SkipIssue, Writing, Reading, At
  <2>2. pass[p].newest # Never
    BY <2>1 DEF PassInv, RowInv, ListedInv
  <2>3. Reading(p)' /\ pass'[p].newest = pass[p].newest
    <3>1. CASE create(p)
      BY <3>1 DEF create, Becomes, TInv, Pass, Reading
    <3>2. CASE ~create(p)
      BY <1>5, <3>2, WriteStep DEF Reading
    <3>3. QED
      BY <3>1, <3>2
  <2>4. QED
    BY <2>2, <2>3 DEF FirstInv
<1>6. ASSUME NEW p \in Importers, set_watermark(p) PROVE FirstInv'
  <2>1. /\ \A q \in Importers \ {p} : ~Reading(q)
        /\ pass[p].since = watermark
        /\ pass[p].newest \in Stamps \cup {Never}
    BY <1>6 DEF set_watermark, LeaseInv, InPass, Reading, At, PassInv, TInv, Pass
  <2>2. CASE pass[p].newest = Never
    <3>1. watermark' = watermark /\ card' = card
      BY <1>6, <2>1, <2>2 DEF set_watermark, _next_watermark
    <3>2. QED
      BY <2>1, <2>2, <3>1 DEF FirstInv
  <2>3. CASE pass[p].newest # Never
    <3>1. watermark' # Never
      BY <1>6, <2>1, <2>3, ConstantTypes
      DEF set_watermark, _next_watermark, Stamps, FirstTick, Never
    <3>2. QED
      BY <1>1, <3>1
  <2>4. QED
    BY <2>2, <2>3
<1>7. ASSUME NEW p \in Importers, Crash(p) PROVE FirstInv'
  <2>1. watermark' = watermark /\ card' = card /\ \A q \in Importers \ {p} : pass'[q] = pass[q]
    BY <1>7 DEF Crash, Becomes, TInv
  <2>2. CASE Reading(p)
    <3>1. watermark # Never
      BY <1>7, <2>2 DEF Crash, Serial, PassInv, Reading, InPass, At
    <3>2. QED
      BY <1>1, <2>1, <3>1
  <2>3. CASE ~Reading(p)
    BY <1>2, <2>1, <2>3 DEF Reading
  <2>4. QED
    BY <2>2, <2>3
<1>8. CASE LeaseExpires \/ Environment \/ UNCHANGED vars
  <2>1. UNCHANGED <<watermark, pass>> /\ (card' = card \/ \E i \in Issues : card[i].row = "live")
    BY <1>8 DEF LeaseExpires, Environment, Touch, Show, Tick, Dispatch, delete, vars
  <2>2. QED
    BY <1>2, <2>1 DEF Reading
<1>9. QED
  BY <1>3, <1>4, <1>5, <1>6, <1>7, <1>8
  DEF Next, Proceed, Fail, Importers

\* What the board does not show stays ahead of the watermark.
LEMMA NothingPreserved ==
    ASSUME IInv, TInv', [Next]_vars PROVE NothingFallsBehind'
<1> USE ConstantTypes DEF IInv, external, state
<1>0. /\ now \in Nat /\ watermark \in Nat
      /\ \A i \in Issues : host[i].updated \in Nat
  BY DEF TInv, Issue, Stamps, FirstTick, Never, Watermarks
<1>1. CASE /\ watermark' = watermark
           /\ reported => reported'
           /\ \A i \in Issues : UpToDate(i) => \/ UpToDate(i)'
                                             \/ host'[i].updated >= watermark
           /\ \A i \in Issues : /\ host[i].updated <= host'[i].updated
                                /\ host'[i].updated \in Nat
  <2>1. ASSUME NEW i \in Issues, host[i].updated >= watermark
        PROVE  host'[i].updated >= watermark
    BY <1>0, <1>1, <2>1
  <2>2. QED
    BY <1>1, <2>1 DEF NothingFallsBehind
<1>2. CASE /\ UNCHANGED <<watermark, host>>
           /\ reported => reported'
           /\ \A i \in Issues : \/ card'[i] = card[i]
                                \/ card'[i].row = "deleted"
                                \/ host[i].updated >= watermark
                                \/ /\ card[i].row = "live" /\ card'[i].row = "live"
                                   /\ card'[i].fields = card[i].fields
                                   /\ card'[i].labels = card[i].labels
  <2>1. \A i \in Issues : host[i].updated <= host'[i].updated /\ host'[i].updated \in Nat
    <3>1. host' = host
      BY <1>2
    <3>2. ASSUME NEW n \in Nat PROVE n <= n
      OBVIOUS
    <3>3. ASSUME NEW i \in Issues
          PROVE  host[i].updated <= host'[i].updated /\ host'[i].updated \in Nat
      <4>1. host'[i].updated = host[i].updated /\ host[i].updated \in Nat
        BY <1>0, <3>1
      <4>2. QED
        BY <3>2, <4>1
    <3>4. QED
      BY <3>3
  <2>2. \A i \in Issues : UpToDate(i) => UpToDate(i)' \/ host'[i].updated >= watermark
    BY <1>2 DEF UpToDate
  <2>3. QED
    BY <1>1, <1>2, <2>1, <2>2
<1>3. ASSUME NEW p \in Importers, create(p) \/ WriteLabels(p) \/ WriteChanges(p)
      PROVE  NothingFallsBehind'
  <2>1. Reading(p) /\ Writing(p)
    BY <1>3 DEF create, WriteLabels, WriteChanges, Reading, Writing, At
  <2>2. PICK i \in Issues : i = pass[p].issue /\ pass[p].listed[i] # NotFiled
    BY <2>1 DEF PassInv, RowInv
  <2>3. pass[p].listed[i].updated \in Nat
    BY DEF TInv, Pass, Issue, Stamps, FirstTick, Never
  <2>4. host[i].updated >= watermark
    BY <1>0, <2>1, <2>2, <2>3 DEF PassInv, ListedInv
  <2>5. /\ UNCHANGED <<watermark, host, reported>>
        /\ \A j \in Issues \ {i} : card'[j] = card[j]
    BY <1>3, <2>2 DEF create, WriteLabels, WriteChanges, update, TInv
  <2>6. QED
    BY <1>2, <2>4, <2>5
<1>4. ASSUME NEW p \in Importers, set_watermark(p) PROVE NothingFallsBehind'
  <2>1. /\ DoneInv(p)
        /\ pass[p].since = watermark
        /\ pass[p].newest \in Nat
        /\ \A i \in Issues : pass[p].listed[i] = NotFiled
        /\ UNCHANGED <<host, card, reported>>
    BY <1>4 DEF set_watermark, PassInv, Reading, InPass, At, Listed, TInv, Pass, Stamps,
                FirstTick, Never
  <2>2. CASE pass[p].newest = Never
    <3>1. watermark' = watermark
      BY <1>4, <2>1, <2>2 DEF set_watermark, _next_watermark
    <3>2. QED
      BY <1>2, <2>1, <3>1
  <2>3. CASE pass[p].newest # Never
    <3>1. watermark' = pass[p].newest - Overlap \/ watermark' = watermark
      BY <1>4, <2>3 DEF set_watermark, _next_watermark
    <3>2. CASE watermark' = pass[p].newest - Overlap
      <4>1. reported \/ \A i \in Issues : UpToDate(i) \/ host[i].updated >= watermark'
        BY <2>1, <2>3, <3>2 DEF DoneInv, AskedAgain
      <4>2. QED
        BY <2>1, <4>1 DEF NothingFallsBehind, UpToDate
    <3>3. CASE watermark' = watermark
      BY <1>2, <2>1, <3>3
    <3>4. QED
      BY <3>1, <3>2, <3>3
  <2>4. QED
    BY <2>2, <2>3
<1>5. ASSUME NEW i \in Issues, NEW open \in BOOLEAN, Touch(i, open)
      PROVE  NothingFallsBehind'
  <2>1. /\ host'[i].updated = now
        /\ host[i].updated < now
        /\ \A j \in Issues \ {i} : host'[j] = host[j]
        /\ UNCHANGED <<card, watermark, reported>>
    BY <1>5 DEF Touch, TInv
  <2>2. watermark <= now
    BY DEF HostInv
  <2>3. ASSUME NEW j \in Issues
        PROVE  /\ host[j].updated <= host'[j].updated /\ host'[j].updated \in Nat
               /\ UpToDate(j) => UpToDate(j)' \/ host'[j].updated >= watermark
    BY <1>0, <2>1, <2>2 DEF UpToDate
  <2>4. QED
    BY <1>1, <2>1, <2>3
<1>6. ASSUME NEW i \in Issues, Dispatch(i) \/ delete(i) PROVE NothingFallsBehind'
  <2>1. UNCHANGED <<host, watermark, reported>>
    BY <1>6 DEF Dispatch, delete
  <2>2. \A j \in Issues : \/ card'[j] = card[j]
                          \/ card'[j].row = "deleted"
                          \/ /\ card[j].row = "live" /\ card'[j].row = "live"
                             /\ card'[j].fields = card[j].fields
                             /\ card'[j].labels = card[j].labels
    BY <1>6 DEF Dispatch, delete, TInv, Card
  <2>3. QED
    BY <1>2, <2>1, <2>2
<1>7. CASE /\ UNCHANGED <<watermark, host, card>>
           /\ reported => reported'
  BY <1>2, <1>7
<1>8. ASSUME NEW p \in Importers, NEW limit \in Limits, fetch_issues(p, limit)
      PROVE  NothingFallsBehind'
  <2>1. reported => reported'
    BY <1>8, FetchStep
  <2>2. UNCHANGED <<watermark, host, card>>
    BY <1>8 DEF fetch_issues
  <2>3. QED
    BY <1>7, <2>1, <2>2
<1>9. ASSUME NEW p \in Importers,
             due(p) \/ (\E full \in FullChoices : import_cards(p, full))
                \/ claim_import_lease(p) \/ get_watermark(p)
                \/ (\E i \in Issues : get_by_issue_ref(p, i))
                \/ Fail(p)
      PROVE  NothingFallsBehind'
  BY <1>7, <1>9
  DEF due, import_cards, claim_import_lease, get_watermark, get_by_issue_ref, Fail,
      FetchFails, SkipIssue, Crash
<1>10. CASE LeaseExpires \/ Tick \/ (\E i \in Issues : Show(i)) \/ UNCHANGED vars
  BY <1>7, <1>10 DEF LeaseExpires, Tick, Show, vars
<1>11. QED
  BY <1>3, <1>4, <1>5, <1>6, <1>8, <1>9, <1>10
  DEF Next, Proceed, Environment, Importers

-----------------------------------------------------------------------------
(* The theorems.                                                           *)

LEMMA InitInv == ASSUME Init PROVE IInv
<1> USE ConstantTypes DEF Init
<1>1. TInv
  BY DEF TInv, Watermarks, Never
<1>2. LeaseInv
  BY RoleAssumption DEF LeaseInv, OnePollerPerLease, InPass, At, Idle, Importers
<1>3. HostInv
  BY DEF HostInv, Nothing, NotFiled, Never, FirstTick
<1>4. \A p \in Importers : PassInv(p)
  BY DEF PassInv, InPass, Reading, Writing, At, Idle
<1>5. FirstInv /\ NothingFallsBehind
  BY DEF FirstInv, NoCard, NothingFallsBehind
<1>6. QED
  BY <1>1, <1>2, <1>3, <1>4, <1>5 DEF IInv

LEMMA InvPreserved == ASSUME Serial, IInv, [Next]_vars PROVE IInv'
<1>1. \A p \in Importers : Writing(p) => RowInv(p)
  BY DEF IInv, PassInv
<1>2. TInv'
  BY <1>1, TypesPreserved DEF IInv
<1>3. LeaseInv'
  BY <1>1, <1>2, LeasePreserved DEF IInv
<1>4. HostInv'
  BY HostPreserved DEF IInv
<1>5. QED
  BY <1>2, <1>3, <1>4, PassesPreserved, FirstPreserved, NothingPreserved DEF IInv

\* While one pass runs at a time, none of them full and no first import cut
\* short: whatever changes on the host during a pass, and however far the
\* listing lags within the overlap, _next_watermark leaves no change behind
\* that the board does not show, unless the pass reported it.
THEOREM NothingIsMissed == ASSUME Serial PROVE Spec => []NothingFallsBehind
<1>1. Init => IInv
  BY InitInv
<1>2. IInv /\ [Next]_vars => IInv'
  BY InvPreserved
<1>3. IInv => NothingFallsBehind
  BY DEF IInv
<1>4. QED
  BY <1>1, <1>2, <1>3, PTL DEF Spec

\* In the same circumstances claim_import_lease admits one poller at a time.
THEOREM OnePollerAtATime == ASSUME Serial PROVE Spec => []OnePollerPerLease
<1>1. Init => IInv
  BY InitInv
<1>2. IInv /\ [Next]_vars => IInv'
  BY InvPreserved
<1>3. IInv => OnePollerPerLease
  BY DEF IInv, LeaseInv
<1>4. QED
  BY <1>1, <1>2, <1>3, PTL DEF Spec

\* One card for each issue: all that the last theorem needs.
CardPerIssue == card = [i \in Issues |-> card[i]]

LEMMA CardPerIssuePreserved == ASSUME CardPerIssue, [Next]_vars PROVE CardPerIssue'
<1>1. ASSUME NEW i, NEW c, card' = [card EXCEPT ![i] = c] PROVE CardPerIssue'
  BY <1>1 DEF CardPerIssue
<1>2. CASE card' = card
  BY <1>2 DEF CardPerIssue
<1>3. ASSUME NEW p \in Importers, create(p) \/ WriteLabels(p) \/ WriteChanges(p)
      PROVE  CardPerIssue'
  BY <1>1, <1>2, <1>3 DEF create, WriteLabels, WriteChanges, update
<1>4. ASSUME NEW i \in Issues, Dispatch(i) \/ delete(i) PROVE CardPerIssue'
  BY <1>4 DEF Dispatch, delete, CardPerIssue
<1>5. QED
  BY <1>2, <1>3, <1>4
  DEF Next, Proceed, Fail, Environment, due, import_cards, claim_import_lease,
      get_watermark, fetch_issues, get_by_issue_ref, set_watermark, FetchFails, SkipIssue,
      Crash, LeaseExpires, Touch, Show, Tick, vars

LEMMA DeletedStep ==
    ASSUME CardPerIssue, [Next]_vars, NEW i \in Issues, card[i].row = "deleted"
    PROVE  card'[i] = card[i]
<1>1. ASSUME NEW j, NEW c, card' = [card EXCEPT ![j] = c], card[j].row # "deleted"
      PROVE  card'[i] = card[i]
  BY <1>1 DEF CardPerIssue
<1>2. ASSUME NEW p \in Importers, create(p) \/ WriteLabels(p) \/ WriteChanges(p)
      PROVE  card'[i] = card[i]
  BY <1>1, <1>2 DEF create, WriteLabels, WriteChanges, update
<1>3. ASSUME NEW j \in Issues, Dispatch(j) \/ delete(j) PROVE card'[i] = card[i]
  BY <1>3 DEF Dispatch, delete, CardPerIssue
<1>4. QED
  BY <1>2, <1>3
  DEF Next, Proceed, Fail, Environment, due, import_cards, claim_import_lease,
      get_watermark, fetch_issues, get_by_issue_ref, set_watermark, FetchFails, SkipIssue,
      Crash, LeaseExpires, Touch, Show, Tick, vars

\* However many passes run at the same time, full or not, interrupted or
\* not: CardStore.create and CardStore.update never touch a card that was
\* taken off the board.
THEOREM DeletedIsFinal == Spec => DeletedStays
<1>1. Init => CardPerIssue
  BY DEF Init, CardPerIssue
<1>2. CardPerIssue /\ [Next]_vars => CardPerIssue'
  BY CardPerIssuePreserved
<1>3. CardPerIssue /\ [Next]_vars =>
         [\A i \in Issues : card[i].row = "deleted" => card'[i] = card[i]]_vars
  BY DeletedStep
<1>4. QED
  BY <1>1, <1>2, <1>3, PTL DEF Spec, DeletedStays

=============================================================================
