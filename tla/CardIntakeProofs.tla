-------------------------- MODULE CardIntakeProofs --------------------------
(***************************************************************************)
(* What the dispatch protocol of CardIntake guarantees for every set of    *)
(* threads, keys and choices and every bound on the runs.                  *)
(*                                                                         *)
(* The guard of a test run (refuse_reason) is read on a copy of the card.  *)
(* That copy was settled from a copy of a work item, which was merged from *)
(* an event.  So the property is inductive only together with the truth of *)
(* every place a "done" travels through: an event, a slice, the item a     *)
(* handler carries, its copy of the card, and the card.                    *)
(***************************************************************************)
EXTENDS CardIntake, SequenceTheorems, TLAPS

-----------------------------------------------------------------------------
(* The inductive invariant.                                                *)

\* A handler about to queue a sequence owes some stage: the first of the
\* stages it queues exists.
Handler == {me \in Worker : me.pc = "queue" => InState(me.snap, "done") # Stages}

TInv == TypeOK /\ worker \in [Workers -> Handler]

\* f, a record per stage, calls no stage done that was not.
NoFalseDone(f) == \A s \in Stages : f[s] = "done" => Completed(s)

\* A handler holds true copies, and sends a test only after a build.
Sound(me) ==
    /\ NoFalseDone(me.snap.runs)
    /\ NoFalseDone(me.item)
    /\ me.pc = "send" /\ me.stage = "test" => Completed("code")

EventsTrue == \A m \in net : m.status = "done" => runs[m.run].state = "done"
SlicesTrue == \A k \in Keys : NoFalseDone(slices[k])
CardTrue == NoFalseDone(card.runs)
WorkersTrue == \A w \in Workers : Sound(worker[w])

Evidence == EventsTrue /\ SlicesTrue /\ CardTrue /\ WorkersTrue

IInv == TInv /\ Evidence /\ TestHasBuild

-----------------------------------------------------------------------------
(* The types of the helpers.                                               *)

LEMMA IdleType == Idle \in Handler /\ BlankCard \in Card
BY DEF Handler, Idle, Worker, BlankCard, Card, Steps, Stages, NoSlices, StageStatus,
       SliceStatus, Absent, Statuses, Tiers, NoTier

LEMMA HandlersTyped ==
    /\ Handler \subseteq Worker
    /\ \A f \in [Workers -> Handler] : f \in [Workers -> Worker]
BY DEF Handler

\* The first stage of a non-empty set of stages is one of them.
LEMMA FirstType ==
    ASSUME NEW S \in SUBSET Stages, S # {}
    PROVE  First(S) \in S
<1>1. \E i \in 1 .. 3 : /\ SEQUENCE[i] \in S
                        /\ \A j \in 1 .. (i - 1) : SEQUENCE[j] \notin S
  <2>1. SEQUENCE[1] = "plan" /\ SEQUENCE[2] = "code" /\ SEQUENCE[3] = "test"
    BY DEF SEQUENCE
  <2>2. CASE "plan" \in S
    BY <2>1, <2>2
  <2>3. CASE "plan" \notin S /\ "code" \in S
    BY <2>1, <2>3
  <2>4. CASE S = {"test"}
    BY <2>1, <2>4
  <2> QED BY <2>2, <2>3, <2>4 DEF Stages
<1> QED BY <1>1 DEF First

LEMMA InStateType ==
    ASSUME NEW c, NEW st
    PROVE  InState(c, st) \in SUBSET Stages
BY DEF InState

LEMMA SettledType ==
    ASSUME NEW c \in Card, NEW item
    PROVE  [c EXCEPT !.runs = settled(c, item)] \in Card
BY DEF settled, Card, StageStatus

LEMMA DispatchStageType ==
    ASSUME NEW me \in Worker, NEW c \in Card, NEW s \in Stages
    PROVE  dispatch_stage(me, c, s) \in Handler
BY IdleType DEF Handler, dispatch_stage, Ended, Worker, Steps

LEMMA AdvanceType ==
    ASSUME NEW me \in Worker, NEW c \in Card
    PROVE  _advance(me, c) \in Handler
<1>1. InState(c, "queued") # {} =>
         dispatch_stage(me, c, First(InState(c, "queued"))) \in Handler
  BY InStateType, FirstType, DispatchStageType
<1> QED BY <1>1 DEF _advance, Handler, Worker, Steps

LEMMA PromotionType ==
    ASSUME NEW c \in Card
    PROVE  maybe_dispatch(c) \in Handler
<1> DEFINE s == default_stage(c)
<1>1. s \in Stages
  BY DEF default_stage, Stages
<1> HIDE DEF s
<1>2. [Idle EXCEPT !.pc = "no project"] \in Handler
  BY IdleType DEF Handler, Worker, Steps
<1>3. [Idle EXCEPT !.pc = "send", !.snap = c, !.stage = s] \in Handler
  BY <1>1, IdleType DEF Handler, Worker, Steps
<1>4. dispatch_card(c) \in Handler
  BY <1>2, <1>3, IdleType DEF dispatch_card, s
<1> QED BY <1>4, IdleType DEF maybe_dispatch

LEMMA WrittenType ==
    ASSUME NEW c \in Card, NEW snap \in Card
    PROVE  written(c, snap) \in Card
BY DEF written


-----------------------------------------------------------------------------
(* Type correctness.                                                       *)

LEMMA TypeInit == Init => TInv
<1> SUFFICES ASSUME Init PROVE TInv
  OBVIOUS
<1>1. card \in Card
  BY IdleType, ChoicesAssumption DEF Init, Card
<1>2. project \in BOOLEAN
  BY DEF Init
<1>3. runs \in Seq(Run) /\ Len(runs) <= MaxRuns
  BY EmptySeq, BoundsAssumption DEF Init
<1>4. slices \in [Keys -> [Stages -> SliceStatus]]
  BY DEF Init, NoSlices, SliceStatus
<1>5. worker \in [Workers -> Handler] /\ worker \in [Workers -> Worker]
  BY IdleType, HandlersTyped DEF Init
<1> QED BY <1>1, <1>2, <1>3, <1>4, <1>5 DEF Init, TInv, TypeOK

\* A step of one handler that leaves it and the card well typed.
LEMMA HandlerType ==
    ASSUME TInv, NEW w \in Workers, NEW me \in Handler,
           worker' = [worker EXCEPT ![w] = me], card' \in Card,
           UNCHANGED <<project, runs, net, slices>>
    PROVE  TInv'
<1>1. worker' \in [Workers -> Handler] /\ worker' \in [Workers -> Worker]
  BY HandlersTyped DEF TInv
<1> QED BY <1>1 DEF TInv, TypeOK

LEMMA UpdateType ==
    ASSUME TInv, NEW c \in Card, update(c)
    PROVE  card' \in Card
BY DEF TInv, TypeOK, update

LEMMA RequestType ==
    ASSUME TInv, NEW w \in Workers, Request(w)
    PROVE  TInv'
<1>1. CASE \E st \in StatusChoices, t \in TierChoices : update_card(w, st, t)
  <2>1. PICK st \in StatusChoices, t \in TierChoices : update_card(w, st, t)
    BY <1>1
  <2> DEFINE c == [card EXCEPT !.status = st, !.tier = t]
  <2>2. c \in Card
    BY ChoicesAssumption DEF TInv, TypeOK, Card
  <2>3. maybe_dispatch(c) \in Handler
    BY <2>2, PromotionType
  <2> QED BY <2>1, <2>2, <2>3, HandlerType DEF update_card, Becomes
<1>2. CASE \E s \in Stages : run_card_stage(w, s)
  <2>1. PICK s \in Stages : run_card_stage(w, s)
    BY <1>2
  <2>2. dispatch_stage(Idle, card, s) \in Handler
    BY IdleType, HandlersTyped, DispatchStageType DEF TInv, TypeOK
  <2> QED BY <2>1, <2>2, HandlerType DEF run_card_stage, Becomes, TInv, TypeOK
<1>3. CASE run_card_sequence(w)
  <2>1. [Idle EXCEPT !.pc = "refused"] \in Handler
    BY IdleType DEF Handler, Worker, Steps
  <2>2. [Idle EXCEPT !.pc = "queue", !.snap = card] \in Worker
    BY IdleType, HandlersTyped DEF TInv, TypeOK, Worker, Steps
  <2>3. [Idle EXCEPT !.pc = "queue", !.snap = card].snap = card
    BY DEF Idle
  <2>4. InState(card, "done") # Stages =>
           [Idle EXCEPT !.pc = "queue", !.snap = card] \in Handler
    BY <2>2, <2>3 DEF Handler
  <2>5. \E me \in Handler : Becomes(w, me)
    BY <1>3, <2>1, <2>4, IdleType DEF run_card_sequence
  <2> QED BY <1>3, <2>5, HandlerType DEF run_card_sequence, Becomes, TInv, TypeOK
<1>4. CASE delete_card(w)
  BY <1>4 DEF delete_card, TInv, TypeOK, Card
<1> QED BY <1>1, <1>2, <1>3, <1>4 DEF Request

\* The copies and answers of a handler, one conjunct per field it reads.
LEMMA WorkerType ==
    ASSUME TInv, NEW w \in Workers
    PROVE  /\ worker[w] \in Handler
           /\ worker[w] \in Worker
           /\ worker[w].snap \in Card
           /\ worker[w].stage \in Stages
           /\ worker[w].ref \in Keys \cup {NoKey}
BY HandlersTyped DEF TInv, TypeOK, Worker

LEMMA RecordType ==
    ASSUME NEW me \in Worker, card \in Card
    PROVE  _send(me) \in Card
<1>1. /\ [me.snap.runs EXCEPT ![me.stage] = "dispatched"]
            \in [Stages -> StageStatus]
      /\ [me.snap.runs EXCEPT ![me.stage] = "failed"]
            \in [Stages -> StageStatus]
  BY DEF Worker, Card, StageStatus
<1>2. join_key(me.snap, me.ref) \in Keys \cup {NoKey}
  BY DEF join_key, Worker, Card, Keys
<1>3. {"in_progress", "blocked"} \subseteq Statuses
  BY DEF Statuses
<1> QED BY <1>1, <1>2, <1>3 DEF _send, Card

LEMMA VerdictType ==
    ASSUME NEW item, NEW remaining
    PROVE  card_status_for(item, remaining) \in Statuses \cup {Absent}
BY DEF card_status_for, Statuses

LEMMA AcceptType ==
    ASSUME TInv, NEW w \in Workers, NEW ref \in Answers, Accept(w, ref)
    PROVE  TInv'
<1> DEFINE run == [stage |-> worker[w].stage,
                   key |-> IF ref = NoKey THEN CardKey ELSE ref,
                   state |-> "running"]
<1>1. run \in Run
  BY WorkerType DEF Run, Keys
<1>2. runs' = Append(runs, run) /\ Len(runs) < MaxRuns
  BY DEF Accept
<1>3. runs' \in Seq(Run) /\ Len(runs') = Len(runs) + 1
  BY <1>1, <1>2, AppendProperties DEF TInv, TypeOK
<1>4. Len(runs) \in Nat
  BY LenProperties DEF TInv, TypeOK
<1>5. Len(runs') <= MaxRuns /\ \A m \in net : m.run <= Len(runs')
  <2>1. \A m \in net : m.run \in Nat
    BY DEF TInv, TypeOK, Message
  <2> QED BY <1>2, <1>3, <1>4, <2>1, BoundsAssumption DEF TInv, TypeOK
<1>6. worker' \in [Workers -> Handler] /\ worker' \in [Workers -> Worker]
  <2>1. /\ [worker[w] EXCEPT !.pc = "sent", !.ok = TRUE, !.ref = ref] \in Handler
        /\ [worker[w] EXCEPT !.pc = "sent", !.ok = FALSE, !.ref = NoKey]
              \in Handler
    BY WorkerType DEF Handler, Worker, Steps, Keys
  <2>2. \E me \in Handler : Becomes(w, me)
    BY <2>1 DEF Accept, Answered
  <2>3. worker' \in [Workers -> Handler]
    BY <2>2 DEF Becomes, TInv
  <2> QED BY <2>3, HandlersTyped
<1> QED BY <1>3, <1>5, <1>6 DEF Accept, TInv, TypeOK

LEMMA ContinueType ==
    ASSUME TInv, NEW w \in Workers, Continue(w)
    PROVE  TInv'
<1> DEFINE me == worker[w]
<1>1. CASE BlockForNoProject(w)
  <2>1. [card EXCEPT !.status = "blocked"] \in Card
    BY DEF TInv, TypeOK, Card, Statuses
  <2> QED BY <1>1, <2>1, UpdateType, IdleType, HandlerType
          DEF BlockForNoProject, Becomes
<1>2. CASE start_sequence(w)
  <2> DEFINE snap == me.snap
             todo == Stages \ InState(snap, "done")
             queued == [s \in Stages |->
                           IF s \in todo THEN "queued" ELSE snap.runs[s]]
             c == [card EXCEPT !.runs = queued]
  <2>1. c \in Card
    BY WorkerType DEF TInv, TypeOK, Card, StageStatus
  <2>2. written(c, snap) \in Card
    BY <2>1, WorkerType, WrittenType
  <2>3. todo # {}
    BY <1>2, WorkerType, InStateType DEF start_sequence, At, Handler
  <2>4. Idle \in Worker /\ First(todo) \in Stages
    BY <2>3, IdleType, HandlersTyped, FirstType
  <2>5. dispatch_stage(Idle, written(c, snap), First(todo)) \in Handler
    BY <2>2, <2>4, DispatchStageType
  <2> QED BY <1>2, <2>1, <2>5, UpdateType, HandlerType
          DEF start_sequence, Becomes
<1>3. CASE Refuse(w)
  BY <1>3, IdleType, HandlerType DEF Refuse, Becomes, TInv, TypeOK
<1>4. CASE \E ref \in Answers : Accept(w, ref)
  BY <1>4, AcceptType
<1>5. CASE Reject(w)
  <2>1. [me EXCEPT !.pc = "sent", !.ok = FALSE, !.ref = NoKey] \in Handler
    BY WorkerType DEF Handler, Worker, Steps
  <2> QED BY <1>5, <2>1, HandlerType DEF Reject, Answered, Becomes, TInv, TypeOK
<1>6. CASE Record(w)
  <2>1. _send(me) \in Card
    BY WorkerType, RecordType DEF TInv, TypeOK
  <2>2. Ended(me, me.snap) \in Handler
    BY WorkerType, IdleType DEF Ended, Handler, Worker, Steps
  <2> QED BY <1>6, <2>1, <2>2, UpdateType, HandlerType DEF Record, Becomes
<1>7. CASE apply_status(w)
  <2>1. _advance(me, card) \in Handler
    BY WorkerType, AdvanceType DEF TInv, TypeOK
  <2>2. [me EXCEPT !.pc = "settle", !.snap = card] \in Handler
    BY WorkerType DEF TInv, TypeOK, Handler, Worker, Steps
  <2>3. \E next \in Handler : Becomes(w, next)
    BY <1>7, <2>1, <2>2, IdleType DEF apply_status
  <2> QED BY <1>7, <2>3, HandlerType DEF apply_status, Becomes, TInv, TypeOK
<1>8. CASE _settle(w)
  <2> DEFINE c == [card EXCEPT !.runs = settled(me.snap, me.item)]
  <2>1. c \in Card
    BY WorkerType DEF settled, TInv, TypeOK, Card, StageStatus
  <2>2. _advance(me, written(c, me.snap)) \in Handler
    BY <2>1, WorkerType, WrittenType, AdvanceType
  <2> QED BY <1>8, <2>1, <2>2, UpdateType, HandlerType DEF _settle, Becomes
<1>9. CASE BlockSequence(w)
  <2> DEFINE c == [card EXCEPT !.status = "blocked"]
  <2>1. c \in Card
    BY DEF TInv, TypeOK, Card, Statuses
  <2>2. written(c, me.snap) \in Card
    BY <2>1, WorkerType, WrittenType
  <2>3. [me EXCEPT !.pc = "status", !.snap = written(c, me.snap)] \in Handler
    BY <2>2, WorkerType DEF Handler, Worker, Steps
  <2> QED BY <1>9, <2>1, <2>3, UpdateType, HandlerType
          DEF BlockSequence, Becomes
<1>10. CASE Reread(w)
  <2>1. written(card, me.snap) \in Card
    BY WorkerType, WrittenType DEF TInv, TypeOK
  <2>2. [me EXCEPT !.pc = "status", !.snap = written(card, @)] \in Handler
    BY <2>1, WorkerType DEF Handler, Worker, Steps
  <2> QED BY <1>10, <2>2, HandlerType DEF Reread, Becomes, TInv, TypeOK
<1>11. CASE WriteStatus(w)
  <2> DEFINE st == card_status_for(me.item, pending_stages(me.snap) # {})
  <2>1. st # Absent => [card EXCEPT !.status = st] \in Card
    <3>1. st \in Statuses \cup {Absent}
      BY VerdictType
    <3> HIDE DEF st
    <3> QED BY <3>1 DEF TInv, TypeOK, Card
  <2>2. card' \in Card
    <3> HIDE DEF st
    <3>1. \/ UNCHANGED card
          \/ st # Absent /\ update([card EXCEPT !.status = st])
      BY <1>11 DEF WriteStatus, st
    <3> QED BY <2>1, <3>1, UpdateType DEF TInv, TypeOK
  <2> QED BY <1>11, <2>2, IdleType, HandlerType DEF WriteStatus, Becomes
<1> QED BY <1>1, <1>2, <1>3, <1>4, <1>5, <1>6, <1>7, <1>8, <1>9, <1>10, <1>11
        DEF Continue

LEMMA IngestType ==
    ASSUME TInv, NEW w \in Workers, NEW m \in net, ingest(w, m)
    PROVE  TInv'
<1> DEFINE r == runs[m.run]
           item == [slices[r.key] EXCEPT ![r.stage] = m.status]
<1>1. r \in Run /\ m.status \in SliceStatus
  <2>1. m.run \in 1 .. Len(runs)
    BY LenProperties DEF TInv, TypeOK, Message
  <2> QED BY <2>1, ElementOfSeq DEF TInv, TypeOK, Message
<1>2. item \in [Stages -> SliceStatus]
  BY <1>1 DEF TInv, TypeOK, Run
<1>3. [Idle EXCEPT !.pc = "apply", !.key = r.key, !.item = item] \in Handler
  BY <1>1, <1>2, IdleType DEF Handler, Worker, Steps, Run
<1>4. worker' \in [Workers -> Handler] /\ worker' \in [Workers -> Worker]
  BY <1>3, HandlersTyped DEF ingest, Becomes, TInv
<1> QED BY <1>2, <1>4 DEF ingest, TInv, TypeOK

LEMMA EmitType ==
    ASSUME TInv, NEW r \in 1 .. Len(runs), NEW st \in SliceStatus \ {Absent},
           Emit(r, st)
    PROVE  net' \subseteq Message /\ \A m \in net' : m.run <= Len(runs)
<1>1. r \in 1 .. MaxRuns /\ r <= Len(runs)
  BY LenProperties, BoundsAssumption DEF TInv, TypeOK
<1> QED BY <1>1 DEF Emit, Message, TInv, TypeOK

LEMMA UpstreamType ==
    ASSUME TInv, Upstream
    PROVE  TInv'
<1> SUFFICES ASSUME NEW r \in 1 .. Len(runs),
                    \/ \E st \in Reports : Progress(r, st)
                    \/ \E outcome \in {"done", "failed"} : Finish(r, outcome)
                    \/ \E st \in SliceStatus : Poll(r, st)
             PROVE  TInv'
  BY DEF Upstream
<1>1. runs[r] \in Run
  BY ElementOfSeq DEF TInv, TypeOK
<1>2. CASE \E st \in Reports : Progress(r, st)
  <2>1. PICK st \in Reports : Progress(r, st)
    BY <1>2
  <2>2. st \in SliceStatus \ {Absent}
    BY ChoicesAssumption DEF SliceStatus, Absent
  <2> QED BY <2>1, <2>2, EmitType DEF Progress, TInv, TypeOK
<1>3. CASE \E outcome \in {"done", "failed"} : Finish(r, outcome)
  <2>1. PICK outcome \in {"done", "failed"} : Finish(r, outcome)
    BY <1>3
  <2>2. outcome \in SliceStatus \ {Absent}
    BY DEF SliceStatus, Absent
  <2>3. runs' \in Seq(Run) /\ Len(runs') = Len(runs)
    <3>1. [runs[r] EXCEPT !.state = outcome] \in Run
      BY <1>1 DEF Run
    <3>2. runs' = [runs EXCEPT ![r] = [runs[r] EXCEPT !.state = outcome]]
      BY <2>1 DEF Finish
    <3> QED BY <3>1, <3>2, ExceptSeq DEF TInv, TypeOK
  <2> QED BY <2>1, <2>2, <2>3, EmitType DEF Finish, TInv, TypeOK
<1>4. CASE \E st \in SliceStatus : Poll(r, st)
  BY <1>1, <1>4 DEF Poll, TInv, TypeOK, Run
<1> QED BY <1>2, <1>3, <1>4

LEMMA TypeNext == TInv /\ [Next]_vars => TInv'
<1> SUFFICES ASSUME TInv, [Next]_vars PROVE TInv'
  OBVIOUS
<1>1. CASE \E w \in Workers : Request(w) \/ Continue(w)
  BY <1>1, RequestType, ContinueType
<1>2. CASE \E w \in Workers, m \in net : ingest(w, m)
  BY <1>2, IngestType
<1>3. CASE Upstream
  BY <1>3, UpstreamType
<1>4. CASE \E b \in BOOLEAN : SetProject(b)
  BY <1>4 DEF SetProject, TInv, TypeOK
<1>5. CASE Crash
  BY <1>5, IdleType, HandlersTyped DEF Crash, TInv, TypeOK
<1>6. CASE UNCHANGED vars
  BY <1>6 DEF vars, TInv, TypeOK
<1> QED BY <1>1, <1>2, <1>3, <1>4, <1>5, <1>6 DEF Next

\* Every state of every handler and every table is well typed.
THEOREM TypeCorrect == Spec => []TypeOK
<1>1. TInv => TypeOK
  BY DEF TInv
<1> QED BY <1>1, TypeInit, TypeNext, PTL DEF Spec

-----------------------------------------------------------------------------
(* The helpers keep a handler's copies true.                               *)

LEMMA IdleSound == Sound(Idle) /\ NoFalseDone(BlankCard.runs)
BY DEF Sound, NoFalseDone, Idle, BlankCard, NoSlices, Absent

LEMMA EndedSound ==
    ASSUME NEW me \in Worker, NEW c \in Card,
           Sound(me), NoFalseDone(c.runs)
    PROVE  Sound(Ended(me, c))
BY IdleSound DEF Ended, Sound, Worker

\* refuse_reason lets a test through only on a copy whose build is done.
LEMMA DispatchStageSound ==
    ASSUME NEW me \in Worker, NEW c \in Card, NEW s \in Stages,
           Sound(me), NoFalseDone(c.runs)
    PROVE  Sound(dispatch_stage(me, c, s))
<1>1. CASE c.runs[s] = "done" \/ refuse_reason(c, s, project)
  <2>1. Sound([Idle EXCEPT !.pc = "refused"])
    BY IdleSound DEF Sound, Idle
  <2> QED BY <1>1, <2>1, EndedSound DEF dispatch_stage
<1>2. CASE c.runs[s] # "done" /\ ~refuse_reason(c, s, project)
  <2> DEFINE next == [me EXCEPT !.pc = "send", !.snap = c, !.stage = s]
  <2>1. next.snap = c /\ next.item = me.item /\ next.stage = s
    BY DEF Worker
  <2>2. s = "test" => Completed("code")
    BY <1>2 DEF refuse_reason, NoFalseDone, Stages
  <2> QED BY <1>2, <2>1, <2>2 DEF dispatch_stage, Sound
<1> QED BY <1>1, <1>2

LEMMA AdvanceSound ==
    ASSUME NEW me \in Worker, NEW c \in Card,
           Sound(me), NoFalseDone(c.runs)
    PROVE  Sound(_advance(me, c))
<1>1. /\ Sound([[me EXCEPT !.snap = c] EXCEPT !.pc = "status"])
      /\ Sound([[me EXCEPT !.snap = c] EXCEPT !.pc = "block"])
  BY DEF Sound, Worker
<1>2. InState(c, "queued") # {} =>
         Sound(dispatch_stage(me, c, First(InState(c, "queued"))))
  BY InStateType, FirstType, DispatchStageSound
<1> QED BY <1>1, <1>2 DEF _advance

\* A promotion sends a plan or a build, never a test.
LEMMA PromotionSound ==
    ASSUME NEW c \in Card, NoFalseDone(c.runs)
    PROVE  Sound(maybe_dispatch(c))
<1>1. /\ Sound([Idle EXCEPT !.pc = "no project"])
      /\ \A s \in {"plan", "code"} :
            Sound([Idle EXCEPT !.pc = "send", !.snap = c, !.stage = s])
  BY IdleSound DEF Sound, Idle
<1> QED BY <1>1, IdleSound DEF maybe_dispatch, dispatch_card, default_stage

\* _settle writes done only where the work item says done.
LEMMA SettledSound ==
    ASSUME NEW c \in Card, NEW item, NoFalseDone(c.runs), NoFalseDone(item)
    PROVE  NoFalseDone(settled(c, item))
BY DEF NoFalseDone, settled

\* The row as written, or the copy the caller had: both are true.
LEMMA WrittenSound ==
    ASSUME NEW c, NEW snap, NoFalseDone(c.runs), NoFalseDone(snap.runs)
    PROVE  NoFalseDone(written(c, snap).runs)
BY DEF written

LEMMA UpdateSound ==
    ASSUME CardTrue, NEW c, NoFalseDone(c.runs), update(c), UNCHANGED runs
    PROVE  CardTrue'
BY DEF update, CardTrue, NoFalseDone, Completed

-----------------------------------------------------------------------------
(* Each step keeps the evidence true.                                      *)

LEMMA EvidenceInit == Init => Evidence /\ TestHasBuild
<1> SUFFICES ASSUME Init PROVE Evidence /\ TestHasBuild
  OBVIOUS
<1>1. EventsTrue
  BY DEF Init, EventsTrue
<1>2. SlicesTrue
  BY DEF Init, SlicesTrue, NoFalseDone, NoSlices, Absent
<1>3. CardTrue
  BY DEF Init, CardTrue, NoFalseDone, BlankCard, NoSlices, Absent
<1>4. WorkersTrue
  BY IdleSound DEF Init, WorkersTrue
<1>5. TestHasBuild
  BY EmptySeq DEF Init, TestHasBuild
<1> QED BY <1>1, <1>2, <1>3, <1>4, <1>5 DEF Evidence

\* A step of one handler that keeps it and the card true, and leaves the
\* factories, their events and the work items alone.
LEMMA HandlerEvidence ==
    ASSUME IInv, NEW w \in Workers, NEW me, Sound(me),
           worker' = [worker EXCEPT ![w] = me], CardTrue',
           UNCHANGED <<runs, net, slices>>
    PROVE  Evidence' /\ TestHasBuild'
<1>1. \A v \in Workers : Sound(worker'[v])
  BY DEF IInv, TInv, TypeOK, Evidence, WorkersTrue
<1>2. WorkersTrue'
  BY <1>1 DEF WorkersTrue, Sound, NoFalseDone, Completed
<1>3. EventsTrue' /\ SlicesTrue' /\ TestHasBuild'
  BY DEF IInv, Evidence, EventsTrue, SlicesTrue, NoFalseDone, Completed,
         TestHasBuild
<1> QED BY <1>2, <1>3 DEF Evidence

\* What the invariant says of one handler and of the card.
LEMMA HandlerFacts ==
    ASSUME IInv, NEW w \in Workers
    PROVE  /\ TInv
           /\ card \in Card
           /\ NoFalseDone(card.runs)
           /\ worker[w] \in Worker
           /\ worker[w].snap \in Card
           /\ worker[w].stage \in Stages
           /\ Sound(worker[w])
           /\ NoFalseDone(worker[w].snap.runs)
           /\ NoFalseDone(worker[w].item)
BY WorkerType DEF IInv, TInv, TypeOK, Evidence, CardTrue, WorkersTrue, Sound

\* CardTrue only reads card and runs.
LEMMA CardUntouched ==
    ASSUME CardTrue, card'.runs = card.runs, UNCHANGED runs
    PROVE  CardTrue'
BY DEF CardTrue, NoFalseDone, Completed

LEMMA RequestEvidence ==
    ASSUME IInv, NEW w \in Workers, Request(w)
    PROVE  Evidence' /\ TestHasBuild'
<1> USE HandlerFacts, HandlerEvidence, CardUntouched, IdleSound
<1>1. CASE \E st \in StatusChoices, t \in TierChoices : update_card(w, st, t)
  <2>1. PICK st \in StatusChoices, t \in TierChoices : update_card(w, st, t)
    BY <1>1
  <2> DEFINE c == [card EXCEPT !.status = st, !.tier = t]
  <2>2. c \in Card /\ c.runs = card.runs
    BY ChoicesAssumption DEF Card
  <2>3. Sound(maybe_dispatch(c))
    BY <2>2, PromotionSound
  <2>4. CardTrue'
    BY <2>1, <2>2 DEF update_card, IInv, Evidence
  <2> QED BY <2>1, <2>3, <2>4 DEF update_card, Becomes
<1>2. CASE \E s \in Stages : run_card_stage(w, s)
  <2>1. PICK s \in Stages : run_card_stage(w, s)
    BY <1>2
  <2>2. Sound(dispatch_stage(Idle, card, s))
    BY IdleType, HandlersTyped, DispatchStageSound
  <2>3. CardTrue'
    BY <2>1 DEF run_card_stage, IInv, Evidence
  <2> QED BY <2>1, <2>2, <2>3 DEF run_card_stage, Becomes
<1>3. CASE run_card_sequence(w)
  <2>1. /\ Sound([Idle EXCEPT !.pc = "refused"])
        /\ Sound([Idle EXCEPT !.pc = "queue", !.snap = card])
    BY DEF Sound, Idle
  <2>2. \E me : Sound(me) /\ Becomes(w, me)
    BY <1>3, <2>1 DEF run_card_sequence
  <2>3. CardTrue'
    BY <1>3 DEF run_card_sequence, IInv, Evidence
  <2> QED BY <1>3, <2>2, <2>3 DEF run_card_sequence, Becomes
<1>4. CASE delete_card(w)
  <2>1. card'.runs = card.runs
    BY <1>4 DEF delete_card, Card
  <2>2. CardTrue'
    BY <1>4, <2>1 DEF delete_card, IInv, Evidence
  <2> QED BY <1>4, <2>2
          DEF delete_card, IInv, Evidence, EventsTrue, SlicesTrue, WorkersTrue,
              Sound, NoFalseDone, Completed, TestHasBuild
<1> QED BY <1>1, <1>2, <1>3, <1>4 DEF Request

\* The dispatch record of a call changes no other stage, and never to done.
LEMMA RecordSound ==
    ASSUME NEW me \in Worker, card \in Card, NoFalseDone(me.snap.runs)
    PROVE  NoFalseDone(_send(me).runs)
<1>1. me.snap.runs \in [Stages -> StageStatus] /\ me.stage \in Stages
  BY DEF Worker, Card
<1>2. \A st \in {"dispatched", "failed"} :
         NoFalseDone([me.snap.runs EXCEPT ![me.stage] = st])
  BY <1>1 DEF NoFalseDone
<1>3. \E st \in {"dispatched", "failed"} :
         _send(me).runs = [me.snap.runs EXCEPT ![me.stage] = st]
  BY DEF _send, Card
<1> QED BY <1>2, <1>3

\* A run accepted as a test was sent after a build that completed, and that
\* build is an earlier element of runs.
LEMMA AcceptEvidence ==
    ASSUME IInv, NEW w \in Workers, NEW ref \in Answers, Accept(w, ref)
    PROVE  Evidence' /\ TestHasBuild'
<1> DEFINE run == [stage |-> worker[w].stage,
                   key |-> IF ref = NoKey THEN CardKey ELSE ref,
                   state |-> "running"]
<1>1. run \in Run
  BY HandlerFacts DEF Run, Keys
<1>2. runs \in Seq(Run) /\ Len(runs) \in Nat
  BY LenProperties DEF IInv, TInv, TypeOK
<1>3. /\ Len(runs') = Len(runs) + 1
      /\ \A i \in 1 .. Len(runs) : runs'[i] = runs[i]
      /\ runs'[Len(runs) + 1] = run
  BY <1>1, <1>2, AppendProperties DEF Accept
<1>4. \A s \in Stages : Completed(s) => Completed(s)'
  BY <1>2, <1>3 DEF Completed
<1>5. EventsTrue'
  <2>1. \A m \in net : m.run \in 1 .. Len(runs)
    BY <1>2 DEF IInv, TInv, TypeOK, Message
  <2> QED BY <1>3, <2>1 DEF Accept, IInv, Evidence, EventsTrue
<1>6. SlicesTrue' /\ CardTrue'
  BY <1>4 DEF Accept, IInv, Evidence, SlicesTrue, CardTrue, NoFalseDone
<1>7. WorkersTrue'
  <2>1. \A v \in Workers : /\ worker'[v].snap = worker[v].snap
                           /\ worker'[v].item = worker[v].item
                           /\ worker'[v] # worker[v] => worker'[v].pc = "sent"
    <3>1. PICK ok \in BOOLEAN, key \in Answers \cup {NoKey} :
                  worker' = [worker EXCEPT ![w] =
                     [worker[w] EXCEPT !.pc = "sent", !.ok = ok, !.ref = key]]
      BY DEF Accept, Answered, Becomes
    <3>2. worker \in [Workers -> Worker]
      BY DEF IInv, TInv, TypeOK
    <3> QED BY <3>1, <3>2 DEF Worker
  <2>2. "code" \in Stages
    BY DEF Stages
  <2> QED BY <1>4, <2>1, <2>2
          DEF IInv, Evidence, WorkersTrue, Sound, NoFalseDone
<1>8. TestHasBuild'
  <2> SUFFICES ASSUME NEW i \in 1 .. Len(runs'), runs'[i].stage = "test"
               PROVE  \E j \in 1 .. (i - 1) :
                         runs'[j].stage = "code" /\ runs'[j].state = "done"
    BY DEF TestHasBuild
  <2>1. CASE i \in 1 .. Len(runs)
    <3>1. PICK j \in 1 .. (i - 1) :
                  runs[j].stage = "code" /\ runs[j].state = "done"
      BY <1>3, <2>1 DEF IInv, TestHasBuild
    <3> QED BY <1>2, <1>3, <2>1, <3>1
  <2>2. CASE i = Len(runs) + 1
    <3>1. worker[w].stage = "test" /\ At(w, "send")
      BY <1>3, <2>2 DEF Accept
    <3>2. Completed("code")
      BY <3>1, HandlerFacts DEF At, Sound
    <3> QED BY <1>2, <1>3, <2>2, <3>2 DEF Completed
  <2> QED BY <1>2, <1>3, <2>1, <2>2
<1> QED BY <1>5, <1>6, <1>7, <1>8 DEF Evidence

LEMMA ContinueEvidence ==
    ASSUME IInv, NEW w \in Workers, Continue(w)
    PROVE  Evidence' /\ TestHasBuild'
<1> DEFINE me == worker[w]
<1> USE HandlerFacts, HandlerEvidence, CardUntouched, IdleSound
<1>0. CardTrue
  BY DEF IInv, Evidence
<1>1. CASE BlockForNoProject(w)
  <2>1. [card EXCEPT !.status = "blocked"].runs = card.runs
    BY DEF Card
  <2>2. CardTrue'
    BY <1>0, <1>1, <2>1, UpdateSound DEF BlockForNoProject
  <2> QED BY <1>1, <2>2 DEF BlockForNoProject, Becomes
<1>2. CASE start_sequence(w)
  <2> DEFINE snap == me.snap
             todo == Stages \ InState(snap, "done")
             queued == [s \in Stages |->
                           IF s \in todo THEN "queued" ELSE snap.runs[s]]
             c == [card EXCEPT !.runs = queued]
  <2>1. c \in Card /\ c.runs = queued
    BY DEF Card, StageStatus
  <2>2. NoFalseDone(c.runs)
    BY <2>1 DEF NoFalseDone
  <2>3. written(c, snap) \in Card /\ NoFalseDone(written(c, snap).runs)
    BY <2>1, <2>2, WrittenType, WrittenSound
  <2>4. todo # {}
    <3>1. me \in Handler /\ me.pc = "queue"
      BY <1>2, WorkerType DEF start_sequence, At
    <3> QED BY <3>1, InStateType DEF Handler
  <2>5. Idle \in Worker /\ First(todo) \in Stages
    BY <2>4, IdleType, HandlersTyped, FirstType
  <2>6. Sound(dispatch_stage(Idle, written(c, snap), First(todo)))
    BY <2>3, <2>5, DispatchStageSound
  <2>7. CardTrue'
    BY <1>0, <1>2, <2>2, UpdateSound DEF start_sequence
  <2> QED BY <1>2, <2>6, <2>7 DEF start_sequence, Becomes
<1>3. CASE Refuse(w)
  BY <1>0, <1>3 DEF Refuse, Becomes
<1>4. CASE \E ref \in Answers : Accept(w, ref)
  BY <1>4, AcceptEvidence
<1>5. CASE Reject(w)
  <2>1. Sound([me EXCEPT !.pc = "sent", !.ok = FALSE, !.ref = NoKey])
    BY DEF Sound, Worker
  <2> QED BY <1>0, <1>5, <2>1 DEF Reject, Answered, Becomes
<1>6. CASE Record(w)
  <2>1. CardTrue'
    BY <1>0, <1>6, RecordSound, UpdateSound DEF Record
  <2>2. Sound(Ended(me, me.snap))
    BY EndedSound
  <2> QED BY <1>6, <2>1, <2>2 DEF Record, Becomes
<1>7. CASE apply_status(w)
  <2>1. Sound(_advance(me, card))
    BY AdvanceSound
  <2>2. Sound([me EXCEPT !.pc = "settle", !.snap = card])
    BY DEF Sound, Worker
  <2>3. \E next : Sound(next) /\ Becomes(w, next)
    BY <1>7, <2>1, <2>2 DEF apply_status
  <2> QED BY <1>0, <1>7, <2>3 DEF apply_status, Becomes
<1>8. CASE _settle(w)
  <2> DEFINE c == [card EXCEPT !.runs = settled(me.snap, me.item)]
  <2>1. c \in Card /\ c.runs = settled(me.snap, me.item)
    BY DEF settled, Card, StageStatus
  <2>2. NoFalseDone(c.runs)
    BY <2>1, SettledSound
  <2>3. Sound(_advance(me, written(c, me.snap)))
    BY <2>1, <2>2, WrittenType, WrittenSound, AdvanceSound
  <2>4. CardTrue'
    BY <1>0, <1>8, <2>2, UpdateSound DEF _settle
  <2> QED BY <1>8, <2>3, <2>4 DEF _settle, Becomes
<1>9. CASE BlockSequence(w)
  <2> DEFINE c == [card EXCEPT !.status = "blocked"]
  <2>1. NoFalseDone(c.runs)
    BY DEF Card
  <2>2. Sound([me EXCEPT !.pc = "status", !.snap = written(c, me.snap)])
    BY <2>1, WrittenSound DEF Sound, Worker
  <2>3. CardTrue'
    BY <1>0, <1>9, <2>1, UpdateSound DEF BlockSequence
  <2> QED BY <1>9, <2>2, <2>3 DEF BlockSequence, Becomes
<1>10. CASE Reread(w)
  <2>1. Sound([me EXCEPT !.pc = "status", !.snap = written(card, @)])
    BY WrittenSound DEF Sound, Worker
  <2> QED BY <1>0, <1>10, <2>1 DEF Reread, Becomes
<1>11. CASE WriteStatus(w)
  <2>1. \E st : \/ UNCHANGED card
                \/ update([card EXCEPT !.status = st])
    BY <1>11 DEF WriteStatus
  <2>2. card'.runs = card.runs
    BY <2>1 DEF update, Card
  <2>3. CardTrue'
    BY <1>0, <1>11, <2>2 DEF WriteStatus
  <2> QED BY <1>11, <2>3 DEF WriteStatus, Becomes
<1> QED BY <1>1, <1>2, <1>3, <1>4, <1>5, <1>6, <1>7, <1>8, <1>9, <1>10, <1>11
        DEF Continue

\* An event writes done only into the slice of the run that finished.
LEMMA IngestEvidence ==
    ASSUME IInv, NEW w \in Workers, NEW m \in net, ingest(w, m)
    PROVE  Evidence' /\ TestHasBuild'
<1> DEFINE r == runs[m.run]
           item == [slices[r.key] EXCEPT ![r.stage] = m.status]
<1>1. m.run \in 1 .. Len(runs) /\ r \in Run
  <2>1. m.run \in 1 .. Len(runs)
    BY LenProperties DEF IInv, TInv, TypeOK, Message
  <2> QED BY <2>1, ElementOfSeq DEF IInv, TInv, TypeOK
<1>2. m.status = "done" => Completed(r.stage)
  BY <1>1 DEF IInv, Evidence, EventsTrue, Completed
<1>3. NoFalseDone(slices[r.key]) /\ slices[r.key] \in [Stages -> SliceStatus]
  BY <1>1 DEF IInv, TInv, TypeOK, Evidence, SlicesTrue, Run
<1>4. NoFalseDone(item)
  BY <1>2, <1>3 DEF NoFalseDone
<1>5. SlicesTrue'
  <2>1. \A k \in Keys : NoFalseDone(slices'[k])
    BY <1>4 DEF ingest, IInv, TInv, TypeOK, Evidence, SlicesTrue
  <2> QED BY <2>1 DEF ingest, SlicesTrue, NoFalseDone, Completed
<1>6. WorkersTrue'
  <2>1. Sound([Idle EXCEPT !.pc = "apply", !.key = r.key, !.item = item])
    BY <1>4, IdleSound DEF Sound, Idle
  <2>2. \A v \in Workers : Sound(worker'[v])
    BY <2>1 DEF ingest, Becomes, IInv, TInv, TypeOK, Evidence, WorkersTrue
  <2> QED BY <2>2 DEF ingest, WorkersTrue, Sound, NoFalseDone, Completed
<1>7. EventsTrue' /\ CardTrue' /\ TestHasBuild'
  BY DEF ingest, IInv, Evidence, EventsTrue, CardTrue, NoFalseDone, Completed,
         TestHasBuild
<1> QED BY <1>5, <1>6, <1>7 DEF Evidence

\* A finished run completes its stage and takes back no completion.
LEMMA FinishEvidence ==
    ASSUME IInv, NEW r \in 1 .. Len(runs), NEW outcome \in {"done", "failed"},
           Finish(r, outcome)
    PROVE  Evidence' /\ TestHasBuild'
<1>1. runs \in Seq(Run) /\ runs[r] \in Run /\ Len(runs) \in Nat
  BY ElementOfSeq, LenProperties DEF IInv, TInv, TypeOK
<1>2. /\ Len(runs') = Len(runs)
      /\ \A i \in 1 .. Len(runs) : i # r => runs'[i] = runs[i]
      /\ runs'[r] = [runs[r] EXCEPT !.state = outcome]
  <2>1. [runs[r] EXCEPT !.state = outcome] \in Run
    BY <1>1 DEF Run
  <2>2. runs' = [runs EXCEPT ![r] = [runs[r] EXCEPT !.state = outcome]]
    BY DEF Finish
  <2> QED BY <1>1, <2>1, <2>2, ExceptSeq
<1>3. /\ runs'[r].stage = runs[r].stage
      /\ runs'[r].state = outcome
      /\ runs[r].state = "running"
  BY <1>1, <1>2 DEF Finish, Run
<1>4. \A i \in 1 .. Len(runs) :
         /\ runs'[i].stage = runs[i].stage
         /\ runs[i].state = "done" => runs'[i].state = "done"
  BY <1>2, <1>3
<1>5. \A s \in Stages : Completed(s) => Completed(s)'
  BY <1>2, <1>4 DEF Completed
<1>6. EventsTrue'
  <2>1. \A m \in net : m.run \in 1 .. Len(runs)
    BY <1>1 DEF IInv, TInv, TypeOK, Message
  <2>2. \A m \in net' : m \in net \/ (m.run = r /\ m.status = outcome)
    <3>1. Emit(r, outcome)
      BY DEF Finish
    <3>2. ASSUME NEW m \in net', m \notin net
          PROVE  m.run = r /\ m.status = outcome
      BY <3>1, <3>2 DEF Emit
    <3> QED BY <3>2
  <2> QED BY <1>3, <1>4, <2>1, <2>2 DEF IInv, Evidence, EventsTrue
<1>7. SlicesTrue' /\ CardTrue'
  BY <1>5 DEF Finish, IInv, Evidence, SlicesTrue, CardTrue, NoFalseDone
<1>8. WorkersTrue'
  <2>1. "code" \in Stages
    BY DEF Stages
  <2> QED BY <1>5, <2>1
          DEF Finish, IInv, Evidence, WorkersTrue, Sound, NoFalseDone
<1>9. TestHasBuild'
  <2> SUFFICES ASSUME NEW i \in 1 .. Len(runs), runs[i].stage = "test"
               PROVE  \E j \in 1 .. (i - 1) :
                         runs'[j].stage = "code" /\ runs'[j].state = "done"
    BY <1>2, <1>4 DEF TestHasBuild
  <2>1. PICK j \in 1 .. (i - 1) :
                runs[j].stage = "code" /\ runs[j].state = "done"
    BY DEF IInv, TestHasBuild
  <2>2. j \in 1 .. Len(runs)
    BY <1>1
  <2> QED BY <1>4, <2>1, <2>2
<1> QED BY <1>6, <1>7, <1>8, <1>9 DEF Evidence

LEMMA UpstreamEvidence ==
    ASSUME IInv, Upstream
    PROVE  Evidence' /\ TestHasBuild'
<1>1. PICK r \in 1 .. Len(runs) :
              \/ \E st \in Reports : Progress(r, st)
              \/ \E outcome \in {"done", "failed"} : Finish(r, outcome)
              \/ \E st \in SliceStatus : Poll(r, st)
  BY DEF Upstream
<1>2. CASE \E st \in Reports : Progress(r, st)
  <2>1. \A m \in net' : m \in net \/ m.status \in Reports
    BY <1>2 DEF Progress, Emit
  <2>2. "done" \notin Reports
    BY ChoicesAssumption
  <2>3. EventsTrue'
    BY <1>2, <2>1, <2>2 DEF Progress, IInv, Evidence, EventsTrue
  <2> QED BY <1>2, <2>3
          DEF Progress, IInv, Evidence, SlicesTrue, CardTrue, WorkersTrue,
              Sound, NoFalseDone, Completed, TestHasBuild
<1>3. CASE \E outcome \in {"done", "failed"} : Finish(r, outcome)
  BY <1>3, FinishEvidence
<1>4. CASE \E st \in SliceStatus : Poll(r, st)
  <2>1. PICK st \in SliceStatus : Poll(r, st)
    BY <1>4
  <2>2. runs[r] \in Run
    BY ElementOfSeq DEF IInv, TInv, TypeOK
  <2>3. st = "done" => Completed(runs[r].stage)
    BY <2>1 DEF Poll, Completed, Absent
  <2>4. \A k \in Keys : NoFalseDone(slices'[k])
    BY <2>1, <2>2, <2>3
       DEF Poll, IInv, TInv, TypeOK, Evidence, SlicesTrue, NoFalseDone, Run
  <2>5. SlicesTrue'
    BY <2>1, <2>4 DEF Poll, SlicesTrue, NoFalseDone, Completed
  <2> QED BY <2>1, <2>5
          DEF Poll, IInv, Evidence, EventsTrue, CardTrue, WorkersTrue, Sound,
              NoFalseDone, Completed, TestHasBuild
<1> QED BY <1>1, <1>2, <1>3, <1>4

LEMMA InductiveNext == IInv /\ [Next]_vars => IInv'
<1> SUFFICES ASSUME IInv, [Next]_vars PROVE IInv'
  OBVIOUS
<1>1. TInv'
  BY TypeNext DEF IInv
<1>2. Evidence' /\ TestHasBuild'
  <2> USE DEF IInv, Evidence, EventsTrue, SlicesTrue, CardTrue, WorkersTrue,
              Sound, NoFalseDone, Completed, TestHasBuild
  <2>1. CASE Crash
    <3>1. \A w \in Workers : worker'[w] = Idle
      BY <2>1 DEF Crash
    <3>2. Idle.snap.runs = NoSlices /\ Idle.item = NoSlices /\ Idle.pc = "idle"
      BY DEF Idle, BlankCard
    <3> QED BY <2>1, <3>1, <3>2 DEF Crash, NoSlices, Absent
  <2>2. CASE \E b \in BOOLEAN : SetProject(b)
    BY <2>2 DEF SetProject
  <2>3. CASE UNCHANGED vars
    BY <2>3 DEF vars
  <2> QED BY <2>1, <2>2, <2>3, RequestEvidence, ContinueEvidence,
             IngestEvidence, UpstreamEvidence DEF Next
<1> QED BY <1>1, <1>2 DEF IInv

THEOREM Inductive == Spec => []IInv
<1>1. Init => IInv
  BY TypeInit, EvidenceInit DEF IInv
<1> QED BY <1>1, InductiveNext, PTL DEF Spec

-----------------------------------------------------------------------------
(* What follows from it.                                                   *)

\* TFactory is never asked to verify a card whose build did not complete.
THEOREM TestsFollowBuilds == Spec => []TestHasBuild
<1>1. IInv => TestHasBuild
  BY DEF IInv
<1> QED BY <1>1, Inductive, PTL

\* Every completion on the board is the completion of an accepted run.
THEOREM CompletionsAreReal == Spec => []DoneIsReal
<1>1. IInv => DoneIsReal
  BY DEF IInv, Evidence, CardTrue, NoFalseDone, DoneIsReal
<1> QED BY <1>1, Inductive, PTL

\* A verdict of done comes from the furthest stage the work item reports, and
\* that stage is not the plan.
LEMMA DoneVerdict ==
    ASSUME NEW item \in [Stages -> SliceStatus], NEW remaining,
           NoFalseDone(item), card_status_for(item, remaining) = "done"
    PROVE  Completed("code") \/ Completed("test")
<1> DEFINE reported == {s \in Stages : item[s] # Absent}
           IsFurthest(s) == \/ s = "test"
                            \/ s = "code" /\ "test" \notin reported
                            \/ s = "plan" /\ reported = {"plan"}
           furthest == CHOOSE s \in reported : IsFurthest(s)
<1>1. reported # {}
  BY DEF card_status_for, Absent
<1>2. \E s \in reported : IsFurthest(s)
  <2>1. CASE "test" \in reported
    BY <2>1
  <2>2. CASE "test" \notin reported /\ "code" \in reported
    BY <2>2
  <2>3. CASE "test" \notin reported /\ "code" \notin reported
    <3>1. reported = {"plan"}
      BY <1>1, <2>3 DEF Stages
    <3> QED BY <3>1
  <2> QED BY <2>1, <2>2, <2>3
<1>3. furthest \in reported
  BY <1>2
<1>4. item[furthest] = "done" /\ furthest # "plan"
  BY DEF card_status_for, Absent
<1> HIDE DEF furthest
<1> QED BY <1>3, <1>4 DEF NoFalseDone, Stages

\* Only WriteStatus(w) takes a thread w past "status" and touches the card.
LEMMA WritesBackIs ==
    ASSUME TInv, Next, NEW w \in Workers, WritesBack(w), card' # card
    PROVE  WriteStatus(w)
<1>1. ASSUME NEW v \in Workers, v # w, NEW me,
             worker' = [worker EXCEPT ![v] = me]
      PROVE  FALSE
  BY <1>1 DEF TInv, WritesBack, At
<1>2. CASE \E v \in Workers : Request(v) \/ Continue(v)
  <2>1. PICK v \in Workers : Request(v) \/ Continue(v)
    BY <1>2
  <2>2. ASSUME v # w
        PROVE  \/ \E me : worker' = [worker EXCEPT ![v] = me]
               \/ UNCHANGED worker
    BY <2>1 DEF Request, update_card, run_card_stage, run_card_sequence,
           delete_card, Continue, BlockForNoProject, start_sequence, Refuse,
           Accept, Reject, Answered, Record, apply_status, _settle,
           BlockSequence, Reread, WriteStatus, Becomes
  <2>3. v = w
    BY <1>1, <2>2 DEF WritesBack, At
  <2>4. ~Request(w)
    BY DEF Request, update_card, run_card_stage, run_card_sequence,
           delete_card, WritesBack, At
  <2> QED BY <2>1, <2>3, <2>4
          DEF Continue, BlockForNoProject, start_sequence, Refuse, Accept,
              Reject, Record, apply_status, _settle, BlockSequence, Reread,
              WritesBack, At
<1>3. CASE \E v \in Workers, m \in net : ingest(v, m)
  BY <1>3 DEF ingest
<1>4. CASE Upstream
  BY <1>4 DEF Upstream, Progress, Finish, Poll
<1>5. CASE \E b \in BOOLEAN : SetProject(b)
  BY <1>5 DEF SetProject
<1>6. CASE Crash
  BY <1>6 DEF Crash
<1> QED BY <1>2, <1>3, <1>4, <1>5, <1>6 DEF Next

\* A card is called done only when a build or a verification of it finished.
THEOREM DoneNeedsAVerdict == Spec => DoneIsAVerdict
<1> DEFINE Verdict ==
             \A w \in Workers :
                (WritesBack(w) /\ card.status # "done" /\ card'.status = "done")
                   => Completed("code") \/ Completed("test")
<1>1. IInv /\ [Next]_vars => [Verdict]_vars
  <2> SUFFICES ASSUME IInv, Next, NEW w \in Workers, WritesBack(w),
                      card.status # "done", card'.status = "done"
               PROVE  Completed("code") \/ Completed("test")
    BY DEF vars
  <2> DEFINE me == worker[w]
             st == card_status_for(me.item, pending_stages(me.snap) # {})
  <2>1. WriteStatus(w)
    BY WritesBackIs DEF IInv
  <2>2. card \in Card /\ me \in Worker /\ NoFalseDone(me.item)
    BY HandlerFacts
  <2>3. st = "done"
    <3>1. card' = [card EXCEPT !.status = st]
      BY <2>1 DEF WriteStatus, update
    <3> HIDE DEF st
    <3> QED BY <2>2, <3>1 DEF Card
  <2>4. me.item \in [Stages -> SliceStatus]
    BY <2>2 DEF Worker
  <2> QED BY <2>2, <2>3, <2>4, DoneVerdict
<1> QED BY <1>1, Inductive, PTL DEF Spec, DoneIsAVerdict

-----------------------------------------------------------------------------
(* What the dispatch records and the correlation key of a card promise.    *)
(* The first part holds however handlers overlap: a stage in flight was    *)
(* accepted, and the key is the key of an accepted run.  It is carried by  *)
(* the copies that handlers hold, because the records on the card are      *)
(* written from them.  The second part is about handlers that do not       *)
(* overlap: the card then implements StageLedger, because the copy a       *)
(* handler writes from is still the card (Current), and what its guard     *)
(* found is still so (Sends).                                              *)

-----------------------------------------------------------------------------
(* What a step of a handler may leave it with.                             *)

\* What a dispatch of stage s asks of a card, whoever presses.
MayGo(c, s) ==
    /\ c.runs[s] \notin {"dispatched", "done"}
    /\ s = "test" => c.key # NoKey /\ c.runs["code"] = "done"

\* A handler that goes on from a card c it has just read or written: it is
\* not waiting to record an answer, it holds c where it will use it, and it
\* sends only what may go.
GoesOn(n, c) ==
    /\ n.snap \in {c, BlankCard}
    /\ n.pc \in {"idle", "refused", "no project", "send", "block", "reread", "status"}
    /\ n.pc \in {"send", "block", "status"} => n.snap = c
    /\ n.pc = "send" => MayGo(c, n.stage)

LEMMA StillGoesOn ==
    ASSUME NEW c
    PROVE  /\ GoesOn(Idle, c)
           /\ GoesOn([Idle EXCEPT !.pc = "refused"], c)
           /\ GoesOn([Idle EXCEPT !.pc = "no project"], c)
BY DEF GoesOn, Idle

LEMMA EndedGoesOn ==
    ASSUME NEW me \in Worker, NEW c
    PROVE  GoesOn(Ended(me, c), c)
BY StillGoesOn DEF Ended, GoesOn, Worker

\* The guards of dispatch_stage let through only what may go.
LEMMA DispatchStageGoesOn ==
    ASSUME NEW me \in Worker, NEW c \in Card, NEW s \in Stages
    PROVE  GoesOn(dispatch_stage(me, c, s), c)
<1>1. CASE c.runs[s] = "done" \/ refuse_reason(c, s, project)
  BY <1>1, StillGoesOn, EndedGoesOn DEF dispatch_stage
<1>2. CASE c.runs[s] # "done" /\ ~refuse_reason(c, s, project)
  <2> DEFINE next == [me EXCEPT !.pc = "send", !.snap = c, !.stage = s]
  <2>1. next.pc = "send" /\ next.snap = c /\ next.stage = s
    BY DEF Worker
  <2>2. MayGo(c, s)
    BY <1>2 DEF refuse_reason, MayGo
  <2>3. dispatch_stage(me, c, s) = next
    BY <1>2 DEF dispatch_stage
  <2> HIDE DEF next
  <2> QED BY <2>1, <2>2, <2>3 DEF GoesOn
<1> QED BY <1>1, <1>2

LEMMA AdvanceGoesOn ==
    ASSUME NEW me \in Worker, NEW c \in Card
    PROVE  GoesOn(_advance(me, c), c)
<1>1. /\ GoesOn([[me EXCEPT !.snap = c] EXCEPT !.pc = "status"], c)
      /\ GoesOn([[me EXCEPT !.snap = c] EXCEPT !.pc = "block"], c)
  BY DEF GoesOn, Worker
<1>2. InState(c, "queued") # {} =>
         GoesOn(dispatch_stage(me, c, First(InState(c, "queued"))), c)
  BY InStateType, FirstType, DispatchStageGoesOn
<1> QED BY <1>1, <1>2 DEF _advance

\* A promotion sends a plan or a build that is neither in flight nor done.
LEMMA PromotionGoesOn ==
    ASSUME NEW c \in Card
    PROVE  GoesOn(maybe_dispatch(c), c)
<1> DEFINE s == default_stage(c)
           next == [Idle EXCEPT !.pc = "send", !.snap = c, !.stage = s]
<1>1. next.pc = "send" /\ next.snap = c /\ next.stage = s
  BY DEF Idle
<1>2. c.runs[s] \notin {"dispatched", "done"} => GoesOn(next, c)
  <2>1. s # "test"
    BY DEF default_stage
  <2> HIDE DEF next, s
  <2> QED BY <1>1, <2>1 DEF GoesOn, MayGo
<1> QED BY <1>2, StillGoesOn DEF maybe_dispatch, dispatch_card

-----------------------------------------------------------------------------
(* Part one.  Accepted runs, and the key.  The runs, and the key on the     *)
(* card, are parameters, so that a copy can be carried over a step.        *)

Accepted(rs, s) == \E i \in 1 .. Len(rs) : rs[i].stage = s

KeyOf(ref) == IF ref = NoKey THEN CardKey ELSE ref

\* The records and the key of a card, or of a copy of it, come from answers.
Joined(rs, c) ==
    /\ \A s \in Stages : c.runs[s] = "dispatched" => Accepted(rs, s) /\ c.key # NoKey
    /\ c.key # NoKey => \E i \in 1 .. Len(rs) : rs[i].key = c.key

\* An answer a handler holds is the answer to a run that was accepted.
AnswersARun(rs, me) ==
    me.pc = "sent" /\ me.ok =>
        \E i \in 1 .. Len(rs) : rs[i].stage = me.stage /\ rs[i].key = KeyOf(me.ref)

\* A handler's copy comes from answers, and has no key that the card lacks.
Honest(rs, key, me) ==
    /\ Joined(rs, me.snap)
    /\ me.snap.key # NoKey => key # NoKey
    /\ AnswersARun(rs, me)

\* Every run is on a key that a door may answer.
RunKeys(rs) == \A i \in 1 .. Len(rs) : \E ref \in Answers : rs[i].key = KeyOf(ref)

JInv ==
    /\ Joined(runs, card)
    /\ \A w \in Workers : Honest(runs, card.key, worker[w])
    /\ RunKeys(runs)

\* Runs are only added, and keep their stage and their key.
Grown(rs, rt) ==
    \A i \in 1 .. Len(rs) : /\ i \in 1 .. Len(rt)
                            /\ rt[i].stage = rs[i].stage
                            /\ rt[i].key = rs[i].key

LEMMA JoinedLater ==
    ASSUME NEW rs, NEW rt, Grown(rs, rt), NEW c, Joined(rs, c)
    PROVE  Joined(rt, c)
BY DEF Grown, Joined, Accepted

LEMMA HonestLater ==
    ASSUME NEW rs, NEW rt, Grown(rs, rt),
           NEW key, NEW newKey, key # NoKey => newKey # NoKey,
           NEW me, Honest(rs, key, me)
    PROVE  Honest(rt, newKey, me)
BY JoinedLater DEF Honest, AnswersARun, Grown

LEMMA GoesOnHonest ==
    ASSUME NEW rs, NEW key, NEW c, NEW n, GoesOn(n, c),
           Joined(rs, c), c.key # NoKey => key # NoKey
    PROVE  Honest(rs, key, n)
<1>1. Joined(rs, BlankCard) /\ BlankCard.key = NoKey
  BY DEF Joined, BlankCard, NoSlices, Absent, NoKey
<1> QED BY <1>1 DEF GoesOn, Honest, AnswersARun

\* A step of one handler that starts no run.
LEMMA HandlerJoins ==
    ASSUME TInv, JInv, NEW w \in Workers, NEW me,
           worker' = [worker EXCEPT ![w] = me], UNCHANGED runs,
           Joined(runs, card'), card.key # NoKey => card'.key # NoKey,
           Honest(runs, card'.key, me)
    PROVE  JInv'
<1>1. \A v \in Workers : Honest(runs, card'.key, worker'[v])
  <2> SUFFICES ASSUME NEW v \in Workers PROVE Honest(runs, card'.key, worker'[v])
    OBVIOUS
  <2>1. CASE v = w
    BY <2>1 DEF TInv, TypeOK
  <2>2. CASE v # w
    <3>1. worker'[v] = worker[v] /\ Honest(runs, card.key, worker[v])
      BY <2>2 DEF TInv, TypeOK, JInv
    <3> QED BY <3>1 DEF Honest
  <2> QED BY <2>1, <2>2
<1> QED BY <1>1 DEF JInv

\* What a write does to the key and the records.
LEMMA UpdateJoins ==
    ASSUME JInv, NEW c, update(c), Joined(runs, c), card.key # NoKey => c.key # NoKey
    PROVE  Joined(runs, card') /\ (card.key # NoKey => card'.key # NoKey)
BY DEF JInv, update

\* And what a handler that goes on from it holds.
LEMMA WrittenJoins ==
    ASSUME JInv, NEW w \in Workers, NEW c, update(c), Joined(runs, c),
           card.key # NoKey => c.key # NoKey, NEW n, GoesOn(n, written(c, worker[w].snap))
    PROVE  Honest(runs, card'.key, n)
<1>1. Honest(runs, card.key, worker[w])
  BY DEF JInv
<1>2. CASE card.live
  <2>1. card' = c /\ GoesOn(n, c)
    BY <1>2 DEF update, written
  <2> QED BY <2>1, GoesOnHonest
<1>3. CASE ~card.live
  <2> DEFINE snap == worker[w].snap
  <2>1. card' = card /\ GoesOn(n, snap)
    BY <1>3 DEF update, written
  <2>2. Joined(runs, snap) /\ (snap.key # NoKey => card.key # NoKey)
    BY <1>1 DEF Honest
  <2> HIDE DEF snap
  <2> QED BY <2>1, <2>2, GoesOnHonest
<1> QED BY <1>2, <1>3

\* Joined reads the records and the key only.
LEMMA JoinedSame ==
    ASSUME NEW rs, NEW c, NEW d, Joined(rs, c), d.runs = c.runs, d.key = c.key
    PROVE  Joined(rs, d)
BY DEF Joined

LEMMA RequestJoins ==
    ASSUME TInv, JInv, NEW w \in Workers, Request(w)
    PROVE  JInv'
<1> USE HandlerJoins
<1>0. card \in Card /\ Joined(runs, card) /\ Idle \in Worker
  BY IdleType, HandlersTyped DEF TInv, TypeOK, JInv
<1>1. CASE \E st \in StatusChoices, t \in TierChoices : update_card(w, st, t)
  <2>1. PICK st \in StatusChoices, t \in TierChoices : update_card(w, st, t)
    BY <1>1
  <2> DEFINE c == [card EXCEPT !.status = st, !.tier = t]
  <2>2. c \in Card /\ c.runs = card.runs /\ c.key = card.key
    BY <1>0, ChoicesAssumption DEF Card
  <2>3. card' = c /\ Becomes(w, maybe_dispatch(c)) /\ UNCHANGED runs
    BY <2>1 DEF update_card
  <2> HIDE DEF c
  <2>4. Joined(runs, c)
    BY <1>0, <2>2, JoinedSame
  <2>5. Honest(runs, c.key, maybe_dispatch(c))
    BY <2>2, <2>4, PromotionGoesOn, GoesOnHonest
  <2> QED BY <2>2, <2>3, <2>4, <2>5 DEF Becomes
<1>2. CASE \E s \in Stages : run_card_stage(w, s)
  <2>1. PICK s \in Stages : run_card_stage(w, s)
    BY <1>2
  <2>2. Honest(runs, card.key, dispatch_stage(Idle, card, s))
    BY <1>0, DispatchStageGoesOn, GoesOnHonest
  <2> QED BY <1>0, <2>1, <2>2 DEF run_card_stage, Becomes
<1>3. CASE run_card_sequence(w)
  <2>1. /\ Honest(runs, card.key, Idle)
        /\ Honest(runs, card.key, [Idle EXCEPT !.pc = "refused"])
    BY <1>0, StillGoesOn, GoesOnHonest
  <2>2. Honest(runs, card.key, [Idle EXCEPT !.pc = "queue", !.snap = card])
    BY <1>0 DEF Honest, AnswersARun, Idle
  <2>3. \E me : Honest(runs, card.key, me) /\ Becomes(w, me)
    BY <1>3, <2>1, <2>2 DEF run_card_sequence
  <2> QED BY <1>0, <1>3, <2>3 DEF run_card_sequence, Becomes
<1>4. CASE delete_card(w)
  <2>1. card'.runs = card.runs /\ card'.key = card.key
    BY <1>0, <1>4 DEF delete_card, Card
  <2>2. Joined(runs, card')
    BY <1>0, <2>1, JoinedSame
  <2> QED BY <1>4, <2>1, <2>2 DEF delete_card, JInv
<1> QED BY <1>1, <1>2, <1>3, <1>4 DEF Request

\* The runs after a door has accepted one more.
LEMMA AcceptedRuns ==
    ASSUME TInv, NEW w \in Workers, NEW ref \in Answers, Accept(w, ref)
    PROVE  /\ Grown(runs, runs')
           /\ Len(runs') = Len(runs) + 1
           /\ Len(runs) \in Nat
           /\ \A i \in 1 .. Len(runs) : runs'[i] = runs[i]
           /\ runs'[Len(runs) + 1].stage = worker[w].stage
           /\ runs'[Len(runs) + 1].key = KeyOf(ref)
<1> DEFINE run == [stage |-> worker[w].stage,
                   key |-> IF ref = NoKey THEN CardKey ELSE ref,
                   state |-> "running"]
<1>1. run \in Run
  BY WorkerType DEF Run, Keys
<1>2. runs \in Seq(Run) /\ Len(runs) \in Nat
  BY LenProperties DEF TInv, TypeOK
<1>3. runs' = Append(runs, run)
  BY DEF Accept
<1>4. run.stage = worker[w].stage /\ run.key = KeyOf(ref)
  BY DEF KeyOf
<1> HIDE DEF run
<1>5. /\ Len(runs') = Len(runs) + 1
      /\ \A i \in 1 .. Len(runs) : runs'[i] = runs[i]
      /\ runs'[Len(runs) + 1] = run
  BY <1>1, <1>2, <1>3, AppendProperties
<1>6. Grown(runs, runs')
  BY <1>2, <1>5 DEF Grown
<1> QED BY <1>2, <1>4, <1>5, <1>6

LEMMA AcceptJoins ==
    ASSUME TInv, JInv, NEW w \in Workers, NEW ref \in Answers, Accept(w, ref)
    PROVE  JInv'
<1> DEFINE me == worker[w]
<1>0. /\ Grown(runs, runs') /\ UNCHANGED card
      /\ worker \in [Workers -> Worker]
  BY AcceptedRuns DEF Accept, TInv, TypeOK
<1>1. Joined(runs', card')
  BY <1>0, JoinedLater DEF JInv
<1>2. \A v \in Workers : v # w => Honest(runs', card'.key, worker'[v])
  <2> SUFFICES ASSUME NEW v \in Workers, v # w
               PROVE  Honest(runs', card'.key, worker'[v])
    OBVIOUS
  <2>1. worker'[v] = worker[v] /\ Honest(runs, card.key, worker[v])
    BY <1>0 DEF Accept, Answered, Becomes, JInv
  <2> QED BY <1>0, <2>1, HonestLater
<1>3. Honest(runs', card'.key, worker'[w])
  <2>1. PICK ok \in BOOLEAN, r \in Answers \cup {NoKey} :
                /\ worker'[w] = [me EXCEPT !.pc = "sent", !.ok = ok, !.ref = r]
                /\ ok => r = ref
    BY <1>0 DEF Accept, Answered, Becomes
  <2>2. Honest(runs', card'.key, me)
    BY <1>0, HonestLater DEF JInv
  <2>3. /\ worker'[w].snap = me.snap /\ worker'[w].stage = me.stage
        /\ worker'[w].ok => worker'[w].ref = ref
    BY <1>0, <2>1 DEF Worker
  <2>4. \E i \in 1 .. Len(runs') : runs'[i].stage = me.stage /\ runs'[i].key = KeyOf(ref)
    BY AcceptedRuns
  <2> QED BY <2>2, <2>3, <2>4 DEF Honest, AnswersARun
<1>4. RunKeys(runs')
  BY AcceptedRuns DEF RunKeys, JInv
<1> QED BY <1>1, <1>2, <1>3, <1>4 DEF JInv

\* The record of a call that was answered: the stage of an accepted run, and
\* the key of the first one.
LEMMA RecordJoined ==
    ASSUME TInv, JInv, NEW w \in Workers, At(w, "sent")
    PROVE  /\ Joined(runs, _send(worker[w]))
           /\ card.key # NoKey => _send(worker[w]).key # NoKey
<1> DEFINE me == worker[w]
           snap == me.snap
           key == join_key(snap, me.ref)
<1>1. /\ card \in Card /\ snap \in Card /\ me.stage \in Stages
      /\ snap.runs \in [Stages -> StageStatus]
  BY WorkerType DEF TInv, TypeOK, Card
<1>2. /\ Joined(runs, snap) /\ Joined(runs, card)
      /\ snap.key # NoKey => card.key # NoKey
      /\ AnswersARun(runs, me)
  BY DEF JInv, Honest
<1>3. me.pc = "sent"
  BY DEF At
<1>4. CASE me.ok
  <2>1. _send(me).runs = [snap.runs EXCEPT ![me.stage] = "dispatched"]
    BY <1>1, <1>4 DEF _send, Card
  <2>2. _send(me).key = key
    BY <1>1, <1>4 DEF _send, Card
  <2>3. /\ key # NoKey
        /\ \E i \in 1 .. Len(runs) : runs[i].key = key
    BY <1>2, <1>3, <1>4 DEF join_key, KeyOf, AnswersARun, Joined, CardKey, NoKey
  <2>4. Accepted(runs, me.stage)
    BY <1>2, <1>3, <1>4 DEF AnswersARun, Accepted
  <2>5. \A s \in Stages : _send(me).runs[s] = "dispatched" => Accepted(runs, s)
    BY <1>1, <1>2, <2>1, <2>4 DEF Joined
  <2> HIDE DEF key
  <2> QED BY <2>2, <2>3, <2>5 DEF Joined
<1>5. CASE ~me.ok
  <2>1. /\ _send(me).runs = [snap.runs EXCEPT ![me.stage] = "failed"]
        /\ _send(me).key = card.key
    BY <1>1, <1>5 DEF _send, Card
  <2>2. \A s \in Stages : _send(me).runs[s] = "dispatched" =>
           Accepted(runs, s) /\ card.key # NoKey
    BY <1>1, <1>2, <2>1 DEF Joined
  <2> QED BY <1>2, <2>1, <2>2 DEF Joined
<1> QED BY <1>4, <1>5

\* Records computed from a handler's copy, written under the card's own key.
LEMMA RewrittenJoined ==
    ASSUME TInv, JInv, NEW w \in Workers, NEW rewritten,
           NEW c, c.runs = rewritten, c.key = card.key,
           \A s \in Stages : rewritten[s] = "dispatched" =>
                                worker[w].snap.runs[s] = "dispatched"
    PROVE  Joined(runs, c)
<1>1. /\ Joined(runs, worker[w].snap) /\ Joined(runs, card)
      /\ worker[w].snap.key # NoKey => card.key # NoKey
  BY DEF JInv, Honest
<1> QED BY <1>1 DEF Joined

LEMMA ContinueJoins ==
    ASSUME TInv, JInv, NEW w \in Workers, Continue(w)
    PROVE  JInv'
<1> DEFINE me == worker[w]
           snap == me.snap
<1>0. /\ card \in Card /\ me \in Worker /\ snap \in Card
      /\ Joined(runs, card) /\ Honest(runs, card.key, me)
      /\ Joined(runs, snap) /\ (snap.key # NoKey => card.key # NoKey)
  BY WorkerType DEF TInv, TypeOK, JInv, Honest
<1>1. CASE BlockForNoProject(w)
  <2> DEFINE c == [card EXCEPT !.status = "blocked"]
  <2>1. c.runs = card.runs /\ c.key = card.key
    BY <1>0 DEF Card
  <2>2. update(c) /\ Becomes(w, Idle) /\ UNCHANGED runs
    BY <1>1 DEF BlockForNoProject
  <2> HIDE DEF c
  <2>3. Joined(runs, c)
    BY <1>0, <2>1, JoinedSame
  <2>4. Honest(runs, card'.key, Idle)
    BY <2>1, <2>2, <2>3, WrittenJoins, StillGoesOn
  <2> QED BY <2>1, <2>2, <2>3, <2>4, UpdateJoins, HandlerJoins DEF Becomes
<1>2. CASE start_sequence(w)
  <2> DEFINE todo == Stages \ InState(snap, "done")
             queued == [s \in Stages |->
                           IF s \in todo THEN "queued" ELSE snap.runs[s]]
             c == [card EXCEPT !.runs = queued]
             next == dispatch_stage(Idle, written(c, snap), First(todo))
  <2>1. c \in Card /\ c.runs = queued /\ c.key = card.key
    BY <1>0 DEF Card, StageStatus
  <2>2. Joined(runs, c)
    <3>1. \A s \in Stages : queued[s] = "dispatched" => snap.runs[s] = "dispatched"
      OBVIOUS
    <3> HIDE DEF c, queued
    <3> QED BY <2>1, <3>1, RewrittenJoined
  <2>3. update(c) /\ Becomes(w, next) /\ UNCHANGED runs
    BY <1>2 DEF start_sequence
  <2>4. Idle \in Worker /\ First(todo) \in Stages /\ written(c, snap) \in Card
    <3>1. me \in Handler /\ me.pc = "queue"
      BY <1>2, WorkerType DEF start_sequence, At
    <3>2. todo # {}
      BY <3>1, InStateType DEF Handler
    <3> QED BY <1>0, <2>1, <3>2, IdleType, HandlersTyped, FirstType, WrittenType
  <2>5. GoesOn(next, written(c, snap))
    BY <2>4, DispatchStageGoesOn
  <2> HIDE DEF c, next
  <2>6. Honest(runs, card'.key, next)
    BY <2>1, <2>2, <2>3, <2>5, WrittenJoins
  <2> QED BY <2>1, <2>2, <2>3, <2>6, UpdateJoins, HandlerJoins DEF Becomes
<1>3. CASE Refuse(w)
  <2>1. Honest(runs, card.key, Idle)
    BY <1>0, StillGoesOn, GoesOnHonest
  <2> QED BY <1>0, <1>3, <2>1, HandlerJoins DEF Refuse, Becomes
<1>4. CASE \E ref \in Answers : Accept(w, ref)
  BY <1>4, AcceptJoins
<1>5. CASE Reject(w)
  <2> DEFINE next == [me EXCEPT !.pc = "sent", !.ok = FALSE, !.ref = NoKey]
  <2>1. next.snap = snap /\ ~next.ok
    BY <1>0 DEF Worker
  <2>2. Honest(runs, card.key, next)
    BY <1>0, <2>1 DEF Honest, AnswersARun
  <2> HIDE DEF next
  <2>3. worker' = [worker EXCEPT ![w] = next] /\ UNCHANGED <<card, runs>>
    BY <1>5 DEF Reject, Answered, Becomes, next
  <2> QED BY <1>0, <2>2, <2>3, HandlerJoins
<1>6. CASE Record(w)
  <2> DEFINE c == _send(me)
             next == Ended(me, snap)
  <2>1. /\ Joined(runs, c) /\ (card.key # NoKey => c.key # NoKey)
        /\ update(c) /\ Becomes(w, next) /\ UNCHANGED runs
    BY <1>6, RecordJoined DEF Record
  <2>2. GoesOn(next, snap)
    BY <1>0, EndedGoesOn
  <2> HIDE DEF c, next, snap
  <2>3. card.key # NoKey => card'.key # NoKey
    BY <2>1, UpdateJoins
  <2>4. Honest(runs, card'.key, next)
    BY <1>0, <2>2, <2>3, GoesOnHonest
  <2> QED BY <2>1, <2>4, UpdateJoins, HandlerJoins DEF Becomes
<1>7. CASE apply_status(w)
  <2>1. Honest(runs, card.key, Idle)
    BY <1>0, StillGoesOn, GoesOnHonest
  <2>2. Honest(runs, card.key, [me EXCEPT !.pc = "settle", !.snap = card])
    BY <1>0 DEF Honest, AnswersARun, Worker
  <2>3. Honest(runs, card.key, _advance(me, card))
    BY <1>0, AdvanceGoesOn, GoesOnHonest
  <2>4. \E next : Honest(runs, card.key, next) /\ Becomes(w, next)
    BY <1>7, <2>1, <2>2, <2>3 DEF apply_status
  <2> QED BY <1>0, <1>7, <2>4, HandlerJoins DEF apply_status, Becomes
<1>8. CASE _settle(w)
  <2> DEFINE c == [card EXCEPT !.runs = settled(snap, me.item)]
             next == _advance(me, written(c, snap))
  <2>1. c \in Card /\ c.runs = settled(snap, me.item) /\ c.key = card.key
    BY <1>0 DEF settled, Card, StageStatus
  <2>2. Joined(runs, c)
    <3>1. \A s \in Stages : settled(snap, me.item)[s] = "dispatched" =>
                               snap.runs[s] = "dispatched"
      BY DEF settled
    <3> HIDE DEF c
    <3> QED BY <2>1, <3>1, RewrittenJoined
  <2>3. update(c) /\ Becomes(w, next) /\ UNCHANGED runs
    BY <1>8 DEF _settle
  <2>4. GoesOn(next, written(c, snap))
    BY <1>0, <2>1, WrittenType, AdvanceGoesOn
  <2> HIDE DEF c, next
  <2>5. Honest(runs, card'.key, next)
    BY <2>1, <2>2, <2>3, <2>4, WrittenJoins
  <2> QED BY <2>1, <2>2, <2>3, <2>5, UpdateJoins, HandlerJoins DEF Becomes
<1>9. CASE BlockSequence(w)
  <2> DEFINE c == [card EXCEPT !.status = "blocked"]
             next == [me EXCEPT !.pc = "status", !.snap = written(c, snap)]
  <2>1. c.runs = card.runs /\ c.key = card.key
    BY <1>0 DEF Card
  <2>2. update(c) /\ Becomes(w, next) /\ UNCHANGED runs
    BY <1>9 DEF BlockSequence
  <2>3. GoesOn(next, written(c, snap))
    BY <1>0 DEF GoesOn, Worker
  <2> HIDE DEF c, next
  <2>4. Joined(runs, c)
    BY <1>0, <2>1, JoinedSame
  <2>5. Honest(runs, card'.key, next)
    BY <2>1, <2>2, <2>3, <2>4, WrittenJoins
  <2> QED BY <2>1, <2>2, <2>4, <2>5, UpdateJoins, HandlerJoins DEF Becomes
<1>10. CASE Reread(w)
  <2> DEFINE next == [me EXCEPT !.pc = "status", !.snap = written(card, @)]
  <2>1. GoesOn(next, written(card, snap))
    BY <1>0 DEF GoesOn, Worker
  <2>2. Becomes(w, next) /\ UNCHANGED <<card, runs>> /\ update(card)
    BY <1>10 DEF Reread, update
  <2> HIDE DEF next
  <2>3. Honest(runs, card'.key, next)
    BY <1>0, <2>1, <2>2, WrittenJoins
  <2> QED BY <1>0, <2>2, <2>3, HandlerJoins DEF Becomes
<1>11. CASE WriteStatus(w)
  <2>1. /\ Becomes(w, Idle) /\ UNCHANGED runs
        /\ \E st : \/ UNCHANGED card
                   \/ update([card EXCEPT !.status = st])
    BY <1>11 DEF WriteStatus
  <2>2. card'.runs = card.runs /\ card'.key = card.key
    BY <1>0, <2>1 DEF update, Card
  <2>3. Joined(runs, card')
    BY <1>0, <2>2, JoinedSame
  <2>4. Honest(runs, card'.key, Idle)
    BY <1>0, <2>2, StillGoesOn, GoesOnHonest
  <2> QED BY <2>1, <2>2, <2>3, <2>4, HandlerJoins DEF Becomes
<1> QED BY <1>1, <1>2, <1>3, <1>4, <1>5, <1>6, <1>7, <1>8, <1>9, <1>10, <1>11
        DEF Continue

\* No step outside a handler touches the card, or a run's stage and key.
LEMMA UpstreamRuns ==
    ASSUME TInv, Upstream
    PROVE  /\ UNCHANGED <<card, worker>>
           /\ Len(runs') = Len(runs)
           /\ \A i \in 1 .. Len(runs) : /\ runs'[i].stage = runs[i].stage
                                        /\ runs'[i].key = runs[i].key
<1>1. PICK r \in 1 .. Len(runs) :
              \/ \E st \in Reports : Progress(r, st)
              \/ \E outcome \in {"done", "failed"} : Finish(r, outcome)
              \/ \E st \in SliceStatus : Poll(r, st)
  BY DEF Upstream
<1>2. CASE \E outcome \in {"done", "failed"} : Finish(r, outcome)
  <2>1. PICK outcome \in {"done", "failed"} : Finish(r, outcome)
    BY <1>2
  <2>2. runs \in Seq(Run) /\ runs[r] \in Run
    BY ElementOfSeq DEF TInv, TypeOK
  <2>3. [runs[r] EXCEPT !.state = outcome] \in Run
    BY <2>2 DEF Run
  <2>4. runs' = [runs EXCEPT ![r] = [runs[r] EXCEPT !.state = outcome]]
    BY <2>1 DEF Finish
  <2>5. /\ Len(runs') = Len(runs)
        /\ \A i \in 1 .. Len(runs) : i # r => runs'[i] = runs[i]
        /\ runs'[r] = [runs[r] EXCEPT !.state = outcome]
    BY <2>2, <2>3, <2>4, ExceptSeq
  <2>6. runs'[r].stage = runs[r].stage /\ runs'[r].key = runs[r].key
    BY <2>2, <2>5 DEF Run
  <2> QED BY <2>1, <2>5, <2>6 DEF Finish
<1>3. CASE ~\E outcome \in {"done", "failed"} : Finish(r, outcome)
  BY <1>1, <1>3 DEF Progress, Poll
<1> QED BY <1>2, <1>3

\* A step that grows the runs by nothing new and leaves card and handlers alone.
LEMMA QuietJoins ==
    ASSUME JInv, UNCHANGED <<card, worker>>, Len(runs') = Len(runs),
           \A i \in 1 .. Len(runs) : /\ runs'[i].stage = runs[i].stage
                                     /\ runs'[i].key = runs[i].key
    PROVE  JInv'
<1>1. Grown(runs, runs')
  BY DEF Grown
<1>2. Joined(runs', card)
  BY <1>1, JoinedLater DEF JInv
<1>3. \A w \in Workers : Honest(runs', card.key, worker[w])
  BY <1>1, HonestLater DEF JInv
<1>4. RunKeys(runs')
  BY DEF RunKeys, JInv
<1> QED BY <1>2, <1>3, <1>4 DEF JInv

\* A handler that a restart forgot, or that an event starts.
LEMMA FreshHonest ==
    ASSUME NEW rs, NEW key
    PROVE  /\ Honest(rs, key, Idle)
           /\ \A k, item : Honest(rs, key, [Idle EXCEPT !.pc = "apply", !.key = k, !.item = item])
BY DEF Honest, AnswersARun, Joined, Idle, BlankCard, NoSlices, Absent, NoKey

LEMMA JoinsNext == TInv /\ JInv /\ [Next]_vars => JInv'
<1> SUFFICES ASSUME TInv, JInv, [Next]_vars PROVE JInv'
  OBVIOUS
<1>1. CASE \E w \in Workers : Request(w) \/ Continue(w)
  BY <1>1, RequestJoins, ContinueJoins
<1>2. CASE \E w \in Workers, m \in net : ingest(w, m)
  <2>1. PICK w \in Workers, m \in net : ingest(w, m)
    BY <1>2
  <2>2. PICK k, item : Becomes(w, [Idle EXCEPT !.pc = "apply", !.key = k, !.item = item])
    BY <2>1 DEF ingest
  <2>3. UNCHANGED <<card, runs>> /\ Joined(runs, card)
    BY <2>1 DEF ingest, JInv
  <2> QED BY <2>2, <2>3, FreshHonest, HandlerJoins DEF Becomes
<1>3. CASE Upstream
  BY <1>3, UpstreamRuns, QuietJoins
<1>4. CASE \E b \in BOOLEAN : SetProject(b)
  BY <1>4, QuietJoins DEF SetProject
<1>5. CASE Crash
  BY <1>5, FreshHonest DEF Crash, JInv
<1>6. CASE UNCHANGED vars
  BY <1>6, QuietJoins DEF vars
<1> QED BY <1>1, <1>2, <1>3, <1>4, <1>5, <1>6 DEF Next

LEMMA JoinsInit == Init => JInv
<1> SUFFICES ASSUME Init PROVE JInv
  OBVIOUS
<1>1. Joined(runs, card)
  BY DEF Init, Joined, BlankCard, NoSlices, Absent, NoKey
<1>2. RunKeys(runs)
  BY EmptySeq DEF Init, RunKeys
<1> QED BY <1>1, <1>2, FreshHonest DEF Init, JInv

LEMMA Joins == Spec => [](TInv /\ JInv)
<1>1. Init => TInv /\ JInv
  BY TypeInit, JoinsInit
<1>2. (TInv /\ JInv) /\ [Next]_vars => (TInv /\ JInv)'
  BY TypeNext, JoinsNext
<1> QED BY <1>1, <1>2, PTL DEF Spec

\* Whatever overlaps: a stage in flight was accepted by its factory, and the
\* card is joined on the key of an accepted dispatch (JoinIsReal).
THEOREM JoinsAreReal == Spec => []JoinIsReal
<1>1. JInv => JoinIsReal
  BY DEF JInv, Joined, Accepted, JoinIsReal
<1> QED BY <1>1, Joins, PTL

\* The doors answer one key only: the factories thread the card's.
OneAnswer == \A r, q \in Answers : r = q

\* Whatever overlaps: where the doors answer one key, a stage in flight can be
\* settled, since its run is on the key the card is joined on (StageJoined).
THEOREM StagesAreJoined == ASSUME OneAnswer PROVE Spec => []StageJoined
<1>1. JInv => StageJoined
  <2> SUFFICES ASSUME JInv, NEW s \in Stages, card.runs[s] = "dispatched"
               PROVE  \E i \in 1 .. Len(runs) :
                         runs[i].stage = s /\ runs[i].key = card.key
    BY DEF StageJoined
  <2>1. \A i, j \in 1 .. Len(runs) : runs[i].key = runs[j].key
    BY OneAnswer DEF JInv, RunKeys, OneAnswer
  <2> QED BY <2>1 DEF JInv, Joined, Accepted
<1> QED BY <1>1, Joins, PTL

-----------------------------------------------------------------------------
(* Part two.  Handlers that do not overlap.                                *)

OneHandler == \A v, w \in Workers : v = w

\* The copy a handler writes from, or decides from, is still the card.
Current(c, me) ==
    c.live /\ me.pc \in {"queue", "send", "sent", "settle", "block", "status"} =>
        me.snap.runs = c.runs /\ me.snap.key = c.key

\* A handler calls a factory for what may go, and queues when nothing is in
\* flight.
Sends(me) == me.pc \in {"send", "sent"} => MayGo(me.snap, me.stage)
Queues(me) == me.pc = "queue" => InState(me.snap, "dispatched") = {}

Alone(c, me) == Current(c, me) /\ Sends(me) /\ Queues(me)

HInv == \A w \in Workers : Alone(card, worker[w])

LEMMA GoesOnAlone ==
    ASSUME NEW c, NEW d, NEW n, GoesOn(n, d),
           c.live => d.runs = c.runs /\ d.key = c.key
    PROVE  Alone(c, n)
BY DEF GoesOn, Alone, Current, Sends, Queues

\* A handler that goes on from what was written holds what was written.
LEMMA WrittenAlone ==
    ASSUME card \in Card, NEW c \in Card, update(c), c.live = card.live, NEW snap, NEW n,
           GoesOn(n, written(c, snap))
    PROVE  Alone(card', n)
<1>1. CASE card.live
  <2>1. card' = c /\ GoesOn(n, c)
    BY <1>1 DEF update, written
  <2> QED BY <2>1, GoesOnAlone
<1>2. CASE ~card.live
  <2>1. ~card'.live /\ GoesOn(n, snap)
    BY <1>2 DEF update, written
  <2> QED BY <2>1, GoesOnAlone
<1> QED BY <1>1, <1>2

\* With one handler, its step decides the invariant.
LEMMA HandlerAlone ==
    ASSUME OneHandler, TInv, NEW w \in Workers, NEW me,
           worker' = [worker EXCEPT ![w] = me], Alone(card', me)
    PROVE  HInv'
<1>1. \A v \in Workers : v = w
  BY DEF OneHandler
<1>2. worker'[w] = me
  BY DEF TInv, TypeOK
<1> QED BY <1>1, <1>2 DEF HInv

LEMMA RequestAlone ==
    ASSUME OneHandler, TInv, HInv, NEW w \in Workers, Request(w)
    PROVE  HInv'
<1> USE HandlerAlone
<1>0. card \in Card /\ Idle \in Worker
  BY IdleType, HandlersTyped DEF TInv, TypeOK
<1>1. CASE \E st \in StatusChoices, t \in TierChoices : update_card(w, st, t)
  <2>1. PICK st \in StatusChoices, t \in TierChoices : update_card(w, st, t)
    BY <1>1
  <2> DEFINE c == [card EXCEPT !.status = st, !.tier = t]
  <2>2. c \in Card
    BY <1>0, ChoicesAssumption DEF Card
  <2>3. card' = c /\ Becomes(w, maybe_dispatch(c))
    BY <2>1 DEF update_card
  <2> HIDE DEF c
  <2>4. Alone(c, maybe_dispatch(c))
    BY <2>2, PromotionGoesOn, GoesOnAlone
  <2> QED BY <2>3, <2>4 DEF Becomes
<1>2. CASE \E s \in Stages : run_card_stage(w, s)
  <2>1. PICK s \in Stages : run_card_stage(w, s)
    BY <1>2
  <2>2. Alone(card, dispatch_stage(Idle, card, s))
    BY <1>0, DispatchStageGoesOn, GoesOnAlone
  <2> QED BY <2>1, <2>2 DEF run_card_stage, Becomes
<1>3. CASE run_card_sequence(w)
  <2>1. /\ Alone(card, Idle)
        /\ Alone(card, [Idle EXCEPT !.pc = "refused"])
    BY StillGoesOn, GoesOnAlone
  <2>2. InState(card, "dispatched") = {} =>
           Alone(card, [Idle EXCEPT !.pc = "queue", !.snap = card])
    BY DEF Alone, Current, Sends, Queues, Idle
  <2>3. \E me : Alone(card, me) /\ Becomes(w, me)
    BY <1>3, <2>1, <2>2 DEF run_card_sequence
  <2> QED BY <1>3, <2>3 DEF run_card_sequence, Becomes
<1>4. CASE delete_card(w)
  <2>1. ~card'.live /\ UNCHANGED worker
    BY <1>0, <1>4 DEF delete_card, Card
  <2> QED BY <2>1 DEF HInv, Alone, Current
<1> QED BY <1>1, <1>2, <1>3, <1>4 DEF Request

LEMMA ContinueAlone ==
    ASSUME OneHandler, TInv, HInv, NEW w \in Workers, Continue(w)
    PROVE  HInv'
<1> DEFINE me == worker[w]
           snap == me.snap
<1> USE HandlerAlone
<1>0. /\ card \in Card /\ me \in Worker /\ snap \in Card
      /\ Alone(card, me)
  BY WorkerType DEF TInv, TypeOK, HInv
<1>1. \A c : Alone(c, Idle)
  BY DEF Alone, Current, Sends, Queues, Idle
<1>2. CASE BlockForNoProject(w) \/ Refuse(w) \/ WriteStatus(w)
  BY <1>1, <1>2 DEF BlockForNoProject, Refuse, WriteStatus, Becomes
<1>3. CASE start_sequence(w)
  <2> DEFINE todo == Stages \ InState(snap, "done")
             queued == [s \in Stages |->
                           IF s \in todo THEN "queued" ELSE snap.runs[s]]
             c == [card EXCEPT !.runs = queued]
             next == dispatch_stage(Idle, written(c, snap), First(todo))
  <2>1. c \in Card /\ c.live = card.live
    BY <1>0 DEF Card, StageStatus
  <2>2. update(c) /\ Becomes(w, next)
    BY <1>3 DEF start_sequence
  <2>3. Idle \in Worker /\ First(todo) \in Stages /\ written(c, snap) \in Card
    <3>1. me \in Handler /\ me.pc = "queue"
      BY <1>3, WorkerType DEF start_sequence, At
    <3>2. todo # {}
      BY <3>1, InStateType DEF Handler
    <3> QED BY <1>0, <2>1, <3>2, IdleType, HandlersTyped, FirstType, WrittenType
  <2>4. GoesOn(next, written(c, snap))
    BY <2>3, DispatchStageGoesOn
  <2> HIDE DEF c, next
  <2> QED BY <1>0, <2>1, <2>2, <2>4, WrittenAlone DEF Becomes
<1>4. CASE (\E ref \in Answers : Accept(w, ref)) \/ Reject(w)
  <2>1. PICK ok, ref : worker' = [worker EXCEPT ![w] =
                          [me EXCEPT !.pc = "sent", !.ok = ok, !.ref = ref]]
    BY <1>4 DEF Accept, Reject, Answered, Becomes
  <2> DEFINE next == [me EXCEPT !.pc = "sent", !.ok = ok, !.ref = ref]
  <2>2. me.pc = "send" /\ UNCHANGED card
    BY <1>4 DEF Accept, Reject, At
  <2>3. next.snap = snap /\ next.stage = me.stage /\ next.pc = "sent"
    BY <1>0 DEF Worker
  <2> HIDE DEF next
  <2>4. Alone(card, next)
    BY <1>0, <2>2, <2>3 DEF Alone, Current, Sends, Queues
  <2> QED BY <2>1, <2>2, <2>4 DEF next
<1>5. CASE Record(w)
  <2> DEFINE next == Ended(me, snap)
  <2>1. next.pc \in {"idle", "reread"}
    BY <1>0 DEF Ended, Idle, Worker
  <2>2. Becomes(w, next)
    BY <1>5 DEF Record
  <2> HIDE DEF next
  <2>3. Alone(card', next)
    BY <2>1 DEF Alone, Current, Sends, Queues
  <2> QED BY <2>2, <2>3 DEF Becomes
<1>6. CASE apply_status(w)
  <2>1. Alone(card, [me EXCEPT !.pc = "settle", !.snap = card])
    BY <1>0 DEF Alone, Current, Sends, Queues, Worker
  <2>2. Alone(card, _advance(me, card))
    BY <1>0, AdvanceGoesOn, GoesOnAlone
  <2>3. \E next : Alone(card, next) /\ Becomes(w, next)
    BY <1>1, <1>6, <2>1, <2>2 DEF apply_status
  <2> QED BY <1>6, <2>3 DEF apply_status, Becomes
<1>7. CASE _settle(w)
  <2> DEFINE c == [card EXCEPT !.runs = settled(snap, me.item)]
             next == _advance(me, written(c, snap))
  <2>1. c \in Card /\ c.live = card.live
    BY <1>0 DEF settled, Card, StageStatus
  <2>2. update(c) /\ Becomes(w, next)
    BY <1>7 DEF _settle
  <2>3. GoesOn(next, written(c, snap))
    BY <1>0, <2>1, WrittenType, AdvanceGoesOn
  <2> HIDE DEF c, next
  <2> QED BY <1>0, <2>1, <2>2, <2>3, WrittenAlone DEF Becomes
<1>8. CASE BlockSequence(w)
  <2> DEFINE c == [card EXCEPT !.status = "blocked"]
             next == [me EXCEPT !.pc = "status", !.snap = written(c, snap)]
  <2>1. c \in Card /\ c.live = card.live
    BY <1>0 DEF Card, Statuses
  <2>2. update(c) /\ Becomes(w, next)
    BY <1>8 DEF BlockSequence
  <2>3. GoesOn(next, written(c, snap))
    BY <1>0 DEF GoesOn, Worker
  <2> HIDE DEF c, next
  <2> QED BY <1>0, <2>1, <2>2, <2>3, WrittenAlone DEF Becomes
<1>9. CASE Reread(w)
  <2> DEFINE next == [me EXCEPT !.pc = "status", !.snap = written(card, @)]
  <2>1. GoesOn(next, written(card, snap))
    BY <1>0 DEF GoesOn, Worker
  <2>2. Becomes(w, next) /\ UNCHANGED card /\ update(card)
    BY <1>9 DEF Reread, update
  <2> HIDE DEF next
  <2> QED BY <1>0, <2>1, <2>2, WrittenAlone DEF Becomes
<1> QED BY <1>2, <1>3, <1>4, <1>5, <1>6, <1>7, <1>8, <1>9 DEF Continue

LEMMA AloneNext == ASSUME OneHandler PROVE TInv /\ HInv /\ [Next]_vars => HInv'
<1> SUFFICES ASSUME TInv, HInv, [Next]_vars PROVE HInv'
  OBVIOUS
<1>1. CASE \E w \in Workers : Request(w) \/ Continue(w)
  BY <1>1, RequestAlone, ContinueAlone
<1>2. CASE \E w \in Workers, m \in net : ingest(w, m)
  <2>1. PICK w \in Workers, m \in net : ingest(w, m)
    BY <1>2
  <2>2. PICK k, item : Becomes(w, [Idle EXCEPT !.pc = "apply", !.key = k, !.item = item])
    BY <2>1 DEF ingest
  <2>3. Alone(card', [Idle EXCEPT !.pc = "apply", !.key = k, !.item = item])
    BY DEF Alone, Current, Sends, Queues, Idle
  <2> QED BY <2>2, <2>3, HandlerAlone DEF Becomes
<1>3. CASE UNCHANGED <<card, worker>>
  BY <1>3 DEF HInv
<1>4. CASE Crash
  BY <1>4 DEF Crash, HInv, Alone, Current, Sends, Queues, Idle
<1> QED BY <1>1, <1>2, <1>3, <1>4, UpstreamRuns DEF Next, SetProject, vars

LEMMA AloneInit == Init => HInv
<1> SUFFICES ASSUME Init, NEW w \in Workers PROVE Alone(card, worker[w])
  BY DEF HInv
<1>1. worker[w].pc = "idle"
  BY DEF Init, Idle
<1> QED BY <1>1 DEF Alone, Current, Sends, Queues

LEMMA AloneAlways == ASSUME OneHandler PROVE Spec => [](TInv /\ HInv)
<1>1. Init => TInv /\ HInv
  BY TypeInit, AloneInit
<1>2. (TInv /\ HInv) /\ [Next]_vars => (TInv /\ HInv)'
  BY TypeNext, AloneNext
<1> QED BY <1>1, <1>2, PTL DEF Spec

-----------------------------------------------------------------------------
(* The card implements the ledger, step by step.                           *)

\* A write that leaves the records and the key as they are.
LEMMA SameLedger ==
    ASSUME card \in Card, NEW c, update(c), c.runs = card.runs, c.key = card.key
    PROVE  UNCHANGED Ledger!ledger
BY DEF update, Ledger!ledger

\* A sequence is queued as a whole, from records with nothing in flight.
LEMMA QueueStep ==
    ASSUME TInv, HInv, NEW w \in Workers, start_sequence(w)
    PROVE  Ledger!Queue \/ UNCHANGED Ledger!ledger
<1> DEFINE snap == worker[w].snap
           todo == Stages \ InState(snap, "done")
           queued == [s \in Stages |->
                         IF s \in todo THEN "queued" ELSE snap.runs[s]]
           c == [card EXCEPT !.runs = queued]
<1>0. card \in Card /\ update(c) /\ worker[w].pc = "queue" /\ Alone(card, worker[w])
  BY DEF TInv, TypeOK, HInv, start_sequence, At
<1>1. CASE card.live
  <2>1. snap.runs = card.runs /\ InState(snap, "dispatched") = {}
    BY <1>0, <1>1 DEF Alone, Current, Queues
  <2>2. queued = [s \in Stages |-> IF card.runs[s] = "done" THEN "done" ELSE "queued"]
    BY <2>1 DEF InState
  <2>3. card'.runs = queued /\ card'.key = card.key
    BY <1>0, <1>1 DEF update, Card
  <2>4. \A s \in Stages : card.runs[s] # "dispatched"
    BY <2>1 DEF InState
  <2> HIDE DEF queued
  <2> QED BY <2>2, <2>3, <2>4 DEF Ledger!Queue
<1>2. CASE ~card.live
  BY <1>0, <1>2 DEF update, Ledger!ledger
<1> QED BY <1>1, <1>2

\* An answer is recorded for what its handler was allowed to send.
LEMMA RecordStep ==
    ASSUME TInv, HInv, NEW w \in Workers, Record(w)
    PROVE  (\E s \in Stages : Ledger!Dispatch(s) \/ Ledger!DispatchFails(s))
              \/ UNCHANGED Ledger!ledger
<1> DEFINE me == worker[w]
           snap == me.snap
           s == me.stage
<1>0. /\ card \in Card /\ snap \in Card /\ s \in Stages
      /\ me.ref \in Keys \cup {NoKey}
      /\ update(_send(me)) /\ me.pc = "sent" /\ Alone(card, me)
  BY WorkerType DEF TInv, TypeOK, HInv, Record, At
<1>1. CASE card.live
  <2>1. snap.runs = card.runs /\ snap.key = card.key /\ MayGo(snap, s)
    BY <1>0, <1>1 DEF Alone, Current, Sends
  <2>2. Ledger!MaySend(s)
    BY <2>1 DEF MayGo, Ledger!MaySend
  <2>3. card' = _send(me)
    BY <1>0, <1>1 DEF update
  <2>4. CASE me.ok
    <3>1. card'.runs = [card.runs EXCEPT ![s] = "dispatched"]
      BY <1>0, <2>1, <2>3, <2>4 DEF _send, Card
    <3>2. card'.key = join_key(card, me.ref)
      BY <1>0, <2>1, <2>3, <2>4 DEF _send, Card, join_key
    <3>3. IF card.key = NoKey THEN card'.key \in Keys ELSE card'.key = card.key
      BY <1>0, <3>2 DEF join_key, Keys
    <3> QED BY <1>0, <2>2, <3>1, <3>3 DEF Ledger!Dispatch
  <2>5. CASE ~me.ok
    <3>1. card'.runs = [card.runs EXCEPT ![s] = "failed"] /\ card'.key = card.key
      BY <1>0, <2>1, <2>3, <2>5 DEF _send, Card
    <3> QED BY <1>0, <2>2, <3>1 DEF Ledger!DispatchFails
  <2> QED BY <2>4, <2>5
<1>2. CASE ~card.live
  BY <1>0, <1>2 DEF update, Ledger!ledger
<1> QED BY <1>1, <1>2

\* An event settles what was in flight, and nothing else.
LEMMA SettleStep ==
    ASSUME TInv, HInv, NEW w \in Workers, _settle(w)
    PROVE  Ledger!Settle \/ UNCHANGED Ledger!ledger
<1> DEFINE me == worker[w]
           c == [card EXCEPT !.runs = settled(me.snap, me.item)]
<1>0. card \in Card /\ update(c) /\ me.pc = "settle" /\ Alone(card, me)
  BY DEF TInv, TypeOK, HInv, _settle, At
<1>1. CASE card.live
  <2>1. settled(me.snap, me.item) = settled(card, me.item)
    BY <1>0, <1>1 DEF Alone, Current, settled
  <2>2. card'.runs = settled(card, me.item) /\ card'.key = card.key
    BY <1>0, <1>1, <2>1 DEF update, Card
  <2>3. card.runs \in [Stages -> StageStatus]
    BY <1>0 DEF Card
  <2>4. /\ settled(card, me.item) \in
              [Stages -> {"absent", "queued", "dispatched", "done", "failed"}]
        /\ \A s \in Stages :
              \/ settled(card, me.item)[s] = card.runs[s]
              \/ /\ card.runs[s] = "dispatched"
                 /\ settled(card, me.item)[s] \in {"done", "failed"}
    BY <2>3 DEF settled, StageStatus, Absent
  <2> QED BY <2>2, <2>4 DEF Ledger!Settle
<1>2. CASE ~card.live
  BY <1>0, <1>2 DEF update, Ledger!ledger
<1> QED BY <1>1, <1>2

LEMMA LedgerStep ==
    ASSUME TInv, HInv, [Next]_vars
    PROVE  [Ledger!Next]_(Ledger!ledger)
<1>0. card \in Card
  BY DEF TInv, TypeOK
<1>1. CASE \E w \in Workers : Request(w)
  <2>1. PICK w \in Workers : Request(w)
    BY <1>1
  <2>2. card'.runs = card.runs /\ card'.key = card.key
    BY <1>0, <2>1 DEF Request, update_card, run_card_stage, run_card_sequence,
                      delete_card, Card
  <2> QED BY <2>2 DEF Ledger!ledger
<1>2. CASE \E w \in Workers : Continue(w)
  <2>1. PICK w \in Workers : Continue(w)
    BY <1>2
  <2>2. CASE start_sequence(w) \/ Record(w) \/ _settle(w)
    BY <2>1, <2>2, QueueStep, RecordStep, SettleStep DEF Ledger!Next
  <2>3. CASE BlockForNoProject(w) \/ BlockSequence(w)
    <3>1. update([card EXCEPT !.status = "blocked"])
      BY <2>3 DEF BlockForNoProject, BlockSequence
    <3> QED BY <1>0, <3>1, SameLedger DEF Card
  <2>4. CASE WriteStatus(w)
    <3>1. \/ UNCHANGED card
          \/ \E st : update([card EXCEPT !.status = st])
      BY <2>4 DEF WriteStatus
    <3> QED BY <1>0, <3>1, SameLedger DEF Card, Ledger!ledger
  <2>5. CASE \/ Refuse(w) \/ (\E ref \in Answers : Accept(w, ref)) \/ Reject(w)
             \/ apply_status(w) \/ Reread(w)
    <3>1. UNCHANGED card
      BY <2>5 DEF Refuse, Accept, Reject, apply_status, Reread
    <3> QED BY <3>1 DEF Ledger!ledger
  <2> QED BY <2>1, <2>2, <2>3, <2>4, <2>5 DEF Continue
<1>3. CASE UNCHANGED card
  BY <1>3 DEF Ledger!ledger
<1> QED BY <1>1, <1>2, <1>3, UpstreamRuns DEF Next, ingest, SetProject, Crash, vars

\* The dispatch records and the key of a card whose handlers do not overlap
\* keep every promise of StageLedger (KeepsLedger).
THEOREM CardKeepsLedger == ASSUME OneHandler PROVE Spec => KeepsLedger
<1>1. Init => Ledger!Init
  <2> SUFFICES ASSUME Init PROVE Ledger!Init
    OBVIOUS
  <2>1. card.runs = NoSlices /\ card.key = NoKey
    BY DEF Init, BlankCard
  <2> QED BY <2>1 DEF Ledger!Init, NoSlices, Absent
<1>2. (TInv /\ HInv) /\ [Next]_vars => [Ledger!Next]_(Ledger!ledger)
  BY LedgerStep
<1> QED BY <1>1, <1>2, AloneAlways, PTL DEF Spec, KeepsLedger, Ledger!Spec

\* Where handlers do not overlap, the write-back never calls a card done that
\* has a stage queued or in flight (NeverDoneWhileOwed).
THEOREM DoneOwesNothing == ASSUME OneHandler PROVE Spec => NeverDoneWhileOwed
<1> DEFINE Owes ==
             \A w \in Workers :
                (WritesBack(w) /\ card.status # "done" /\ card'.status = "done")
                   => \A s \in Stages :
                          card'.runs[s] \notin {"queued", "dispatched"}
<1>1. (TInv /\ HInv) /\ [Next]_vars => [Owes]_vars
  <2> SUFFICES ASSUME TInv, HInv, Next, NEW w \in Workers, WritesBack(w),
                      card.status # "done", card'.status = "done"
               PROVE  \A s \in Stages :
                         card'.runs[s] \notin {"queued", "dispatched"}
    BY DEF vars
  <2> DEFINE me == worker[w]
             remaining == pending_stages(me.snap) # {}
             st == card_status_for(me.item, remaining)
  <2>1. WriteStatus(w)
    BY WritesBackIs
  <2>2. card \in Card /\ me.pc = "status" /\ Alone(card, me)
    BY <2>1 DEF TInv, TypeOK, HInv, WriteStatus, At
  <2>3. card.live /\ card' = [card EXCEPT !.status = st]
    BY <2>1 DEF WriteStatus, update
  <2>4. st = "done" /\ card'.runs = card.runs
    <3> HIDE DEF st
    <3> QED BY <2>2, <2>3 DEF Card
  <2>5. ~remaining
    <3> HIDE DEF remaining
    <3> QED BY <2>4 DEF card_status_for, Absent
  <2>6. me.snap.runs = card.runs
    BY <2>2, <2>3 DEF Alone, Current
  <2> QED BY <2>4, <2>5, <2>6 DEF pending_stages, InState
<1> QED BY <1>1, AloneAlways, PTL DEF Spec, NeverDoneWhileOwed

=============================================================================
