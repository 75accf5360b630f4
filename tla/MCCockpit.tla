----------------------------- MODULE MCCockpit ------------------------------
(* What a cockpit must be shown, for TLC: a change on its board, a service    *)
(* whose database is at its schema, the last output of an agent's console.    *)
(* As modelled they share no state: a behaviour moves one part, and the       *)
(* others stay where they began.                                              *)
EXTENDS CockpitFeed, SchemaBoot, LiveConsole

VARIABLE part  \* the part that moves

-----------------------------------------------------------------------------
(* Cockpits.                                                                  *)

CONSTANTS key1, cockpit1, writer1

OneRow == {key1}
OneCockpit == {cockpit1}
OneWriter == {writer1}

-----------------------------------------------------------------------------
(* The boot: the releases with the hash chain, and the revisions a database   *)
(* that was created or stamped at boot may have reached.                      *)

SinceTheChain == 3 .. 14
SinceTheConnections == 11 .. 14

\* The schema of a release is what its statements leave, run one by one, and the
\* tables are all of them, in that order.
ASSUME SchemaIsRun ==
    \A release \in 0 .. Latest :
        SchemaAt(release) =
            FoldLeft(LAMBDA schema, s : RunOn(s, schema), {},
                     FlattenSeq(SubSeq(Revisions, 1, release)))
ASSUME TablesAreAll ==
    [i \in 1 .. Len(Tables) |-> Table(Tables[i])] =
        SelectSeq(FlattenSeq(Revisions), LAMBDA s : s.object[2] = "table")

-----------------------------------------------------------------------------
(* The console.                                                               *)

CONSTANTS session1, session2

TwoSessions == {session1, session2}

-----------------------------------------------------------------------------
(* The parts together.                                                        *)

\* A service that is up.
BootAtRest ==
    /\ transactional = TRUE /\ duplicates = FALSE
    /\ disk = UnderAlembic(Latest)
    /\ work = disk
    /\ partial = FALSE
    /\ stage = "serving"
    /\ at = 0 /\ crashes = 0 /\ torn = FALSE

AllInit ==
    /\ part \in {"feed", "boot", "console"}
    /\ IF part = "feed" THEN FeedInit ELSE FeedInit /\ ~polling
    /\ IF part = "boot" THEN BootInit ELSE BootAtRest
    /\ IF part = "console" THEN ConsoleInit ELSE ConsoleInit /\ ~rmux

AllNext ==
    /\ UNCHANGED part
    /\ \/ part = "feed" /\ FeedNext
          /\ UNCHANGED <<bootVars, consoleVars>>
       \/ part = "boot" /\ BootNext
          /\ UNCHANGED <<feedVars, consoleVars>>
       \/ part = "console" /\ ConsoleNext
          /\ UNCHANGED <<feedVars, bootVars>>

\* The fairness of the feed, where it moves.
CockpitsFairness ==
    /\ \A t \in Broadcasters :
          WF_feedVars(part = "feed" /\ (Broadcast(t) \/ SendFrame(t) \/ Sent(t)))
    /\ \A t \in Snapshotters : WF_feedVars(part = "feed" /\ ReadBoard(t))
    /\ \A s \in Sockets :
          WF_feedVars(part = "feed" /\ (ReadSnapshot(s) \/ SendSnapshot(s) \/ HandlerEnds(s)))
    /\ \A s \in Sockets : WF_feedVars(part = "feed" /\ (AnswerLoad(s) \/ Loaded(s)))
    /\ \A c \in Cockpits : WF_feedVars(part = "feed" /\ Connect(c))
    /\ \A c \in Cockpits : WF_feedVars(part = "feed" /\ Deliver(c))
    /\ WF_feedVars(part = "feed" /\ Hydrate("poll"))

AllSpec ==
    /\ AllInit /\ [][AllNext]_<<feedVars, bootVars, consoleVars, part>>
    /\ CockpitsFairness

=============================================================================
