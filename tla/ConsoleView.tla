----------------------------- MODULE ConsoleView ----------------------------
(***************************************************************************)
(* What the console of a live agent promises its viewer (the docstring of  *)
(* live_agent_proxy.py): a visit follows one session, from the moment it   *)
(* is chosen; the screen shows what that session writes, in order and      *)
(* nothing else; and a visit that is over leaves no socket open and says   *)
(* why, "session ended" only for a session that has ended and was shown to *)
(* its end, unless the connection broke.                                   *)
(***************************************************************************)
EXTENDS Naturals, Sequences

CONSTANTS
    Sessions,
    Nothing,   \* no visit
    Choosing,  \* a visit that follows no session yet
    Ended,     \* the code that says that the session ended
    Refusals   \* the codes that say that there is nothing to follow

VARIABLES
    alive,    \* the sessions that run
    written,  \* how much each session has written
    viewer,   \* the viewer's socket: none, open, left or a code
    follows,  \* the session that the visit follows
    start,    \* what it had written when it was chosen
    screen,   \* what the viewer was shown
    broken    \* did this visit see a failure?

agents == <<alive, written>>
view == <<agents, viewer, follows, start, screen, broken>>

Init ==
    /\ alive = {} /\ written = [s \in Sessions |-> 0]
    /\ viewer = "none" /\ follows = Nothing
    /\ start = 0 /\ screen = <<>> /\ broken = FALSE

-----------------------------------------------------------------------------
Start(s) ==
    /\ alive' = alive \cup {s}
    /\ UNCHANGED <<written, viewer, follows, start, screen, broken>>

Write(s) ==
    /\ s \in alive
    /\ written' = [written EXCEPT ![s] = @ + 1]
    /\ UNCHANGED <<alive, viewer, follows, start, screen, broken>>

Stop(s) ==
    /\ alive' = alive \ {s}
    /\ UNCHANGED <<written, viewer, follows, start, screen, broken>>

Open ==
    /\ viewer # "open" /\ follows = Nothing
    /\ viewer' = "open" /\ follows' = Choosing
    /\ screen' = <<>> /\ broken' = FALSE
    /\ UNCHANGED <<agents, start>>

Leave ==
    /\ viewer = "open" /\ viewer' = "left"
    /\ UNCHANGED <<agents, follows, start, screen, broken>>

Follow(s) ==
    /\ follows = Choosing /\ ~broken /\ screen = <<>>
    /\ s \in alive
    /\ follows' = s
    /\ start' = written[s]
    /\ UNCHANGED <<agents, viewer, screen, broken>>

NextFrame == start + Len(screen) + 1

\* A frame is shown after the session wrote it, once, and to a viewer who is there.
Show ==
    /\ viewer = "open" /\ ~broken
    /\ follows \in Sessions
    /\ NextFrame <= written[follows]
    /\ screen' = Append(screen, NextFrame)
    /\ UNCHANGED <<agents, viewer, follows, start, broken>>

Fail ==
    /\ follows \in Sessions
    /\ broken' = TRUE
    /\ UNCHANGED <<agents, viewer, follows, start, screen>>

ShownToItsEnd ==
    follows \notin alive /\ start + Len(screen) = written[follows]

Over ==
    /\ follows # Nothing /\ follows' = Nothing
    /\ IF viewer = "open"
       THEN IF follows = Choosing THEN viewer' \in Refusals
            ELSE viewer' = Ended /\ (broken \/ ShownToItsEnd)
       ELSE viewer' = viewer
    /\ broken => broken'
    /\ UNCHANGED <<agents, start, screen>>

Next ==
    \/ \E s \in Sessions : Start(s) \/ Write(s) \/ Stop(s) \/ Follow(s)
    \/ Open \/ Leave \/ Show \/ Fail \/ Over

Spec == Init /\ [][Next]_view

=============================================================================
