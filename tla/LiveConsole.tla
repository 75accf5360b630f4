---------------------------- MODULE LiveConsole ----------------------------
(***************************************************************************)
(* The console of a live agent (live_agent_proxy.py): the cockpit lists    *)
(* the sessions it can watch, opens a socket for one of them, and the      *)
(* service opens the factory's console on its behalf and pumps its frames  *)
(* down until either side ends. The session may end, and a key may come to *)
(* name another session, between any two of these steps.                   *)
(***************************************************************************)
EXTENDS Naturals, Sequences, FiniteSets, SequencesExt

CONSTANTS
    Sessions,          \* agent sessions (tasks of the factory) of the key
    MaxFrames,         \* bound: frames of output of a session
    MaxConsoleMishaps  \* bound: failed requests and connections that break

VARIABLES
    rmux,              \* is the factory's console switched on?
    tasks,             \* the tasks of the key, in the order the factory lists them
    running,           \* those of them whose session runs
    output,            \* how many frames each session has written
    listed,            \* does the cockpit show an agent to watch?
    handling,          \* what the handler of the cockpit's socket is at
    session,           \* the session it has resolved the key to
    upstream,          \* the socket to the factory
    frames,            \* the frames that are on it
    cockpit,           \* the cockpit's socket: open, left, or the code it was closed with
    upTask, downTask,  \* the task that forwards frames and the one that awaits the cockpit
    screen,             \* the frames the cockpit was sent
    before,            \* history: what the session had written when it was dialled
    cut,               \* history: did this visit see a failure?
    adapters,          \* are the clients of the request open?
    consoleMishaps     \* how much went wrong

factory == <<rmux, tasks, running, output>>
bridge == <<upstream, frames, upTask, downTask, screen, before>>
consoleVars == <<factory, listed, handling, session, bridge, cockpit, cut, adapters, consoleMishaps>>

-----------------------------------------------------------------------------
(* Vocabulary.                                                             *)

NoSession == "no session"

ASSUME SessionNames == Sessions \cap {NoSession, "choosing"} = {}

\* The first frame of a console says that it is connected; the others are
\* output, numbered by their place in what the session wrote.
Connected == 0

is_control_frame(frame) == frame = Connected

\* The codes the cockpit's socket is closed with.
WS_NO_AGENT == "4404 no agent"
WS_UPSTREAM_DOWN == "1011 upstream down"
SessionEnded == "1000 session ended"
Codes == {WS_NO_AGENT, WS_UPSTREAM_DOWN, SessionEnded}

Fails == consoleMishaps < MaxConsoleMishaps /\ consoleMishaps' = consoleMishaps + 1 /\ cut' = TRUE
Works == UNCHANGED <<consoleMishaps, cut>>

-----------------------------------------------------------------------------
(* The factory and the cockpit.                                            *)

\* The factory lists its tasks in an order of its own.
StartSession(s) ==
    /\ s \notin ToSet(tasks)
    /\ tasks' \in {Append(tasks, s), <<s>> \o tasks}
    /\ running' = running \cup {s}
    /\ UNCHANGED <<rmux, output, listed, handling, session, bridge, cockpit, cut, adapters, consoleMishaps>>

WriteOutput(s) ==
    /\ s \in running
    /\ output[s] < MaxFrames
    /\ output' = [output EXCEPT ![s] = @ + 1]
    /\ frames' = IF upstream = "open" /\ session = s THEN Append(frames, output[s] + 1) ELSE frames
    /\ UNCHANGED <<rmux, tasks, running, listed, handling, session, upstream, upTask, downTask, screen,
                   before, cockpit, cut, adapters, consoleMishaps>>

\* A session that ends closes its consoles; its task stays in the list.
End(s) ==
    /\ s \in running
    /\ running' = running \ {s}
    /\ upstream' = IF upstream = "open" /\ session = s THEN "ended" ELSE upstream
    /\ UNCHANGED <<rmux, tasks, output, listed, handling, session, frames, upTask, downTask, screen, before,
                   cockpit, cut, adapters, consoleMishaps>>

\* The connection to the factory breaks, and takes with it what was under way.
Break ==
    /\ upstream = "open"
    /\ Fails
    /\ upstream' = "ended"
    /\ frames' = <<>>
    /\ UNCHANGED <<factory, listed, handling, session, upTask, downTask, screen, before, cockpit, adapters>>

\* The list of the page has the tasks that are active.
discover_live_agents ==
    /\ listed' = (rmux /\ running # {})
    /\ UNCHANGED <<factory, handling, session, bridge, cockpit, cut, adapters, consoleMishaps>>

Watch ==
    /\ handling = "idle"
    /\ cockpit # "open"
    /\ listed
    /\ handling' = "accepted"
    /\ cockpit' = "open"
    /\ adapters' = TRUE
    /\ screen' = <<>>
    /\ cut' = FALSE
    /\ UNCHANGED <<factory, listed, session, upstream, frames, upTask, downTask, before, consoleMishaps>>

Leave ==
    /\ cockpit = "open"
    /\ cockpit' = "left"
    /\ UNCHANGED <<factory, listed, handling, session, bridge, cut, adapters, consoleMishaps>>

-----------------------------------------------------------------------------
(* proxy_agent_console.                                                    *)

\* _close leaves a socket alone that is closed.
Close(code) ==
    /\ cockpit' = IF cockpit = "open" THEN code ELSE cockpit
    /\ handling' = "closing"

\* A probe that fails reads as no.
ProbeRmux ==
    /\ handling = "accepted"
    /\ \/ rmux /\ Works /\ handling' = "resolve" /\ UNCHANGED cockpit
       \/ ~rmux /\ Works /\ Close(WS_NO_AGENT)
       \/ Fails /\ Close(WS_NO_AGENT)
    /\ UNCHANGED <<factory, listed, session, bridge, adapters>>

\* The first task listed under the key is taken, whether it is active or not.
resolve_spec_id == IF tasks = <<>> THEN NoSession ELSE Head(tasks)

Resolve ==
    /\ handling = "resolve"
    /\ \/ session' = resolve_spec_id /\ Works
       \/ session' = NoSession /\ Fails
    /\ IF session' = NoSession THEN Close(WS_NO_AGENT)
                               ELSE handling' = "dial" /\ UNCHANGED cockpit
    /\ UNCHANGED <<factory, listed, bridge, adapters>>

Dial ==
    /\ handling = "dial"
    /\ session \in running
    /\ Works
    /\ upstream' = "open"
    /\ frames' = <<Connected>>
    /\ before' = output[session]
    /\ upTask' = "runs" /\ downTask' = "runs"
    /\ handling' = "bridge"
    /\ UNCHANGED <<factory, listed, session, screen, cockpit, adapters>>

DialFails ==
    /\ handling = "dial"
    /\ \/ session \notin running /\ Works
       \/ Fails
    /\ Close(WS_UPSTREAM_DOWN)
    /\ UNCHANGED <<factory, listed, session, bridge, adapters>>

-----------------------------------------------------------------------------
(* _bridge.                                                                *)

\* A frame for a cockpit that has left is dropped or ends the task.
Pump ==
    /\ handling = "bridge" /\ upTask = "runs" /\ frames # <<>>
    /\ frames' = Tail(frames)
    /\ IF is_control_frame(Head(frames)) THEN UNCHANGED <<screen, upTask>>
       ELSE \/ cockpit = "open" /\ screen' = Append(screen, Head(frames)) /\ UNCHANGED upTask
            \/ cockpit # "open" /\ UNCHANGED screen /\ upTask' \in {"runs", "done"}
    /\ UNCHANGED <<factory, listed, handling, session, upstream, downTask, before, cockpit, cut, adapters,
                   consoleMishaps>>

\* A variant: the frames still under way are given up.
upstream_exhausted_early == upstream = "ended"

\* The frames run out where the factory has closed, cleanly or not.
upstream_exhausted == upstream = "ended" /\ frames = <<>>

PumpEnds ==
    /\ handling = "bridge" /\ upTask = "runs"
    /\ upstream_exhausted
    /\ upTask' = "done"
    /\ UNCHANGED <<factory, listed, handling, session, upstream, frames, downTask, screen, before, cockpit,
                   cut, adapters, consoleMishaps>>

Drain ==
    /\ handling = "bridge" /\ downTask = "runs"
    /\ cockpit = "left"
    /\ downTask' = "done"
    /\ UNCHANGED <<factory, listed, handling, session, upstream, frames, upTask, screen, before, cockpit,
                   cut, adapters, consoleMishaps>>

one_side_ended == upTask = "done" \/ downTask = "done"

\* FIRST_COMPLETED: the other task is cancelled, and both sockets are closed.
Teardown ==
    /\ handling = "bridge"
    /\ one_side_ended
    /\ upTask' = "done" /\ downTask' = "done"
    /\ upstream' = "none"
    /\ frames' = <<>>
    /\ Close(SessionEnded)
    /\ UNCHANGED <<factory, listed, session, screen, before, cut, adapters, consoleMishaps>>

\* The handler of the socket closes the clients, whatever happened.
ConsoleEnds ==
    /\ handling = "closing"
    /\ handling' = "idle"
    /\ adapters' = FALSE
    /\ session' = NoSession
    /\ UNCHANGED <<factory, listed, bridge, cockpit, cut, consoleMishaps>>

-----------------------------------------------------------------------------
ConsoleInit ==
    /\ rmux \in BOOLEAN
    /\ tasks = <<>> /\ running = {}
    /\ output = [s \in Sessions |-> 0]
    /\ listed = FALSE
    /\ handling = "idle" /\ session = NoSession
    /\ upstream = "none" /\ frames = <<>>
    /\ cockpit = "none"
    /\ upTask = "done" /\ downTask = "done"
    /\ screen = <<>> /\ before = 0 /\ cut = FALSE
    /\ adapters = FALSE
    /\ consoleMishaps = 0

ConsoleNext ==
    \/ \E s \in Sessions : StartSession(s) \/ WriteOutput(s) \/ End(s)
    \/ Break
    \/ discover_live_agents \/ Watch \/ Leave
    \/ ProbeRmux \/ Resolve \/ Dial \/ DialFails
    \/ Pump \/ PumpEnds \/ Drain \/ Teardown
    \/ ConsoleEnds

ConsoleSpec == ConsoleInit /\ [][ConsoleNext]_consoleVars

-----------------------------------------------------------------------------
(* Properties.                                                             *)

\* Every variable stays in its domain, and the handler holds a console and the
\* clients of its request only while it needs them.
ConsoleTypeOK ==
    /\ rmux \in BOOLEAN
    /\ ToSet(tasks) \subseteq Sessions /\ IsInjective(tasks)
    /\ running \subseteq ToSet(tasks)
    /\ output \in [Sessions -> 0..MaxFrames]
    /\ listed \in BOOLEAN
    /\ handling \in {"idle", "accepted", "resolve", "dial", "bridge", "closing"}
    /\ session \in Sessions \cup {NoSession}
    /\ upstream \in {"none", "open", "ended"}
    /\ upstream # "none" <=> handling = "bridge"
    /\ frames \in Seq(0..MaxFrames)
    /\ cockpit \in {"none", "open", "left"} \cup Codes
    /\ upTask \in {"runs", "done"} /\ downTask \in {"runs", "done"}
    /\ screen \in Seq(0..MaxFrames)
    /\ before \in 0..MaxFrames
    /\ cut \in BOOLEAN
    /\ adapters <=> handling # "idle"
    /\ consoleMishaps \in 0..MaxConsoleMishaps

\* What the cockpit is shown is what one session wrote from the moment it was
\* dialled, with nothing left out, nothing repeated and no frame of the
\* connection's own (is_control_frame, _pump_upstream_to_cockpit).
ShowsOneSession == \A i \in DOMAIN screen : screen[i] = before + i

\* A viewer who stays, over a connection that holds, is shown a session to its
\* end: when the socket is closed with "session ended", all that the session
\* wrote has been shown (_bridge waits for the frames to run out).
LastFramesArrive ==
    [][ (cockpit = "open" /\ cockpit' = SessionEnded /\ ~cut) =>
            /\ session \notin running
            /\ before + Len(screen) = output[session] ]_consoleVars

\* The visit, as its viewer sees it.
View == INSTANCE ConsoleView WITH
    Nothing <- NoSession, Choosing <- "choosing",
    Ended <- SessionEnded, Refusals <- {WS_NO_AGENT, WS_UPSTREAM_DOWN},
    alive <- running, written <- output, viewer <- cockpit,
    follows <- IF handling = "bridge" THEN session
               ELSE IF handling \in {"accepted", "resolve", "dial"} THEN "choosing"
               ELSE NoSession,
    start <- before, broken <- cut

\* A visit follows one session from the moment it is dialled, shows what that
\* session writes and nothing else, and ends with its reason: what ConsoleView
\* promises (live_agent_proxy.py:1-27, proxy_agent_console, _bridge).
FollowsOneSession == View!Spec

=============================================================================
