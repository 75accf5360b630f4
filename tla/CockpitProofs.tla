---------------------------- MODULE CockpitProofs ----------------------------
(* What a cockpit is shown, for any number of rows, browsers, writers and     *)
(* sessions: no change falls between the snapshot and the broadcasts, the     *)
(* console of an agent shows one session, in order and to its end, and the    *)
(* service behind it serves the schema its models declare, from any release.  *)
EXTENDS CockpitFeed, LiveConsole, SchemaBoot, SequenceTheorems, TLAPS

-----------------------------------------------------------------------------
(* The console.                                                              *)

\* The frame that says "connected", while it waits to be pumped.
Greeting == IF frames # <<>> /\ frames[1] = Connected THEN 1 ELSE 0

Streams == frames \in Seq(Nat) /\ screen \in Seq(Nat) /\ before \in Nat

\* A task that has run stays in the list, and does not run again.
Listed ==
    /\ tasks \in Seq(Sessions)
    /\ output \in [Sessions -> Nat]
    /\ \A s \in running : s \in Sessions /\ \E i \in 1..Len(tasks) : tasks[i] = s

\* What the handler has in hand at each of its steps.
Bridged ==
    /\ handling \in {"accepted", "resolve", "dial"} => screen = <<>> /\ ~cut
    /\ handling \in {"dial", "bridge"} => session \in Sessions
    /\ upstream \in {"none", "open", "ended"}
    /\ handling = "bridge" <=> upstream # "none"
    /\ handling = "bridge" => \E i \in 1..Len(tasks) : tasks[i] = session
    /\ upstream = "open" => session \in running /\ ~cut
    /\ upstream = "ended" /\ ~cut => session \notin running

\* While the viewer stays, the screen goes on in the frames.
Continued ==
    handling = "bridge" /\ cockpit = "open" =>
        /\ \A i \in 1..Len(frames) :
              i > Greeting => frames[i] = before + Len(screen) + i - Greeting
        /\ ~cut => before + Len(screen) + Len(frames) = output[session] + Greeting
        /\ downTask = "runs"
        /\ upTask = "done" => upstream = "ended" /\ frames = <<>>

CInv == Streams /\ Listed /\ Bridged /\ Continued /\ ShowsOneSession


LEMMA InitCInv == ConsoleInit => CInv
BY DEF ConsoleInit, CInv, Streams, Listed, Bridged, Continued, ShowsOneSession

\* A step outside the bridge that leaves the lists alone.
LEMMA OutsideInv ==
    ASSUME CInv, UNCHANGED <<factory, upstream, frames, upTask, downTask, before>>,
           handling # "bridge", handling' # "bridge",
           session' \in Sessions \/ handling' # "dial",
           screen' \in {screen, <<>>},
           handling' \in {"accepted", "resolve", "dial"} => screen' = <<>> /\ ~cut'
    PROVE  CInv'
<1>0. UNCHANGED <<tasks, running, output>>
  BY DEF factory
<1>1. Streams' /\ Listed'
  <2>1. <<>> \in Seq(Nat)
    OBVIOUS
  <2> QED BY <1>0, <2>1 DEF CInv, Streams, Listed
<1>2. Bridged'
  BY <1>0 DEF CInv, Bridged
<1>3. ShowsOneSession'
  BY DEF CInv, ShowsOneSession
<1> QED BY <1>1, <1>2, <1>3 DEF CInv, Continued

LEMMA StartInv == ASSUME CInv, NEW s \in Sessions, StartSession(s) PROVE CInv'
<1>1. /\ tasks' \in Seq(Sessions)
      /\ \E i \in 1..Len(tasks') : tasks'[i] = s
      /\ \A t \in Sessions : (\E i \in 1..Len(tasks) : tasks[i] = t) =>
                                \E i \in 1..Len(tasks') : tasks'[i] = t
  <2>1. tasks \in Seq(Sessions) /\ tasks' \in {Append(tasks, s), <<s>> \o tasks}
    BY DEF StartSession, CInv, Listed
  <2>2. CASE tasks' = Append(tasks, s)
    <3>1. /\ tasks' \in Seq(Sessions) /\ Len(tasks') = Len(tasks) + 1 /\ tasks'[Len(tasks) + 1] = s
          /\ \A i \in 1..Len(tasks) : tasks'[i] = tasks[i]
      BY <2>1, <2>2
    <3>2. Len(tasks) \in Nat
      BY <2>1
    <3> QED BY <3>1, <3>2
  <2>3. CASE tasks' = <<s>> \o tasks
    <3>1. /\ tasks' \in Seq(Sessions) /\ Len(tasks') = Len(tasks) + 1 /\ tasks'[1] = s
          /\ \A i \in 1..Len(tasks) : tasks'[i + 1] = tasks[i]
      BY <2>1, <2>3
    <3>2. Len(tasks) \in Nat
      BY <2>1
    <3> QED BY <3>1, <3>2
  <2> QED BY <2>1, <2>2, <2>3
<1>2. ~ \E i \in 1..Len(tasks) : tasks[i] = s
  BY DEF StartSession, ToSet, CInv, Listed
<1>3. /\ running' = running \cup {s}
      /\ UNCHANGED <<output, handling, session, bridge, cockpit, cut>>
  BY DEF StartSession
<1>4. Listed'
  BY <1>1, <1>3 DEF CInv, Listed
<1>5. Bridged'
  BY <1>1, <1>2, <1>3 DEF CInv, Bridged, bridge
<1> QED BY <1>3, <1>4, <1>5 DEF CInv, Streams, Continued, Greeting, ShowsOneSession, bridge

LEMMA WriteInv == ASSUME CInv, NEW s \in Sessions, WriteOutput(s) PROVE CInv'
<1> DEFINE mine == upstream = "open" /\ session = s
<1>1. /\ output' = [output EXCEPT ![s] = @ + 1]
      /\ frames' = IF mine THEN Append(frames, output[s] + 1) ELSE frames
      /\ UNCHANGED <<tasks, running, handling, session, upstream, upTask, downTask, screen, before,
                     cockpit, cut>>
  BY DEF WriteOutput
<1>2. Listed' /\ Bridged' /\ ShowsOneSession' /\ output[s] \in Nat
  BY <1>1 DEF CInv, Listed, Bridged, ShowsOneSession
<1>3. CASE ~mine
  <2>1. frames' = frames
    BY <1>1, <1>3
  <2>2. handling = "bridge" /\ ~cut => output'[session] = output[session]
    <3>1. ASSUME handling = "bridge", ~cut, session = s PROVE FALSE
      BY <1>3, <3>1 DEF CInv, Bridged, WriteOutput
    <3> QED BY <1>1, <3>1 DEF CInv, Listed
  <2>3. Continued'
    BY <1>1, <2>1, <2>2 DEF CInv, Continued, Greeting
  <2> QED BY <1>1, <1>2, <2>1, <2>3 DEF CInv, Streams
<1>4. CASE mine
  <2>1. frames \in Seq(Nat) /\ screen \in Seq(Nat) /\ before \in Nat
    BY DEF CInv, Streams
  <2>2. frames' = Append(frames, output[s] + 1)
    BY <1>1, <1>4
  <2>3. /\ frames' \in Seq(Nat) /\ Len(frames') = Len(frames) + 1
        /\ \A i \in 1..Len(frames) : frames'[i] = frames[i]
        /\ frames'[Len(frames) + 1] = output[s] + 1
    BY <1>2, <2>1, <2>2
  <2>4. Len(frames) \in Nat /\ Len(screen) \in Nat
    BY <2>1
  <2>5. Greeting' = Greeting /\ Greeting \in {0, 1}
    BY <1>2, <2>1, <2>3, <2>4 DEF Greeting, Connected
  <2>6. output'[session] = output[session] + 1
    BY <1>1, <1>2, <1>4 DEF CInv, Listed
  <2>7. Continued'
    <3> SUFFICES ASSUME handling = "bridge", cockpit = "open"
                 PROVE  Continued'
      BY <1>1 DEF Continued
    <3>1. /\ before + Len(screen) + Len(frames) = output[s] + Greeting
          /\ downTask = "runs" /\ upTask # "done"
          /\ \A i \in 1..Len(frames) : i > Greeting => frames[i] = before + Len(screen) + i - Greeting
      BY <1>4 DEF CInv, Continued, Bridged
    <3>2. ASSUME NEW i \in 1..Len(frames'), i > Greeting
          PROVE  frames'[i] = before + Len(screen) + i - Greeting
      <4>1. CASE i \in 1..Len(frames)
        BY <2>3, <3>1, <3>2, <4>1
      <4>2. CASE i \notin 1..Len(frames)
        <5>1. i = Len(frames) + 1
          BY <2>3, <2>4, <3>2, <4>2
        <5> QED BY <1>2, <2>1, <2>3, <2>4, <2>5, <3>1, <5>1
      <4> QED BY <4>1, <4>2
    <3>3. before + Len(screen) + Len(frames') = output'[session] + Greeting
      BY <1>2, <1>4, <2>1, <2>3, <2>4, <2>5, <2>6, <3>1
    <3> QED BY <1>1, <2>5, <3>1, <3>2, <3>3 DEF Continued
  <2> QED BY <1>1, <1>2, <2>1, <2>3, <2>7 DEF CInv, Streams
<1> QED BY <1>3, <1>4

LEMMA EndInv == ASSUME CInv, NEW s \in Sessions, End(s) PROVE CInv'
<1>1. /\ running' = running \ {s}
      /\ upstream' = IF upstream = "open" /\ session = s THEN "ended" ELSE upstream
      /\ UNCHANGED <<tasks, output, handling, session, frames, upTask, downTask, screen, before,
                     cockpit, cut>>
  BY DEF End
<1>2. Bridged'
  BY <1>1 DEF CInv, Bridged
<1> QED BY <1>1, <1>2 DEF CInv, Streams, Listed, Continued, Greeting, ShowsOneSession

LEMMA BreakInv == CInv /\ Break => CInv'
<1> SUFFICES ASSUME CInv, Break PROVE CInv'
  OBVIOUS
<1>1. /\ upstream = "open" /\ upstream' = "ended" /\ frames' = <<>> /\ cut' = TRUE
      /\ UNCHANGED <<factory, handling, session, upTask, downTask, screen, before, cockpit>>
  BY DEF Break, Fails
<1>2. Bridged' /\ Streams' /\ Listed'
  BY <1>1 DEF CInv, Bridged, Streams, Listed, factory
<1> QED BY <1>1, <1>2 DEF CInv, Continued, ShowsOneSession, factory

\* Up to the bridge, and after it.
LEMMA ApproachInv ==
    CInv /\ (Watch \/ ProbeRmux \/ Resolve \/ DialFails \/ ConsoleEnds) => CInv'
<1> SUFFICES ASSUME CInv, Watch \/ ProbeRmux \/ Resolve \/ DialFails \/ ConsoleEnds PROVE CInv'
  OBVIOUS
<1>1. handling \in {"accepted", "resolve", "dial"} => screen = <<>> /\ ~cut
  BY DEF CInv, Bridged
<1>2. CASE Watch
  BY <1>2, OutsideInv DEF Watch
<1>3. CASE ProbeRmux
  BY <1>1, <1>3, OutsideInv DEF ProbeRmux, Close, Works, bridge
<1>4. CASE Resolve
  <2>1. handling' = "dial" => session' \in Sessions /\ UNCHANGED cut
    <3>1. tasks \in Seq(Sessions)
      BY DEF CInv, Listed
    <3>2. tasks # <<>> => Head(tasks) \in Sessions
      BY <3>1
    <3> QED BY <1>4, <3>2 DEF Resolve, Close, Works, resolve_spec_id
  <2>2. /\ UNCHANGED <<factory, upstream, frames, upTask, downTask, before, screen>>
        /\ handling = "resolve" /\ handling' \in {"dial", "closing"}
    BY <1>4 DEF Resolve, Close, bridge
  <2> QED BY <1>1, <2>1, <2>2, OutsideInv
<1>5. CASE DialFails
  BY <1>5, OutsideInv DEF DialFails, Close, bridge
<1>6. CASE ConsoleEnds
  BY <1>6, OutsideInv DEF ConsoleEnds, bridge
<1> QED BY <1>2, <1>3, <1>4, <1>5, <1>6

LEMMA DialInv == CInv /\ Dial => CInv'
<1> SUFFICES ASSUME CInv, Dial PROVE CInv'
  OBVIOUS
<1>1. /\ handling = "dial" /\ session \in running /\ upstream' = "open" /\ handling' = "bridge"
      /\ frames' = <<Connected>> /\ before' = output[session]
      /\ upTask' = "runs" /\ downTask' = "runs"
      /\ UNCHANGED <<tasks, running, output, session, screen, cockpit, cut>>
  BY DEF Dial, Works, factory
<1>2. /\ frames' \in Seq(Nat) /\ Len(frames') = 1 /\ frames'[1] = 0 /\ frames' # <<>>
  BY <1>1 DEF Connected
<1>3. screen = <<>> /\ ~cut
  BY <1>1 DEF CInv, Bridged
<1>4. output[session] \in Nat
  BY <1>1 DEF CInv, Listed
<1>5. Streams' /\ Listed'
  BY <1>1, <1>2, <1>4 DEF CInv, Streams, Listed
<1>6. Bridged'
  BY <1>1, <1>3 DEF CInv, Bridged, Listed
<1>7. Greeting' = 1
  BY <1>2 DEF Greeting, Connected
<1>8. Len(screen') = 0 /\ ShowsOneSession'
  BY <1>1, <1>3 DEF ShowsOneSession
<1>9. Continued'
  BY <1>1, <1>2, <1>4, <1>7, <1>8 DEF Continued
<1> QED BY <1>5, <1>6, <1>8, <1>9 DEF CInv

\* One frame goes from the factory's socket to the cockpit's.
LEMMA PumpInv == CInv /\ Pump => CInv'
<1> SUFFICES ASSUME CInv, Pump PROVE CInv'
  OBVIOUS
<1>1. /\ handling = "bridge" /\ frames # <<>> /\ frames' = Tail(frames)
      /\ UNCHANGED <<tasks, running, output, handling, session, upstream, downTask, before, cockpit, cut>>
  BY DEF Pump, factory
<1>2. frames \in Seq(Nat) /\ screen \in Seq(Nat) /\ before \in Nat
  BY DEF CInv, Streams
<1>3. /\ Len(frames) \in Nat \ {0} /\ frames' \in Seq(Nat) /\ Len(frames') = Len(frames) - 1
      /\ \A i \in 1..Len(frames') : frames'[i] = frames[i + 1]
      /\ Head(frames) = frames[1] /\ frames[1] \in Nat /\ Len(screen) \in Nat
  BY <1>1, <1>2
<1>4. Listed' /\ Bridged'
  <2>1. screen' = screen \/ handling \notin {"accepted", "resolve", "dial"}
    BY <1>1
  <2> QED BY <1>1, <2>1 DEF CInv, Listed, Bridged
<1>5. \/ screen' = screen
      \/ screen' = Append(screen, frames[1]) /\ cockpit = "open" /\ frames[1] # Connected
  BY <1>3 DEF Pump, is_control_frame
<1>6. screen' \in Seq(Nat)
  <2>1. Append(screen, frames[1]) \in Seq(Nat)
    BY <1>2, <1>3
  <2> QED BY <1>2, <1>5, <2>1
<1>7. CASE cockpit # "open"
  <2>1. screen' = screen
    BY <1>5, <1>7
  <2> QED BY <1>1, <1>2, <1>3, <1>4, <1>7, <2>1 DEF CInv, Streams, Continued, ShowsOneSession
<1>8. CASE cockpit = "open"
  <2>1. /\ \A i \in 1..Len(frames) : i > Greeting => frames[i] = before + Len(screen) + i - Greeting
        /\ ~cut => before + Len(screen) + Len(frames) = output[session] + Greeting
        /\ downTask = "runs" /\ upTask # "done"
    BY <1>1, <1>8 DEF CInv, Continued, Pump
  <2>2. upTask' = upTask
    BY <1>8 DEF Pump
  <2>3. Len(frames') > 0 => frames'[1] = before + Len(screen) + 2 - Greeting
    <3>1. Greeting \in {0, 1}
      BY DEF Greeting
    <3>2. Len(frames) > 1 => frames[2] = before + Len(screen) + 2 - Greeting
      BY <1>3, <2>1, <3>1
    <3> QED BY <1>3, <3>2
  <2>4. Greeting' = 0
    <3>1. Greeting \in {0, 1}
      BY DEF Greeting
    <3>2. frames' # <<>> => Len(frames') > 0
      BY <1>3
    <3>3. Len(frames') > 0 => frames'[1] # 0
      BY <1>2, <1>3, <2>3, <3>1
    <3> QED BY <3>2, <3>3 DEF Greeting, Connected
  <2>5. output[session] \in Nat
    BY <1>1 DEF CInv, Listed, Bridged
  <2>6. CASE frames[1] = Connected
    <3>1. Greeting = 1 /\ screen' = screen
      BY <1>1, <1>5, <2>6, <1>3 DEF Greeting, Pump, is_control_frame
    <3>2. ASSUME NEW i \in 1..Len(frames') PROVE frames'[i] = before + Len(screen) + i
      <4>1. i + 1 \in 1..Len(frames) /\ i + 1 > Greeting /\ frames'[i] = frames[i + 1]
        BY <1>3, <3>1
      <4> QED BY <1>2, <1>3, <2>1, <3>1, <4>1
    <3>3. ~cut => before + Len(screen) + Len(frames') = output[session]
      BY <1>2, <1>3, <2>1, <2>5, <3>1
    <3>4. Continued'
      BY <1>1, <1>2, <1>3, <2>1, <2>2, <2>4, <2>5, <3>1, <3>2, <3>3 DEF Continued
    <3> QED BY <1>1, <1>3, <1>4, <1>6, <3>1, <3>4 DEF CInv, Streams, ShowsOneSession
  <2>7. CASE frames[1] # Connected
    <3>1. Greeting = 0 /\ screen' = Append(screen, frames[1])
      BY <1>3, <1>8, <2>7 DEF Greeting, Pump, is_control_frame
    <3>2. frames[1] = before + Len(screen) + 1
      BY <1>2, <1>3, <2>1, <3>1
    <3>3. /\ Len(screen') = Len(screen) + 1 /\ screen'[Len(screen) + 1] = frames[1]
          /\ \A i \in 1..Len(screen) : screen'[i] = screen[i]
          /\ DOMAIN screen = 1..Len(screen) /\ DOMAIN screen' = 1..Len(screen')
      BY <1>2, <1>3, <3>1
    <3>4. ShowsOneSession'
      <4> SUFFICES ASSUME NEW i \in 1..Len(screen) + 1
                   PROVE  screen'[i] = before + i
        BY <1>1, <3>3 DEF ShowsOneSession
      <4>1. CASE i \in 1..Len(screen)
        BY <3>3, <4>1 DEF CInv, ShowsOneSession
      <4>2. CASE i = Len(screen) + 1
        BY <1>2, <1>3, <3>2, <3>3, <4>2
      <4> QED BY <1>3, <4>1, <4>2
    <3>5. ASSUME NEW i \in 1..Len(frames') PROVE frames'[i] = before + Len(screen') + i
      <4>1. i + 1 \in 1..Len(frames) /\ i + 1 > Greeting /\ frames'[i] = frames[i + 1]
        BY <1>3, <3>1
      <4> QED BY <1>2, <1>3, <2>1, <3>1, <3>3, <4>1
    <3>6. ~cut => before + Len(screen') + Len(frames') = output[session]
      BY <1>2, <1>3, <2>1, <2>5, <3>1, <3>3
    <3>7. Continued'
      BY <1>1, <1>2, <1>3, <2>1, <2>2, <2>4, <2>5, <3>3, <3>5, <3>6 DEF Continued
    <3> QED BY <1>1, <1>2, <1>3, <1>4, <1>6, <3>4, <3>7 DEF CInv, Streams
  <2> QED BY <2>6, <2>7
<1> QED BY <1>7, <1>8

LEMMA BridgeInv == CInv /\ (PumpEnds \/ Drain \/ Teardown) => CInv'
<1> SUFFICES ASSUME CInv, PumpEnds \/ Drain \/ Teardown PROVE CInv'
  OBVIOUS
<1>1. CASE PumpEnds
  BY <1>1 DEF PumpEnds, upstream_exhausted, CInv, Streams, Listed, Bridged, Continued, Greeting,
              ShowsOneSession, factory
<1>2. CASE Drain
  BY <1>2 DEF Drain, CInv, Streams, Listed, Bridged, Continued, ShowsOneSession, factory
<1>3. CASE Teardown
  BY <1>3 DEF Teardown, Close, CInv, Streams, Listed, Bridged, Continued, ShowsOneSession, factory
<1> QED BY <1>1, <1>2, <1>3

LEMMA NextCInv == CInv /\ [ConsoleNext]_consoleVars => CInv'
<1> SUFFICES ASSUME CInv, [ConsoleNext]_consoleVars PROVE CInv'
  OBVIOUS
<1>1. CASE discover_live_agents \/ UNCHANGED consoleVars
  <2>1. /\ UNCHANGED <<tasks, running, output, handling, session, cockpit, cut>>
        /\ UNCHANGED <<upstream, frames, upTask, downTask, screen, before>>
    BY <1>1 DEF discover_live_agents, consoleVars, factory, bridge
  <2>2. Streams' /\ Listed' /\ Bridged' /\ ShowsOneSession'
    BY <2>1 DEF CInv, Streams, Listed, Bridged, ShowsOneSession
  <2>3. Continued'
    BY <2>1 DEF CInv, Continued, Greeting
  <2> QED BY <2>2, <2>3 DEF CInv
<1>2. CASE Leave
  BY <1>2 DEF Leave, factory, bridge, CInv, Streams, Listed, Bridged, Continued, ShowsOneSession
<1> QED BY <1>1, <1>2, StartInv, WriteInv, EndInv, BreakInv, ApproachInv, DialInv, PumpInv, BridgeInv
        DEF ConsoleNext

THEOREM ConsoleInductive == ConsoleSpec => []CInv
BY InitCInv, NextCInv, PTL DEF ConsoleSpec

\* What is on the screen is what one session wrote, in order, from the moment
\* it was dialled (live_agent_proxy.py:150-163).
THEOREM OneSessionShown == ConsoleSpec => []ShowsOneSession
BY ConsoleInductive, PTL DEF CInv

\* A bridge that is torn down before its viewer left has shown what the session wrote.
LEMMA EndsShown ==
    ASSUME CInv, Teardown, cockpit = "open"
    PROVE  \/ cut
           \/ session \notin running /\ before + Len(screen) = output[session]
<1>1. handling = "bridge" /\ upTask = "done" /\ downTask = "runs"
  BY DEF Teardown, one_side_ended, CInv, Continued
<1>2. upstream = "ended" /\ frames = <<>>
  BY <1>1 DEF CInv, Continued
<1>3. ~cut => before + Len(screen) + Len(frames) = output[session] + Greeting
  BY <1>1 DEF CInv, Continued
<1>4. Len(frames) = 0 /\ Greeting = 0 /\ output[session] \in Nat /\ before + Len(screen) \in Nat
  BY <1>1, <1>2 DEF Greeting, CInv, Streams, Listed, Bridged
<1> QED BY <1>2, <1>3, <1>4 DEF CInv, Bridged

\* A viewer who stays is shown a session to its end (live_agent_proxy.py:165-190).
THEOREM SessionsAreShownToTheirEnd == ConsoleSpec => LastFramesArrive
<1> DEFINE ToItsEnd == cockpit = "open" /\ cockpit' = SessionEnded /\ ~cut =>
                          session \notin running /\ before + Len(screen) = output[session]
<1>1. CInv /\ [ConsoleNext]_consoleVars => [ToItsEnd]_consoleVars
  <2> SUFFICES ASSUME CInv, ConsoleNext, cockpit = "open", cockpit' = SessionEnded, ~cut
               PROVE  session \notin running /\ before + Len(screen) = output[session]
    OBVIOUS
  <2>1. Teardown
    <3>1. SessionEnded \notin {"open", "left", WS_NO_AGENT, WS_UPSTREAM_DOWN}
      BY DEF SessionEnded, WS_NO_AGENT, WS_UPSTREAM_DOWN
    <3>2. cockpit' # cockpit /\ cockpit' \notin {"open", "left", WS_NO_AGENT, WS_UPSTREAM_DOWN}
      BY <3>1
    <3>3. ~(\E s \in Sessions : StartSession(s) \/ WriteOutput(s) \/ End(s))
      BY <3>2 DEF StartSession, WriteOutput, End
    <3>4. ~(Break \/ discover_live_agents \/ Watch \/ Leave)
      BY <3>2 DEF Break, discover_live_agents, Watch, Leave
    <3>5. ~(ProbeRmux \/ Resolve \/ Dial \/ DialFails)
      BY <3>2 DEF ProbeRmux, Resolve, Dial, DialFails, Close
    <3>6. ~(Pump \/ PumpEnds \/ Drain \/ ConsoleEnds)
      BY <3>2 DEF Pump, PumpEnds, Drain, ConsoleEnds
    <3> QED BY <3>3, <3>4, <3>5, <3>6 DEF ConsoleNext
  <2> QED BY <2>1, EndsShown
<1> QED BY <1>1, ConsoleInductive, PTL DEF ConsoleSpec, LastFramesArrive

-----------------------------------------------------------------------------
(* The console implements ConsoleView.                                       *)

\* The session that the visit follows.
Follows ==
    IF handling = "bridge" THEN session
    ELSE IF handling \in {"accepted", "resolve", "dial"} THEN "choosing"
    ELSE NoSession

\* A connection that broke took with it what was under way.
Quiet == handling = "bridge" /\ cut => frames = <<>>

LEMMA QuietStays == CInv /\ Quiet /\ [ConsoleNext]_consoleVars => Quiet'
<1> SUFFICES ASSUME CInv, Quiet, [ConsoleNext]_consoleVars PROVE Quiet'
  OBVIOUS
<1>1. ASSUME NEW s \in Sessions, StartSession(s) \/ WriteOutput(s) \/ End(s) PROVE Quiet'
  BY <1>1 DEF StartSession, WriteOutput, End, Quiet, CInv, Bridged, bridge
<1>2. CASE Break \/ discover_live_agents \/ Watch \/ Leave \/ UNCHANGED consoleVars
  BY <1>2 DEF Break, discover_live_agents, Watch, Leave, consoleVars, bridge, Quiet
<1>3. CASE ProbeRmux \/ Resolve \/ Dial \/ DialFails
  BY <1>3 DEF ProbeRmux, Resolve, Dial, DialFails, Works, Close, Quiet, CInv, Bridged
<1>4. CASE Pump \/ PumpEnds \/ Drain \/ Teardown \/ ConsoleEnds
  BY <1>4 DEF Pump, PumpEnds, Drain, Teardown, ConsoleEnds, Close, Quiet
<1> QED BY <1>1, <1>2, <1>3, <1>4 DEF ConsoleNext

LEMMA WhatIsFollowed ==
    ASSUME CInv
    PROVE  /\ handling = "bridge" => Follows = session /\ Follows \in Sessions
           /\ handling \in {"accepted", "resolve", "dial"} => Follows = "choosing"
           /\ handling \notin {"bridge", "accepted", "resolve", "dial"} => Follows = NoSession
           /\ "choosing" \notin Sessions /\ NoSession \notin Sessions
           /\ NoSession # "choosing"
<1>1. handling = "bridge" => session \in Sessions
  BY DEF CInv, Bridged
<1>2. "choosing" \notin Sessions /\ NoSession \notin Sessions
  BY SessionNames
<1>3. NoSession # "choosing"
  BY DEF NoSession
<1> QED BY <1>1, <1>2, <1>3 DEF Follows

LEMMA FollowedNext ==
    /\ handling' = "bridge" => Follows' = session'
    /\ handling' \in {"accepted", "resolve", "dial"} => Follows' = "choosing"
    /\ handling' \notin {"bridge", "accepted", "resolve", "dial"} => Follows' = NoSession
BY DEF Follows

\* What the visit does not see.
LEMMA StutterView ==
    ASSUME UNCHANGED <<running, output, cockpit, before, screen, cut>>, Follows' = Follows
    PROVE  UNCHANGED View!view
BY DEF View!view, View!agents, Follows

LEMMA AgentsView ==
    ASSUME CInv, NEW s \in Sessions, StartSession(s) \/ WriteOutput(s) \/ End(s)
    PROVE  View!Start(s) \/ View!Write(s) \/ View!Stop(s)
<1>1. /\ Follows' = Follows
      /\ UNCHANGED <<cockpit, before, screen, cut>>
  BY DEF StartSession, WriteOutput, End, bridge, Follows
<1>2. CASE StartSession(s)
  BY <1>1, <1>2 DEF StartSession, View!Start, Follows
<1>3. CASE WriteOutput(s)
  BY <1>1, <1>3 DEF WriteOutput, View!Write, Follows
<1>4. CASE End(s)
  BY <1>1, <1>4 DEF End, View!Stop, Follows
<1> QED BY <1>2, <1>3, <1>4

LEMMA VisitView ==
    ASSUME CInv, Watch \/ Leave \/ Break \/ Dial
    PROVE  View!Open \/ View!Leave \/ View!Fail \/ \E s \in Sessions : View!Follow(s)
<1>1. CASE Watch
  <2>1. /\ Follows = NoSession /\ Follows' = "choosing"
        /\ cockpit # "open" /\ cockpit' = "open" /\ screen' = <<>> /\ cut' = FALSE
        /\ UNCHANGED <<running, output, before>>
    BY <1>1, WhatIsFollowed, FollowedNext DEF Watch, factory
  <2> QED BY <2>1 DEF View!Open, View!agents, Follows
<1>2. CASE Leave
  <2>1. /\ Follows' = Follows /\ cockpit = "open" /\ cockpit' = "left"
        /\ UNCHANGED <<running, output, before, screen, cut>>
    BY <1>2 DEF Leave, factory, bridge, Follows
  <2> QED BY <2>1 DEF View!Leave, View!agents, Follows
<1>3. CASE Break
  <2>1. /\ Follows' = Follows /\ Follows \in Sessions /\ cut' = TRUE
        /\ UNCHANGED <<running, output, cockpit, before, screen>>
    <3>1. handling = "bridge"
      BY <1>3 DEF Break, CInv, Bridged
    <3> QED BY <1>3, <3>1, WhatIsFollowed DEF Break, Fails, factory, Follows
  <2> QED BY <2>1 DEF View!Fail, View!agents, Follows
<1>4. CASE Dial
  <2>1. /\ Follows = "choosing" /\ Follows' = session /\ session \in running /\ session \in Sessions
        /\ ~cut /\ screen = <<>> /\ before' = output[session]
        /\ UNCHANGED <<running, output, cockpit, screen, cut>>
    BY <1>4, WhatIsFollowed, FollowedNext DEF Dial, Works, factory, CInv, Bridged
  <2>2. View!Follow(session)
    BY <2>1 DEF View!Follow, View!agents, Follows
  <2> QED BY <2>1, <2>2
<1> QED BY <1>1, <1>2, <1>3, <1>4

\* A frame that is pumped is the next one the session wrote, and nothing is
\* pumped after a failure.
LEMMA PumpView ==
    ASSUME CInv, Quiet, Pump PROVE View!Show \/ UNCHANGED View!view
<1>1. /\ handling = "bridge" /\ frames # <<>> /\ upTask = "runs" /\ ~cut
      /\ UNCHANGED <<running, output, handling, session, cockpit, before, cut>>
  BY DEF Pump, Quiet, factory
<1>2. Follows' = Follows /\ Follows = session /\ session \in Sessions
  BY <1>1, WhatIsFollowed DEF Follows
<1>3. CASE screen' = screen
  BY <1>1, <1>2, <1>3, StutterView
<1>4. CASE screen' # screen
  <2>1. cockpit = "open" /\ screen' = Append(screen, Head(frames)) /\ Head(frames) # Connected
    BY <1>4 DEF Pump, is_control_frame
  <2>2. /\ frames \in Seq(Nat) /\ Len(frames) \in Nat /\ Len(frames) > 0 /\ Head(frames) = frames[1]
        /\ screen \in Seq(Nat) /\ Len(screen) \in Nat /\ before \in Nat /\ output[session] \in Nat
    BY <1>1, <1>2 DEF CInv, Streams, Listed
  <2>3. Greeting = 0
    BY <2>1, <2>2 DEF Greeting
  <2>4. /\ frames[1] = before + Len(screen) + 1
        /\ before + Len(screen) + Len(frames) = output[session]
    BY <1>1, <2>1, <2>2, <2>3 DEF CInv, Continued
  <2>5. /\ before + Len(screen) + 1 <= output[session]
        /\ screen' = Append(screen, before + Len(screen) + 1)
    BY <2>1, <2>2, <2>4
  <2> QED BY <1>1, <1>2, <2>1, <2>5 DEF View!Show, View!NextFrame, View!agents, Follows
<1> QED BY <1>3, <1>4

\* A visit that is over has closed its socket, with its reason.
LEMMA OverView ==
    ASSUME CInv, NEW code, Close(code), UNCHANGED <<running, output, before, screen>>,
           cut => cut',
           \/ handling = "bridge" /\ code = SessionEnded
                 /\ (cockpit = "open" =>
                        cut \/ (session \notin running /\ before + Len(screen) = output[session]))
           \/ handling \in {"accepted", "resolve", "dial"} /\ code \in {WS_NO_AGENT, WS_UPSTREAM_DOWN}
    PROVE  View!Over
<1>1. Follows' = NoSession /\ Follows # NoSession
  BY WhatIsFollowed, FollowedNext DEF Close
<1>2. cockpit' = IF cockpit = "open" THEN code ELSE cockpit
  BY DEF Close
<1>3. CASE handling = "bridge"
  <2>1. Follows = session /\ Follows # "choosing"
    BY <1>3, WhatIsFollowed
  <2> QED BY <1>1, <1>2, <1>3, <2>1 DEF View!Over, View!ShownToItsEnd, View!agents, Follows
<1>4. CASE handling # "bridge"
  <2>1. Follows = "choosing"
    BY <1>4, WhatIsFollowed
  <2> QED BY <1>1, <1>2, <1>4, <2>1 DEF View!Over, View!agents, Follows
<1> QED BY <1>3, <1>4

LEMMA HandlerView ==
    ASSUME CInv, ProbeRmux \/ Resolve \/ DialFails \/ Teardown
    PROVE  View!Over \/ UNCHANGED View!view
<1>1. UNCHANGED <<running, output, before, screen>>
  BY DEF ProbeRmux, Resolve, DialFails, Teardown, factory, bridge
<1>2. cut => cut'
  BY DEF ProbeRmux, Resolve, DialFails, Teardown, Works, Fails
<1>3. CASE handling' \in {"resolve", "dial"}
  <2>1. UNCHANGED <<cockpit, cut>> /\ handling \in {"accepted", "resolve"}
    BY <1>3 DEF ProbeRmux, Resolve, DialFails, Teardown, Works, Close, CInv, Bridged
  <2> QED BY <1>1, <1>3, <2>1, WhatIsFollowed, FollowedNext, StutterView
<1>4. CASE handling' \notin {"resolve", "dial"} /\ ~Teardown
  <2>1. \E code \in {WS_NO_AGENT, WS_UPSTREAM_DOWN} : Close(code)
    BY <1>4 DEF ProbeRmux, Resolve, DialFails
  <2>2. handling \in {"accepted", "resolve", "dial"}
    BY <1>4 DEF ProbeRmux, Resolve, DialFails
  <2> QED BY <1>1, <1>2, <2>1, <2>2, OverView
<1>5. CASE Teardown
  <2>1. handling = "bridge" /\ Close(SessionEnded)
    BY <1>5 DEF Teardown
  <2> QED BY <1>1, <1>2, <1>5, <2>1, EndsShown, OverView
<1> QED BY <1>3, <1>4, <1>5

LEMMA RestView ==
    ASSUME CInv, discover_live_agents \/ PumpEnds \/ Drain \/ ConsoleEnds \/ UNCHANGED consoleVars
    PROVE  UNCHANGED View!view
<1>1. UNCHANGED <<running, output, cockpit, before, screen, cut>>
  BY DEF discover_live_agents, PumpEnds, Drain, ConsoleEnds, consoleVars, factory, bridge
<1>2. Follows' = Follows
  BY DEF discover_live_agents, PumpEnds, Drain, ConsoleEnds, consoleVars, bridge, Follows
<1> QED BY <1>1, <1>2, StutterView

\* A console keeps what ConsoleView promises: it follows one session from its
\* choice to its end and says why it is over (live_agent_proxy.py:98-190).
THEOREM ConsolesFollowOneSession == ConsoleSpec => FollowsOneSession
<1>1. ConsoleInit => View!Init /\ Quiet
  BY DEF ConsoleInit, View!Init, Quiet
<1>2. CInv /\ Quiet /\ [ConsoleNext]_consoleVars => [View!Next]_View!view
  <2> SUFFICES ASSUME CInv, Quiet, [ConsoleNext]_consoleVars
               PROVE  View!Next \/ UNCHANGED View!view
    OBVIOUS
  <2>1. ASSUME NEW s \in Sessions, StartSession(s) \/ WriteOutput(s) \/ End(s)
        PROVE  View!Next
    BY <2>1, AgentsView DEF View!Next
  <2>2. CASE Watch \/ Leave \/ Break \/ Dial
    BY <2>2, VisitView DEF View!Next
  <2>3. CASE Pump
    BY <2>3, PumpView DEF View!Next
  <2>4. CASE ProbeRmux \/ Resolve \/ DialFails \/ Teardown
    BY <2>4, HandlerView DEF View!Next
  <2>5. CASE discover_live_agents \/ PumpEnds \/ Drain \/ ConsoleEnds \/ UNCHANGED consoleVars
    BY <2>5, RestView
  <2> QED BY <2>1, <2>2, <2>3, <2>4, <2>5 DEF ConsoleNext
<1> QED BY <1>1, <1>2, QuietStays, ConsoleInductive, PTL DEF ConsoleSpec, FollowsOneSession, View!Spec

-----------------------------------------------------------------------------
(* The feed.                                                                 *)

Task == [pc : {"idle", "card", "hydrated", "read", "send"},
         frame : Frames, to : SUBSET Sockets, dead : SUBSET Sockets]
Handler == [pc : {"closed", "accepted", "read", "drain"}, snapshot : Frames]

FeedTypes ==
    /\ stored \in Board
    /\ writes \in 0 .. MaxWrites
    /\ task \in [Broadcasters -> Task]
    /\ active \subseteq Sockets
    /\ handler \in [Sockets -> Handler]
    /\ browser \in [Cockpits -> [attempt : Nat \ {0}, open : BOOLEAN]]
    /\ \A c \in Cockpits : browser[c].attempt <= feedMishaps + 1
    /\ told \in [Cockpits -> SUBSET RowKeys]
    /\ feedMishaps \in 0 .. MaxFeedMishaps

\* A socket that was opened once.
Opened(s) ==
    \/ s[2] < browser[s[1]].attempt
    \/ s[2] = browser[s[1]].attempt /\ browser[s[1]].open

\* The manager and its broadcasts hold sockets that were opened, and give up
\* none that still is.
Held ==
    /\ \A s \in active : Opened(s)
    /\ \A t \in Broadcasters : \A s \in task[t].to \cup task[t].dead : Opened(s)
    /\ \A c \in Cockpits :
          browser[c].open => /\ SocketOf(c) \in active
                             /\ \A t \in Broadcasters : SocketOf(c) \notin task[t].dead
    /\ \A s \in Sockets : handler[s].pc = "read" => handler[s].snapshot \in Board

Carries(t, c, k) ==
    \/ task[t].pc = "hydrated"
    \/ /\ task[t].pc \in {"card", "read"}
       /\ k \in DOMAIN task[t].frame
       /\ task[t].frame[k] = stored[k]
    \/ /\ SocketOf(c) \in task[t].to
       /\ k \in DOMAIN task[t].frame
       /\ task[t].frame[k] = stored[k]

\* The newest version of a row is in the snapshot a browser is about to be
\* sent, has gone out to it, or is on its way.
Reached(c, k) ==
    \/ handler[SocketOf(c)].pc = "read" /\ handler[SocketOf(c)].snapshot[k] = stored[k]
    \/ k \in told[c] \cup untold
    \/ \E t \in Broadcasters : Carries(t, c, k)

Attended ==
    \A c \in Cockpits :
        browser[c].open /\ handler[SocketOf(c)].pc \in {"read", "drain"} =>
            \A k \in RowKeys : Reached(c, k)

FInv == FeedTypes /\ Held /\ Attended

LEMMA AttendedSuffices == FInv => NothingFallsBetween
BY DEF FInv, Attended, Reached, Carries, NothingFallsBetween, IsOnItsWay

LEMMA FrameTypes ==
    /\ NoFrame \in Frames
    /\ Board \subseteq Frames
    /\ \A k \in RowKeys, v \in 0 .. MaxWrites :
          /\ event_frame(k, v) \in Frames
          /\ DOMAIN event_frame(k, v) = {k} /\ event_frame(k, v)[k] = v
<1>1. \A some \in SUBSET RowKeys : [some -> 0 .. MaxWrites] \subseteq Frames
  BY DEF Frames
<1>2. NoFrame \in [{} -> 0 .. MaxWrites]
  BY DEF NoFrame
<1>3. ASSUME NEW k \in RowKeys, NEW v \in 0 .. MaxWrites
      PROVE  /\ event_frame(k, v) \in [{k} -> 0 .. MaxWrites]
             /\ DOMAIN event_frame(k, v) = {k} /\ event_frame(k, v)[k] = v
  BY <1>3 DEF event_frame
<1> QED BY <1>1, <1>2, <1>3 DEF Board

LEMMA IdleIsTask == IdleTask \in Task /\ IdleTask.pc = "idle" /\ IdleTask.to = {} /\ IdleTask.dead = {}
BY FrameTypes DEF IdleTask, Task

LEMMA ClosedIsHandler == Closed \in Handler /\ Closed.pc = "closed"
BY FrameTypes DEF Closed, Handler

LEMMA SocketsOpen ==
    ASSUME FeedTypes, NEW c \in Cockpits
    PROVE  SocketOf(c) \in Sockets /\ SocketOf(c)[1] = c /\ SocketOf(c)[2] = browser[c].attempt
BY FeedBounds DEF FeedTypes, SocketOf, Sockets, Attempts

LEMMA InitFInv == FeedInit => FInv
<1> SUFFICES ASSUME FeedInit PROVE FInv
  OBVIOUS
<1>1. FeedTypes
  BY IdleIsTask, ClosedIsHandler, FeedBounds DEF FeedInit, FeedTypes, Board
<1>2. Held
  BY IdleIsTask, ClosedIsHandler DEF FeedInit, Held
<1>3. Attended
  BY DEF FeedInit, Attended
<1> QED BY <1>1, <1>2, <1>3 DEF FInv

-----------------------------------------------------------------------------
(* The broadcasts.                                                           *)

\* A broadcaster goes on, and the rest of the feed stays.
LEMMA TaskStep ==
    ASSUME FInv, NEW t \in Broadcasters, NEW x \in Task, task' = [task EXCEPT ![t] = x],
           UNCHANGED <<handler, browser>>, active' \subseteq active,
           feedMishaps' \in feedMishaps .. MaxFeedMishaps,
           stored' \in Board, writes' \in 0 .. MaxWrites, told' \in [Cockpits -> SUBSET RowKeys],
           \A s \in x.to \cup x.dead : Opened(s),
           \A c \in Cockpits : browser[c].open => SocketOf(c) \notin x.dead /\ SocketOf(c) \in active',
           \A c \in Cockpits, k \in RowKeys :
              browser[c].open /\ Reached(c, k) =>
                 \/ Carries(t, c, k)' \/ k \in told'[c] \cup untold'
                 \/ /\ stored'[k] = stored[k]
                    /\ ~(k \in told[c] \cup untold) /\ ~Carries(t, c, k)
    PROVE  FInv'
<1>1. /\ task' \in [Broadcasters -> Task] /\ task'[t] = x
      /\ \A u \in Broadcasters \ {t} : task'[u] = task[u]
  BY DEF FInv, FeedTypes
<1>2. \A c : SocketOf(c)' = SocketOf(c)
  BY DEF SocketOf
<1>3. FeedTypes'
  BY <1>1 DEF FInv, FeedTypes
<1>4. Held'
  <2>1. \A s : Opened(s)' <=> Opened(s)
    BY DEF Opened
  <2> QED BY <1>1, <1>2, <2>1 DEF FInv, Held
<1>5. ASSUME NEW c \in Cockpits, browser[c].open,
             handler[SocketOf(c)].pc \in {"read", "drain"}, NEW k \in RowKeys
      PROVE  Reached(c, k)'
  <2>1. Reached(c, k)
    BY <1>5 DEF FInv, Attended
  <2>2. CASE Carries(t, c, k)' \/ k \in told'[c] \cup untold'
    BY <2>2 DEF Reached
  <2>3. CASE /\ stored'[k] = stored[k]
             /\ ~(k \in told[c] \cup untold) /\ ~Carries(t, c, k)
    <3>1. \A u \in Broadcasters \ {t} : Carries(u, c, k) => Carries(u, c, k)'
      BY <1>1, <1>2, <2>3 DEF Carries
    <3>2. CASE \E u \in Broadcasters : Carries(u, c, k)
      BY <2>3, <3>1, <3>2 DEF Reached
    <3>3. CASE handler[SocketOf(c)].pc = "read" /\ handler[SocketOf(c)].snapshot[k] = stored[k]
      BY <1>2, <2>3, <3>3 DEF Reached
    <3> QED BY <2>1, <2>3, <3>2, <3>3 DEF Reached
  <2> QED BY <1>5, <2>1, <2>2, <2>3
<1>6. Attended'
  BY <1>2, <1>5 DEF Attended
<1> QED BY <1>3, <1>4, <1>6 DEF FInv

LEMMA BroadcastInv == ASSUME FInv, NEW t \in Broadcasters, Broadcast(t) PROVE FInv'
<1> DEFINE x == [task[t] EXCEPT !.pc = "send", !.to = active]
<1>1. task[t] \in Task /\ active \subseteq Sockets
  BY DEF FInv, FeedTypes
<1>2. /\ x \in Task /\ x.pc = "send" /\ x.to = active /\ x.dead = task[t].dead
      /\ x.frame = task[t].frame
  BY <1>1 DEF Task
<1>3. /\ task' = [task EXCEPT ![t] = x]
      /\ UNCHANGED <<stored, writes, active, handler, browser, feedMishaps, told, untold>>
  BY <1>1 DEF Broadcast, client, history, FInv, FeedTypes
<1> HIDE DEF x
<1>4. task'[t] = x
  BY <1>3 DEF FInv, FeedTypes
<1>5. /\ \A s \in x.to \cup x.dead : Opened(s)
      /\ \A c \in Cockpits : browser[c].open => SocketOf(c) \notin x.dead /\ SocketOf(c) \in active'
  BY <1>2, <1>3 DEF FInv, Held
<1>6. ASSUME NEW c \in Cockpits, NEW k \in RowKeys, browser[c].open, Carries(t, c, k)
      PROVE  Carries(t, c, k)'
  BY <1>2, <1>3, <1>4, <1>5, <1>6 DEF Carries, Broadcast, SocketOf, FInv, Held
<1>7. feedMishaps' \in feedMishaps .. MaxFeedMishaps /\ stored' \in Board /\ writes' \in 0 .. MaxWrites
      /\ told' \in [Cockpits -> SUBSET RowKeys]
  BY <1>3 DEF FInv, FeedTypes
<1> QED BY <1>2, <1>3, <1>5, <1>6, <1>7, TaskStep

\* The sockets of a broadcaster that starts anew.
LEMMA FreshTask ==
    ASSUME FInv, NEW x, x.to = {}, x.dead = {}
    PROVE  /\ \A s \in x.to \cup x.dead : Opened(s)
           /\ \A c \in Cockpits : browser[c].open => SocketOf(c) \notin x.dead /\ SocketOf(c) \in active
BY DEF FInv, Held

LEMMA IdleCarriesNothing ==
    ASSUME NEW t \in Broadcasters, task[t].pc = "idle", task[t].to = {}, NEW c, NEW k
    PROVE  ~Carries(t, c, k)
BY DEF Carries

LEMMA SendFrameInv == ASSUME FInv, NEW t \in Broadcasters, SendFrame(t) PROVE FInv'
<1>1. PICK s \in task[t].to :
         IF IsOpen(s)
         THEN /\ task' = [task EXCEPT ![t].to = @ \ {s}]
              /\ Transmit(s, task[t].frame)
         ELSE /\ task' = [task EXCEPT ![t].to = @ \ {s}, ![t].dead = @ \cup {s}]
              /\ UNCHANGED <<wire, told>>
  BY DEF SendFrame
<1>2. /\ UNCHANGED <<stored, writes, active, handler, browser, feedMishaps, untold>>
      /\ task[t].pc = "send"
  BY DEF SendFrame
<1>3. /\ task[t] \in Task /\ s \in Sockets /\ Opened(s)
      /\ \A u \in task[t].to \cup task[t].dead : Opened(u)
      /\ \A c \in Cockpits : browser[c].open => SocketOf(c) \in active /\ SocketOf(c) \notin task[t].dead
  BY DEF FInv, FeedTypes, Held, Task
<1>4. /\ feedMishaps' \in feedMishaps .. MaxFeedMishaps /\ stored' \in Board
      /\ writes' \in 0 .. MaxWrites
  BY <1>2 DEF FInv, FeedTypes
<1>5. CASE IsOpen(s)
  <2> DEFINE x == [task[t] EXCEPT !.to = @ \ {s}]
             sent == {k \in DOMAIN task[t].frame : task[t].frame[k] = stored[k]}
  <2>1. /\ x \in Task /\ x.pc = "send" /\ x.to = task[t].to \ {s} /\ x.dead = task[t].dead
        /\ x.frame = task[t].frame
    BY <1>2, <1>3 DEF Task
  <2>2. task' = [task EXCEPT ![t] = x]
    BY <1>1, <1>5 DEF FInv, FeedTypes
  <2>3. s[1] \in Cockpits /\ told' = [told EXCEPT ![s[1]] = @ \cup sent]
    BY <1>1, <1>3, <1>5 DEF Transmit, Sockets
  <2>4. sent \subseteq RowKeys
    BY <1>3 DEF Task, Frames
  <2> HIDE DEF x, sent
  <2>5. told' \in [Cockpits -> SUBSET RowKeys] /\ \A c \in Cockpits : told[c] \subseteq told'[c]
    BY <2>3, <2>4 DEF FInv, FeedTypes
  <2>6. task'[t] = x
    BY <2>2 DEF FInv, FeedTypes
  <2>7. ASSUME NEW c \in Cockpits, NEW k \in RowKeys, browser[c].open, Carries(t, c, k)
        PROVE  Carries(t, c, k)' \/ k \in told'[c]
    <3>1. /\ SocketOf(c) \in task[t].to /\ k \in DOMAIN task[t].frame
          /\ task[t].frame[k] = stored[k]
      BY <1>2, <2>7 DEF Carries
    <3>2. CASE SocketOf(c) = s
      <4>1. s[1] = c
        BY <3>2, SocketsOpen DEF FInv
      <4>2. k \in sent
        BY <3>1 DEF sent
      <4> QED BY <2>3, <4>1, <4>2 DEF FInv, FeedTypes
    <3>3. CASE SocketOf(c) # s
      <4>1. SocketOf(c)' = SocketOf(c) /\ SocketOf(c) \in x.to
        BY <1>2, <2>1, <3>1, <3>3 DEF SocketOf
      <4> QED BY <1>2, <2>1, <2>6, <3>1, <4>1 DEF Carries
    <3> QED BY <3>2, <3>3
  <2> QED BY <1>2, <1>3, <1>4, <2>1, <2>2, <2>5, <2>7, TaskStep
<1>6. CASE ~IsOpen(s)
  <2> DEFINE x == [task[t] EXCEPT !.to = @ \ {s}, !.dead = @ \cup {s}]
  <2>1. /\ x \in Task /\ x.pc = "send" /\ x.to = task[t].to \ {s} /\ x.dead = task[t].dead \cup {s}
        /\ x.frame = task[t].frame
    BY <1>2, <1>3 DEF Task
  <2>2. task' = [task EXCEPT ![t] = x] /\ UNCHANGED told
    BY <1>1, <1>6 DEF FInv, FeedTypes
  <2> HIDE DEF x
  <2>3. \A c \in Cockpits : browser[c].open => SocketOf(c) # s
    BY <1>6, SocketsOpen DEF IsOpen, FInv
  <2>4. task'[t] = x /\ told' \in [Cockpits -> SUBSET RowKeys]
    BY <2>2 DEF FInv, FeedTypes
  <2>5. ASSUME NEW c \in Cockpits, NEW k \in RowKeys, browser[c].open, Carries(t, c, k)
        PROVE  Carries(t, c, k)'
    <3>1. SocketOf(c)' = SocketOf(c)
      BY <1>2 DEF SocketOf
    <3> QED BY <1>2, <2>1, <2>3, <2>4, <2>5, <3>1 DEF Carries
  <2>6. /\ \A u \in x.to \cup x.dead : Opened(u)
        /\ \A c \in Cockpits : browser[c].open => SocketOf(c) \notin x.dead /\ SocketOf(c) \in active'
    BY <1>2, <1>3, <2>1, <2>3
  <2>7. \A c \in Cockpits, k \in RowKeys :
           browser[c].open =>
              \/ Carries(t, c, k)' \/ k \in told'[c] \cup untold'
              \/ stored'[k] = stored[k] /\ k \notin told[c] \cup untold /\ ~Carries(t, c, k)
    BY <1>2, <2>2, <2>5
  <2> QED BY <1>2, <1>4, <2>1, <2>2, <2>4, <2>6, <2>7, TaskStep
<1> QED BY <1>5, <1>6

LEMMA SentInv == ASSUME FInv, NEW t \in Broadcasters, Sent(t) PROVE FInv'
<1>1. /\ task[t].pc = "send" /\ task[t].to = {} /\ active' = active \ task[t].dead
      /\ task' = [task EXCEPT ![t] = IdleTask]
      /\ UNCHANGED <<stored, writes, handler, browser, feedMishaps, told, untold>>
  BY DEF Sent, client, history
<1>2. /\ feedMishaps' \in feedMishaps .. MaxFeedMishaps /\ stored' \in Board
      /\ writes' \in 0 .. MaxWrites /\ told' \in [Cockpits -> SUBSET RowKeys]
  BY <1>1 DEF FInv, FeedTypes
<1>3. \A c, k : ~Carries(t, c, k)
  BY <1>1 DEF Carries
<1>4. /\ \A s \in IdleTask.to \cup IdleTask.dead : Opened(s)
      /\ \A c \in Cockpits : browser[c].open => SocketOf(c) \notin IdleTask.dead /\ SocketOf(c) \in active'
  BY <1>1, IdleIsTask DEF FInv, Held
<1> QED BY <1>1, <1>2, <1>3, <1>4, IdleIsTask, TaskStep

LEMMA WriteBackFailsInv == ASSUME FInv, NEW w \in Writers, WriteBackFails(w) PROVE FInv'
<1>0. w \in Broadcasters
  BY DEF Broadcasters
<1>1. /\ task[w].pc = "card" /\ untold' = untold \cup DOMAIN task[w].frame
      /\ task' = [task EXCEPT ![w] = IdleTask]
      /\ UNCHANGED <<stored, writes, active, handler, browser, told>>
  BY DEF WriteBackFails, client
<1>2. /\ feedMishaps' \in feedMishaps .. MaxFeedMishaps /\ stored' \in Board
      /\ writes' \in 0 .. MaxWrites /\ told' \in [Cockpits -> SUBSET RowKeys]
  BY <1>1, FeedBounds DEF FInv, FeedTypes, WriteBackFails
<1>3. \A c, k : Carries(w, c, k) => k \in untold'
  BY <1>1 DEF Carries
<1> QED BY <1>0, <1>1, <1>2, <1>3, IdleIsTask, FreshTask, TaskStep

LEMMA CycleFailsInv == ASSUME FInv, NEW t \in Snapshotters, CycleFails(t) PROVE FInv'
<1>0. t \in Broadcasters
  BY DEF Broadcasters, Snapshotters
<1>1. /\ untold' = RowKeys
      /\ task' = [task EXCEPT ![t] = IdleTask]
      /\ UNCHANGED <<stored, writes, active, handler, browser, told>>
  BY DEF CycleFails, client
<1>2. /\ feedMishaps' \in feedMishaps .. MaxFeedMishaps /\ stored' \in Board
      /\ writes' \in 0 .. MaxWrites /\ told' \in [Cockpits -> SUBSET RowKeys]
  BY <1>1, FeedBounds DEF FInv, FeedTypes, CycleFails
<1> QED BY <1>0, <1>1, <1>2, IdleIsTask, FreshTask, TaskStep

\* The board that is read is the store's.
LEMMA ReadBoardInv == ASSUME FInv, NEW t \in Snapshotters, ReadBoard(t) PROVE FInv'
<1> DEFINE x == [task[t] EXCEPT !.pc = "read", !.frame = stored]
<1>0. t \in Broadcasters
  BY DEF Broadcasters, Snapshotters
<1>1. /\ task[t] \in Task /\ stored \in Frames /\ DOMAIN stored = RowKeys
  BY <1>0, FrameTypes DEF FInv, FeedTypes, Board
<1>2. /\ x \in Task /\ x.pc = "read" /\ x.to = task[t].to /\ x.dead = task[t].dead
      /\ x.frame = stored
  BY <1>1 DEF Task
<1>3. /\ task' = [task EXCEPT ![t] = x]
      /\ UNCHANGED <<stored, writes, active, handler, browser, feedMishaps, told>>
  BY <1>0, <1>1 DEF ReadBoard, client, FInv, FeedTypes
<1> HIDE DEF x
<1>4. /\ feedMishaps' \in feedMishaps .. MaxFeedMishaps /\ stored' \in Board
      /\ writes' \in 0 .. MaxWrites /\ told' \in [Cockpits -> SUBSET RowKeys] /\ task'[t] = x
  BY <1>0, <1>3 DEF FInv, FeedTypes
<1>5. \A c \in Cockpits, k \in RowKeys : Carries(t, c, k)'
  BY <1>1, <1>2, <1>3, <1>4 DEF Carries
<1>6. /\ \A s \in x.to \cup x.dead : Opened(s)
      /\ \A c \in Cockpits : browser[c].open => SocketOf(c) \notin x.dead /\ SocketOf(c) \in active'
  BY <1>0, <1>2, <1>3 DEF FInv, Held
<1> QED BY <1>0, <1>2, <1>3, <1>4, <1>5, <1>6, TaskStep

\* What a change of the store leaves as it was.
LEMMA RowsChange ==
    ASSUME FInv, NEW changed \in SUBSET RowKeys, RowChange(changed)
    PROVE  /\ stored' \in Board /\ writes' \in 0 .. MaxWrites
           /\ told' \in [Cockpits -> SUBSET RowKeys]
           /\ \A k \in RowKeys \ changed : stored'[k] = stored[k]
           /\ \A k \in changed : stored'[k] = writes'
           /\ \A c \in Cockpits : told'[c] = told[c] \ changed
<1>1. writes' \in 0 .. MaxWrites /\ writes' = writes + 1
  BY FeedBounds DEF RowChange, FInv, FeedTypes
<1>2. stored' = [k \in RowKeys |-> IF k \in changed THEN writes' ELSE stored[k]]
  BY <1>1 DEF RowChange
<1>3. told' = [c \in Cockpits |-> told[c] \ changed]
  BY DEF RowChange
<1> QED BY <1>1, <1>2, <1>3 DEF FInv, FeedTypes, Board

LEMMA UpsertFInv ==
    ASSUME FInv, NEW w \in Writers, NEW k \in RowKeys, Upsert(w, k)
    PROVE  FInv'
<1> DEFINE frame == event_frame(k, writes + 1)
           x == [IdleTask EXCEPT !.pc = "card", !.frame = frame]
<1>0. w \in Broadcasters
  BY DEF Broadcasters
<1>1. /\ task[w] = IdleTask /\ RowChange({k}) /\ task' = [task EXCEPT ![w] = x]
      /\ UNCHANGED <<active, handler, browser, feedMishaps, untold>>
  BY DEF Upsert, client
<1>2. /\ stored' \in Board /\ writes' \in 0 .. MaxWrites
      /\ told' \in [Cockpits -> SUBSET RowKeys]
      /\ \A r \in RowKeys \ {k} : stored'[r] = stored[r]
      /\ stored'[k] = writes'
      /\ \A c \in Cockpits : told'[c] = told[c] \ {k}
  BY <1>1, RowsChange
<1>3. writes' = writes + 1
  BY <1>1 DEF RowChange
<1>4. frame \in Frames /\ DOMAIN frame = {k} /\ frame[k] = writes'
  BY <1>2, <1>3, FrameTypes
<1> HIDE DEF frame
<1>5. x \in Task /\ x.pc = "card" /\ x.to = {} /\ x.dead = {} /\ x.frame = frame
  BY <1>4, IdleIsTask DEF Task
<1> HIDE DEF x
<1>6. task'[w] = x /\ feedMishaps' \in feedMishaps .. MaxFeedMishaps
  BY <1>0, <1>1 DEF FInv, FeedTypes
<1>7. \A c \in Cockpits : Carries(w, c, k)'
  BY <1>2, <1>4, <1>5, <1>6 DEF Carries
<1>8. \A c, r : ~Carries(w, c, r)
  BY <1>0, <1>1, IdleIsTask, IdleCarriesNothing
<1>9. ASSUME NEW c \in Cockpits, NEW r \in RowKeys
      PROVE  \/ Carries(w, c, r)' \/ r \in told'[c] \cup untold'
             \/ /\ stored'[r] = stored[r]
                /\ ~(r \in told[c] \cup untold) /\ ~Carries(w, c, r)
  BY <1>1, <1>2, <1>7, <1>8
<1> QED BY <1>0, <1>1, <1>2, <1>5, <1>6, <1>9, FreshTask, TaskStep

LEMMA HydrateInv == ASSUME FInv, NEW t \in Snapshotters, Hydrate(t) PROVE FInv'
<1> DEFINE x == [task[t] EXCEPT !.pc = "hydrated"]
<1>0. t \in Broadcasters
  BY DEF Broadcasters, Snapshotters
<1>1. /\ task[t] = IdleTask
      /\ UNCHANGED <<active, handler, browser, feedMishaps, untold>>
  BY DEF Hydrate, client
<1>2. task' = [task EXCEPT ![t] = x]
  BY <1>0 DEF Hydrate, FInv, FeedTypes
<1>3. /\ stored' \in Board /\ writes' \in 0 .. MaxWrites
      /\ told' \in [Cockpits -> SUBSET RowKeys]
  <2>1. CASE \E changed \in SUBSET RowKeys \ {{}} : RowChange(changed)
    BY <2>1, RowsChange
  <2>2. CASE UNCHANGED <<stored, writes, told>>
    BY <2>2 DEF FInv, FeedTypes
  <2> QED BY <2>1, <2>2 DEF Hydrate
<1>4. x \in Task /\ x.pc = "hydrated" /\ x.to = {} /\ x.dead = {}
  BY <1>1, IdleIsTask DEF Task
<1> HIDE DEF x
<1>5. task'[t] = x /\ feedMishaps' \in feedMishaps .. MaxFeedMishaps
  BY <1>0, <1>1, <1>2 DEF FInv, FeedTypes
<1>6. \A c \in Cockpits, k \in RowKeys : Carries(t, c, k)'
  BY <1>4, <1>5 DEF Carries
<1> QED BY <1>0, <1>1, <1>2, <1>3, <1>4, <1>5, <1>6, FreshTask, TaskStep

-----------------------------------------------------------------------------
(* The handlers and the browsers.                                            *)

\* The handler of one socket goes on; the broadcasts and the sockets stay.
LEMMA HandlerStep ==
    ASSUME FInv, NEW s \in Sockets, NEW h \in Handler, handler' = [handler EXCEPT ![s] = h],
           UNCHANGED <<stored, writes, task, browser, feedMishaps, untold>>,
           active' \subseteq active,
           \A c \in Cockpits : browser[c].open => SocketOf(c) \in active',
           told' \in [Cockpits -> SUBSET RowKeys], \A c \in Cockpits : told[c] \subseteq told'[c],
           h.pc = "read" => h.snapshot \in Board,
           \A c \in Cockpits, k \in RowKeys :
              browser[c].open /\ s = SocketOf(c) /\ h.pc \in {"read", "drain"} =>
                 \/ h.pc = "read" /\ h.snapshot[k] = stored[k]
                 \/ k \in told'[c]
                 \/ h.pc = "drain" /\ handler[s].pc = "read" /\ handler[s].snapshot[k] # stored[k]
    PROVE  FInv'
<1>1. /\ handler' \in [Sockets -> Handler] /\ handler'[s] = h
      /\ \A r \in Sockets \ {s} : handler'[r] = handler[r]
  BY DEF FInv, FeedTypes
<1>2. \A c \in Cockpits : SocketOf(c)' = SocketOf(c) /\ SocketOf(c) \in Sockets
  BY SocketsOpen DEF SocketOf, FInv
<1>3. FeedTypes'
  BY <1>1 DEF FInv, FeedTypes
<1>4. Held'
  <2>1. \A r : Opened(r)' <=> Opened(r)
    BY DEF Opened
  <2> QED BY <1>1, <1>2, <2>1 DEF FInv, Held
<1>5. \A c \in Cockpits, k \in RowKeys, t \in Broadcasters : Carries(t, c, k) => Carries(t, c, k)'
  BY <1>2 DEF Carries
<1>6. ASSUME NEW c \in Cockpits, browser[c].open,
             handler'[SocketOf(c)].pc \in {"read", "drain"}, NEW k \in RowKeys
      PROVE  Reached(c, k)'
  <2>1. CASE SocketOf(c) # s
    <3>1. Reached(c, k) /\ handler'[SocketOf(c)] = handler[SocketOf(c)]
      BY <1>1, <1>2, <1>6, <2>1 DEF FInv, Attended
    <3> QED BY <1>2, <1>5, <3>1 DEF Reached
  <2>2. CASE SocketOf(c) = s
    <3>1. \/ h.pc = "read" /\ h.snapshot[k] = stored[k]
          \/ k \in told'[c]
          \/ h.pc = "drain" /\ handler[s].pc = "read" /\ handler[s].snapshot[k] # stored[k]
      BY <1>1, <1>6, <2>2
    <3>2. CASE h.pc = "drain" /\ handler[s].pc = "read" /\ handler[s].snapshot[k] # stored[k]
      <4>1. k \in told[c] \cup untold \/ \E t \in Broadcasters : Carries(t, c, k)
        BY <1>6, <2>2, <3>2 DEF FInv, Attended, Reached
      <4> QED BY <1>5, <4>1 DEF Reached
    <3> QED BY <1>1, <1>2, <2>2, <3>1, <3>2 DEF Reached
  <2> QED BY <2>1, <2>2
<1>7. Attended'
  BY <1>2, <1>6 DEF Attended
<1> QED BY <1>3, <1>4, <1>7 DEF FInv

LEMMA ReadSnapshotInv == ASSUME FInv, NEW s \in Sockets, ReadSnapshot(s) PROVE FInv'
<1> DEFINE h == [pc |-> "read", snapshot |-> stored]
<1>1. /\ handler' = [handler EXCEPT ![s] = h]
      /\ UNCHANGED <<stored, writes, task, active, browser, feedMishaps, told, untold>>
  BY DEF ReadSnapshot, client, history
<1>2. h \in Handler /\ stored \in Board /\ h.pc = "read" /\ h.snapshot = stored
  BY FrameTypes DEF FInv, FeedTypes, Handler
<1> HIDE DEF h
<1>3. /\ told' \in [Cockpits -> SUBSET RowKeys] /\ \A c \in Cockpits : told[c] \subseteq told'[c]
      /\ \A c \in Cockpits : browser[c].open => SocketOf(c) \in active'
  BY <1>1 DEF FInv, FeedTypes, Held
<1> QED BY <1>1, <1>2, <1>3, HandlerStep

\* What the snapshot holds of the store's newest rows is told by it.
LEMMA SendSnapshotInv == ASSUME FInv, NEW s \in Sockets, SendSnapshot(s) PROVE FInv'
<1> DEFINE h == [pc |-> "drain", snapshot |-> NoFrame]
           frame == handler[s].snapshot
           sent == {k \in DOMAIN frame : frame[k] = stored[k]}
<1>1. /\ handler[s].pc = "read" /\ IsOpen(s) /\ handler' = [handler EXCEPT ![s] = h]
      /\ told' = [told EXCEPT ![s[1]] = @ \cup sent]
      /\ UNCHANGED <<stored, writes, task, active, browser, feedMishaps, untold>>
  BY DEF SendSnapshot, Transmit
<1>2. h \in Handler /\ h.pc = "drain"
  BY FrameTypes DEF Handler
<1>3. s[1] \in Cockpits /\ DOMAIN frame = RowKeys /\ \A c \in Cockpits : s = SocketOf(c) => s[1] = c
  BY <1>1, SocketsOpen DEF FInv, Held, Board, Sockets
<1> HIDE DEF h
<1>4. /\ told' \in [Cockpits -> SUBSET RowKeys] /\ \A c \in Cockpits : told[c] \subseteq told'[c]
      /\ \A c \in Cockpits : browser[c].open => SocketOf(c) \in active'
      /\ told'[s[1]] = told[s[1]] \cup sent
  BY <1>1, <1>3 DEF FInv, FeedTypes, Held
<1>5. ASSUME NEW c \in Cockpits, NEW k \in RowKeys, s = SocketOf(c)
      PROVE  k \in told'[c] \/ handler[s].snapshot[k] # stored[k]
  BY <1>3, <1>4, <1>5
<1> HIDE DEF frame, sent
<1>6. \A c \in Cockpits, k \in RowKeys :
         browser[c].open /\ s = SocketOf(c) /\ h.pc \in {"read", "drain"} =>
            \/ h.pc = "read" /\ h.snapshot[k] = stored[k]
            \/ k \in told'[c]
            \/ h.pc = "drain" /\ handler[s].pc = "read" /\ handler[s].snapshot[k] # stored[k]
  BY <1>1, <1>2, <1>5
<1>7. /\ handler' = [handler EXCEPT ![s] = h] /\ active' \subseteq active
      /\ UNCHANGED <<stored, writes, task, browser, feedMishaps, untold>>
  BY <1>1
<1>8. h.pc # "read"
  BY <1>2
<1> QED BY <1>2, <1>4, <1>6, <1>7, <1>8, HandlerStep

LEMMA HandlerEndsInv == ASSUME FInv, NEW s \in Sockets, HandlerEnds(s) PROVE FInv'
<1>1. /\ ~IsOpen(s) /\ handler' = [handler EXCEPT ![s] = Closed] /\ active' = active \ {s}
      /\ UNCHANGED <<stored, writes, task, browser, feedMishaps, told, untold>>
  BY DEF HandlerEnds, client, history
<1>2. \A c \in Cockpits : browser[c].open => SocketOf(c) # s
  BY <1>1, SocketsOpen DEF IsOpen, FInv
<1>3. /\ told' \in [Cockpits -> SUBSET RowKeys] /\ \A c \in Cockpits : told[c] \subseteq told'[c]
      /\ \A c \in Cockpits : browser[c].open => SocketOf(c) \in active'
  BY <1>1, <1>2 DEF FInv, FeedTypes, Held
<1> QED BY <1>1, <1>3, ClosedIsHandler, HandlerStep

\* A socket that opens has not been given up by any broadcast: it is a new one.
LEMMA ConnectInv == ASSUME FInv, NEW c \in Cockpits, Connect(c) PROVE FInv'
<1>0. PICK s \in Sockets : s = SocketOf(c) /\ s[1] = c /\ s[2] = browser[c].attempt
  BY SocketsOpen DEF FInv
<1> DEFINE h == [handler[s] EXCEPT !.pc = "accepted"]
           b == [browser[c] EXCEPT !.open = TRUE]
<1>1. /\ ~browser[c].open /\ browser' = [browser EXCEPT ![c].open = TRUE]
      /\ handler' = [handler EXCEPT ![s].pc = "accepted"]
      /\ active' = active \cup {s}
      /\ UNCHANGED <<stored, writes, task, feedMishaps, told, untold>>
  BY <1>0 DEF Connect, history
<1>2. /\ s \in Sockets /\ s[1] = c /\ s[2] = browser[c].attempt
      /\ browser[c] \in [attempt : Nat \ {0}, open : BOOLEAN] /\ handler[s] \in Handler
  BY <1>0 DEF FInv, FeedTypes
<1>3. /\ h \in Handler /\ h.pc = "accepted"
      /\ b \in [attempt : Nat \ {0}, open : BOOLEAN] /\ b.attempt = browser[c].attempt /\ b.open
  BY <1>2 DEF Handler
<1>4. handler' = [handler EXCEPT ![s] = h] /\ browser' = [browser EXCEPT ![c] = b]
  BY <1>1, <1>2 DEF FInv, FeedTypes
<1>5. \A d \in Cockpits : SocketOf(d)' = SocketOf(d) /\ SocketOf(d) \in Sockets /\ SocketOf(d)[1] = d
  BY <1>3, <1>4, SocketsOpen DEF SocketOf, FInv, FeedTypes
<1> HIDE DEF h, b
<1>6. /\ handler'[s] = h /\ \A r \in Sockets \ {s} : handler'[r] = handler[r]
      /\ browser'[c] = b /\ \A d \in Cockpits \ {c} : browser'[d] = browser[d]
  BY <1>2, <1>4 DEF FInv, FeedTypes
<1>7. FeedTypes'
  <2>1. handler' \in [Sockets -> Handler] /\ browser' \in [Cockpits -> [attempt : Nat \ {0}, open : BOOLEAN]]
    BY <1>3, <1>4 DEF FInv, FeedTypes
  <2>2. \A d \in Cockpits : browser'[d].attempt <= feedMishaps + 1
    BY <1>3, <1>6 DEF FInv, FeedTypes
  <2>3. active' \subseteq Sockets
    BY <1>1, <1>2 DEF FInv, FeedTypes
  <2> QED BY <1>1, <2>1, <2>2, <2>3 DEF FInv, FeedTypes
<1>8. Held'
  <2>1. ~Opened(s)
    BY <1>1, <1>2 DEF Opened, FInv, FeedTypes
  <2>2. ASSUME NEW r \in Sockets, Opened(r) PROVE Opened(r)'
    <3>1. r[1] \in Cockpits
      BY DEF Sockets
    <3>2. CASE r[1] = c
      BY <1>3, <1>6, <2>2, <3>2 DEF Opened
    <3>3. CASE r[1] # c
      BY <1>6, <2>2, <3>1, <3>3 DEF Opened
    <3> QED BY <3>2, <3>3
  <2>3. Opened(s)'
    BY <1>2, <1>3, <1>6 DEF Opened
  <2>4. \A t \in Broadcasters : task[t].to \cup task[t].dead \subseteq Sockets /\ s \notin task[t].dead
    BY <2>1 DEF FInv, FeedTypes, Task, Held
  <2>5. \A d \in Cockpits : browser'[d].open => SocketOf(d) \in active' /\
           \A t \in Broadcasters : SocketOf(d) \notin task[t].dead
    BY <1>0, <1>1, <1>6, <2>4 DEF FInv, Held
  <2>6. active \subseteq Sockets
    BY DEF FInv, FeedTypes
  <2>7. \A r \in active' : Opened(r)'
    BY <1>1, <2>2, <2>3, <2>6 DEF FInv, Held
  <2>8. \A t \in Broadcasters : \A r \in task[t].to \cup task[t].dead : Opened(r)'
    BY <2>2, <2>4 DEF FInv, Held
  <2>9. \A r \in Sockets : handler'[r].pc = "read" => handler'[r].snapshot \in Board
    BY <1>3, <1>6 DEF FInv, Held
  <2> QED BY <1>1, <1>5, <2>5, <2>7, <2>8, <2>9 DEF Held
<1>9. Attended'
  <2> SUFFICES ASSUME NEW d \in Cockpits, browser'[d].open,
                      handler'[SocketOf(d)].pc \in {"read", "drain"}, NEW k \in RowKeys
               PROVE  Reached(d, k)'
    BY <1>5 DEF Attended
  <2>1. SocketOf(d) # s /\ d # c
    BY <1>0, <1>3, <1>5, <1>6
  <2>2. Reached(d, k) /\ handler'[SocketOf(d)] = handler[SocketOf(d)]
    BY <1>5, <1>6, <2>1 DEF FInv, Attended
  <2>3. \A t \in Broadcasters : Carries(t, d, k) => Carries(t, d, k)'
    BY <1>1, <1>5 DEF Carries
  <2> QED BY <1>1, <1>5, <2>2, <2>3 DEF Reached
<1> QED BY <1>7, <1>8, <1>9 DEF FInv

LEMMA DropInv == ASSUME FInv, NEW c \in Cockpits, Drop(c) PROVE FInv'
<1> DEFINE b == [attempt |-> browser[c].attempt + 1, open |-> FALSE]
<1>1. /\ browser' = [browser EXCEPT ![c] = b] /\ told' = [told EXCEPT ![c] = {}]
      /\ feedMishaps < MaxFeedMishaps /\ feedMishaps' = feedMishaps + 1
      /\ UNCHANGED <<stored, writes, task, active, handler, untold>>
  BY DEF Drop, server, FInv, FeedTypes
<1>2. /\ browser'[c] = b /\ \A d \in Cockpits \ {c} : browser'[d] = browser[d] /\ told'[d] = told[d]
  BY <1>1 DEF FInv, FeedTypes
<1>3. b.attempt = browser[c].attempt + 1 /\ ~b.open /\ browser[c].attempt \in Nat \ {0}
  BY DEF FInv, FeedTypes
<1>4. b \in [attempt : Nat \ {0}, open : BOOLEAN]
  BY <1>3
<1> HIDE DEF b
<1>5. FeedTypes'
  <2>1. feedMishaps' \in 0 .. MaxFeedMishaps
    BY <1>1, FeedBounds DEF FInv, FeedTypes
  <2>2. \A d \in Cockpits : browser'[d].attempt <= feedMishaps' + 1
    BY <1>1, <1>2, <1>3 DEF FInv, FeedTypes
  <2> QED BY <1>1, <1>4, <2>1, <2>2 DEF FInv, FeedTypes
<1>6. \A d \in Cockpits : browser'[d].open => d # c /\ browser[d].open /\ SocketOf(d)' = SocketOf(d)
  BY <1>2, <1>3 DEF SocketOf
<1>7. Held'
  <2>1. \A r \in Sockets : Opened(r) => Opened(r)'
    BY <1>2, <1>3 DEF Opened, Sockets, Attempts, FInv, FeedTypes
  <2>2. active \subseteq Sockets /\ \A t \in Broadcasters : task[t].to \cup task[t].dead \subseteq Sockets
    BY DEF FInv, FeedTypes, Task
  <2> QED BY <1>1, <1>6, <2>1, <2>2 DEF FInv, Held
<1>8. Attended'
  <2> SUFFICES ASSUME NEW d \in Cockpits, browser'[d].open,
                      handler[SocketOf(d)].pc \in {"read", "drain"}, NEW k \in RowKeys
               PROVE  Reached(d, k)'
    BY <1>1, <1>6 DEF Attended
  <2>1. Reached(d, k)
    BY <1>6 DEF FInv, Attended
  <2>2. \A t \in Broadcasters : Carries(t, d, k) => Carries(t, d, k)'
    BY <1>1, <1>6 DEF Carries
  <2> QED BY <1>1, <1>2, <1>6, <2>1, <2>2 DEF Reached
<1> QED BY <1>5, <1>7, <1>8 DEF FInv

\* What a browser does with the rows it was given.
LEMMA RestInv ==
    ASSUME FInv, UNCHANGED <<stored, writes, task, active, handler, browser, told, untold>>,
           feedMishaps' \in feedMishaps .. MaxFeedMishaps
    PROVE  FInv'
<1>1. FeedTypes'
  BY FeedBounds DEF FInv, FeedTypes
<1>2. Held'
  BY DEF FInv, Held, Opened, SocketOf
<1>3. Attended'
  BY DEF FInv, Attended, Reached, Carries, SocketOf
<1> QED BY <1>1, <1>2, <1>3 DEF FInv

LEMMA BrowserInv ==
    FInv /\ (\/ \E c \in Cockpits : Deliver(c)
             \/ \E s \in Sockets : AnswerLoad(s) \/ Loaded(s) \/ LoadFails(s)
             \/ UNCHANGED feedVars) => FInv'
<1> SUFFICES ASSUME FInv,
                    \/ \E c \in Cockpits : Deliver(c)
                    \/ \E s \in Sockets : AnswerLoad(s) \/ Loaded(s) \/ LoadFails(s)
                    \/ UNCHANGED feedVars
             PROVE  FInv'
  OBVIOUS
<1>1. UNCHANGED <<stored, writes, task, active, handler, browser, told, untold>>
  BY DEF Deliver, AnswerLoad, Loaded, LoadFails, feedVars, server, client, history
<1>2. UNCHANGED feedMishaps \/ (feedMishaps < MaxFeedMishaps /\ feedMishaps' = feedMishaps + 1)
  BY DEF Deliver, AnswerLoad, Loaded, LoadFails, feedVars
<1>3. feedMishaps' \in feedMishaps .. MaxFeedMishaps
  BY <1>2, FeedBounds DEF FInv, FeedTypes
<1> QED BY <1>1, <1>3, RestInv

LEMMA NextFInv == FInv /\ [FeedNext]_feedVars => FInv'
<1> SUFFICES ASSUME FInv, [FeedNext]_feedVars PROVE FInv'
  OBVIOUS
<1>1. CASE ServerStep
  BY <1>1, BroadcastInv, SendFrameInv, SentInv, ReadBoardInv, ReadSnapshotInv, SendSnapshotInv,
     HandlerEndsInv, BrowserInv DEF ServerStep
<1>2. CASE BrowserStep
  BY <1>2, ConnectInv, BrowserInv DEF BrowserStep
<1>3. CASE FeedEvent \/ Cycle
  BY <1>3, UpsertFInv, HydrateInv DEF FeedEvent, Cycle
<1>4. CASE FeedMishap
  BY <1>4, WriteBackFailsInv, CycleFailsInv, DropInv, BrowserInv DEF FeedMishap
<1> QED BY <1>1, <1>2, <1>3, <1>4, BrowserInv DEF FeedNext

\* No change falls between the snapshot a browser is given and the broadcasts
\* that follow it (routes_ws.py:34-40, ws.py:28-35).
THEOREM NothingIsMissed == FeedSpec => []NothingFallsBetween
BY InitFInv, NextFInv, AttendedSuffices, PTL DEF FeedSpec

-----------------------------------------------------------------------------
(* The boot.                                                                 *)

\* An object and its parts.
Object(t, k, n) == <<t, k, n>>
TabOf(o) == o[1]
KindOf(o) == o[2]
NameOf(o) == o[3]

TableOf(o) == Object(TabOf(o), "table", TabOf(o))

\* What the guards add to a table that is there.
LateObjects == {s.object : s \in ToSet(late_statements)}
TenantObjects == {s.object : s \in ToSet(tenant_statements)}

TenantColumn == Object("work_items", "column", "tenant_id")
TenantIndex == Object("work_items", "index", "ix_tenant_id")
DroppedIndex == Object("tenant_git_credential", "index", "ix_tenant")
CardsTable == Object("cards", "table", "cards")

\* A schema that create_all and the guards complete: a table that is there lacks
\* nothing but what they add.
Repairable(schema) ==
    /\ schema \subseteq Models \cup {DroppedIndex}
    /\ \A o \in Models \ schema :
          TableOf(o) \in schema => o \in LateObjects \cup TenantObjects
    /\ TenantColumn \in schema => TenantIndex \in schema

Complete(schema) == schema = Models \ (IF duplicates THEN {IssueIndex} ELSE {})

\* The schema in the middle of the revision after the first ones.
Midway(release, done) ==
    LET statements == Statements(release)
                          \cup {Revisions[release + 1][i] : i \in 1 .. done}
    IN  Objects("create", statements) \ Objects("drop", statements)

\* The databases a boot can finish: made by create_all, at a revision, or with
\* every revision behind it.
Finishable(db) ==
    /\ db.versioned \in BOOLEAN
    /\ db.revision \in 0 .. Latest
    /\ \/ ~db.versioned /\ db.revision = 0 /\ Repairable(db.schema)
       \/ db.versioned /\ db.schema = SchemaAt(db.revision)
       \/ db.versioned /\ db.revision = Latest /\ Repairable(db.schema)

\* A board with two cards of an issue has a cards table, without the unique index.
TwinsKept(schema) == duplicates => CardsTable \in schema /\ IssueIndex \notin schema

Upgrading ==
    stage = "upgrade" =>
        \/ ~work.versioned /\ work.schema = {} /\ work.revision = 0 /\ at = 0
        \/ /\ work.versioned
           /\ work.revision \in 0 .. Latest
           /\ \/ at = 0 /\ work.schema = SchemaAt(work.revision)
              \/ /\ work.revision < Latest
                 /\ at \in 1 .. Len(Pending)
                 /\ work.schema = Midway(work.revision, at)
              \/ at = 0 /\ work.revision = Latest /\ Repairable(work.schema)

Creating ==
    stage \in {"create", "index"} =>
        /\ at \in 0 .. Len(Tables)
        /\ \A i \in 1 .. at : Table(Tables[i]).object \in work.schema

Indexing ==
    stage = "index" =>
        /\ at < Len(Tables)
        /\ TableAtHand \in work.schema
        /\ duplicates => TableAtHand # CardsTable
        /\ Repairable(work.schema \cup IndexesOf(TableAtHand))

Guarding ==
    stage = "guards" =>
        /\ at \in 0 .. Len(late_statements)
        /\ \A o \in Models : TableOf(o) \in work.schema
        /\ \A i \in 1 .. at :
              LET s == late_statements[i] IN
              IF s.verb = "drop" THEN s.object \notin work.schema
              ELSE s.object \in work.schema \/ (duplicates /\ s.object = IssueIndex)

Tenanting ==
    stage = "tenant" =>
        /\ at \in {0, 1}
        /\ at = 0 => Repairable(work.schema)
        /\ at = 1 => TenantColumn \in work.schema
        /\ Complete(work.schema \cup TenantObjects)

AtRest ==
    /\ stage = "stamp" => Repairable(work.schema)
    /\ stage = "create" => Repairable(work.schema)
    /\ stage = "guards" => Repairable(work.schema)
    /\ stage \in {"create", "index", "guards", "tenant", "serving"} =>
          work.versioned /\ work.revision = Latest
    /\ stage = "serving" => Complete(work.schema)

OnDisk ==
    /\ ~transactional => work = disk
    /\ partial => ~transactional
    /\ stage \in {"down", "guards", "serving"} => work = disk
    /\ stage = "down" => ~partial
    /\ ~partial => Finishable(disk)
    /\ TwinsKept(disk.schema) /\ TwinsKept(work.schema)

Sound ==
    OnDisk /\ AtRest /\ Upgrading /\ Creating /\ Indexing /\ Guarding /\ Tenanting

\* A database is a record.
IsDatabase(db) ==
    db = [schema |-> db.schema, versioned |-> db.versioned, revision |-> db.revision]

BootInv ==
    /\ IsDatabase(disk) /\ IsDatabase(work)
    /\ ~torn => Sound

\* The revision that makes a table.
Birth(t) ==
    CASE t = "work_items" -> 1
      [] t = "audit_entries" -> 2
      [] t = "cards" -> 5
      [] t = "card_import_state" -> 8
      [] t = "tenant_git_config" -> 9
      [] t = "tenant_git_credential" -> 10
      [] t \in {"git_connection", "git_repository"} -> 11
      [] t = "card_comments" -> 13
      [] t \in {"git_install", "git_install_state"} -> 14

\* What a statement of the r-th revision may be: what it makes later than its
\* table is the hash chain, or something the guards know.
Fits(r, s) ==
    /\ s.verb \in {"create", "drop"}
    /\ s.object = Object(TabOf(s.object), KindOf(s.object), NameOf(s.object))
    /\ KindOf(s.object) \in {"table", "column", "index"}
    /\ KindOf(s.object) = "table" => NameOf(s.object) = TabOf(s.object) /\ Birth(TabOf(s.object)) = r
    /\ TabOf(s.object) \in ToSet(Tables)
    /\ Birth(TabOf(s.object)) \in 1 .. r
    /\ Birth(TabOf(s.object)) # r /\ s.verb = "create" =>
          r = 3 \/ s.object \in LateObjects \cup TenantObjects
    /\ s.verb = "drop" <=> (s.object = DroppedIndex /\ r = 11)
    /\ s.verb = "create" /\ s.object = DroppedIndex => r = 10
    /\ s.object \in TenantObjects => r = 4

LEMMA StatementParts ==
    /\ \A o : Create(o).verb = "create" /\ Create(o).object = o
    /\ \A t : Table(t).verb = "create" /\ Table(t).object = Object(t, "table", t)
    /\ \A t, c : Column(t, c).verb = "create" /\ Column(t, c).object = Object(t, "column", c)
    /\ \A t, i : Index(t, i).verb = "create" /\ Index(t, i).object = Object(t, "index", i)
    /\ \A t, i : DropIndex(t, i).verb = "drop" /\ DropIndex(t, i).object = Object(t, "index", i)
  BY DEF Create, Table, Column, Index, DropIndex, Object

LEMMA ObjectParts ==
    ASSUME NEW t, NEW k, NEW n
    PROVE  /\ TabOf(Object(t, k, n)) = t
           /\ KindOf(Object(t, k, n)) = k
           /\ NameOf(Object(t, k, n)) = n
  BY DEF Object, TabOf, KindOf, NameOf

LEMMA ObjectsDiffer ==
    ASSUME NEW t, NEW k, NEW n, NEW u, NEW l, NEW m, Object(t, k, n) = Object(u, l, m)
    PROVE  t = u /\ k = l /\ n = m
  BY ObjectParts

LEMMA TheTables ==
    ToSet(Tables) =
        {"work_items", "audit_entries", "cards", "card_import_state", "tenant_git_config",
         "tenant_git_credential", "git_connection", "git_repository", "card_comments",
         "git_install", "git_install_state"}
  BY DEF ToSet, Tables

LEMMA Births ==
    /\ Birth("work_items") = 1
    /\ Birth("audit_entries") = 2
    /\ Birth("cards") = 5
    /\ Birth("card_import_state") = 8
    /\ Birth("tenant_git_config") = 9
    /\ Birth("tenant_git_credential") = 10
    /\ Birth("git_connection") = 11
    /\ Birth("git_repository") = 11
    /\ Birth("card_comments") = 13
    /\ Birth("git_install") = 14
    /\ Birth("git_install_state") = 14
  BY DEF Birth

LEMMA ConcatElements ==
    ASSUME NEW S, NEW s \in Seq(S), NEW t \in Seq(S)
    PROVE  s \o t \in Seq(S) /\ ToSet(s \o t) = ToSet(s) \cup ToSet(t)
<1>1. /\ Len(s \o t) = Len(s) + Len(t)
      /\ \A i \in 1 .. Len(s) + Len(t) :
            (s \o t)[i] = IF i <= Len(s) THEN s[i] ELSE t[i - Len(s)]
      /\ s \o t \in Seq(S)
  BY ConcatProperties
<1>2. /\ Len(s) \in Nat /\ DOMAIN s = 1 .. Len(s)
      /\ Len(t) \in Nat /\ DOMAIN t = 1 .. Len(t)
      /\ DOMAIN (s \o t) = 1 .. Len(s) + Len(t)
  BY <1>1
<1>3. ASSUME NEW i \in 1 .. Len(s) PROVE s[i] \in ToSet(s \o t)
  <2>1. i \in 1 .. Len(s) + Len(t) /\ (s \o t)[i] = s[i]
    BY <1>1, <1>2
  <2> QED BY <2>1, <1>2 DEF ToSet
<1>4. ASSUME NEW i \in 1 .. Len(t) PROVE t[i] \in ToSet(s \o t)
  <2>1. /\ Len(s) + i \in 1 .. Len(s) + Len(t)
        /\ ~(Len(s) + i <= Len(s)) /\ (Len(s) + i) - Len(s) = i
    BY <1>2
  <2>2. (s \o t)[Len(s) + i] = t[i]
    BY <1>1, <2>1
  <2> QED BY <2>1, <2>2, <1>2 DEF ToSet
<1>5. ASSUME NEW i \in 1 .. Len(s) + Len(t) PROVE (s \o t)[i] \in ToSet(s) \cup ToSet(t)
  <2>1. CASE i <= Len(s)
    BY <1>1, <1>2, <2>1 DEF ToSet
  <2>2. CASE ~(i <= Len(s))
    <3>1. i - Len(s) \in 1 .. Len(t) /\ (s \o t)[i] = t[i - Len(s)]
      BY <1>1, <1>2, <2>2
    <3> QED BY <3>1, <1>2 DEF ToSet
  <2> QED BY <2>1, <2>2
<1>6. ToSet(s) \cup ToSet(t) \subseteq ToSet(s \o t)
  BY <1>2, <1>3, <1>4 DEF ToSet
<1>7. ToSet(s \o t) \subseteq ToSet(s) \cup ToSet(t)
  BY <1>2, <1>5 DEF ToSet
<1> QED BY <1>1, <1>6, <1>7

LEMMA TheTenantStatements ==
    /\ ToSet(tenant_statements) =
          {Column("work_items", "tenant_id"), Index("work_items", "ix_tenant_id")}
    /\ TenantObjects = {TenantColumn, TenantIndex}
<1>1. ToSet(tenant_statements) =
          {Column("work_items", "tenant_id"), Index("work_items", "ix_tenant_id")}
  BY DEF tenant_statements, ToSet
<1>2. /\ Column("work_items", "tenant_id").object = TenantColumn
      /\ Index("work_items", "ix_tenant_id").object = TenantIndex
  BY StatementParts DEF TenantColumn, TenantIndex
<1> QED BY <1>1, <1>2 DEF TenantObjects

LEMMA TheLateStatements ==
    /\ Len(late_statements) \in Nat
    /\ DOMAIN late_statements = 1 .. Len(late_statements)
    /\ ToSet(late_statements) =
          {Column("tenant_git_config", "credential_rejected"),
           Column("tenant_git_credential", "connection_id"),
           Column("tenant_git_credential", "aad_version"),
           Column("card_import_state", "poll_leased_until"),
           Column("card_import_state", "last_polled_at"),
           DropIndex("tenant_git_credential", "ix_tenant"),
           Column("cards", "issue_ref"), Column("cards", "issue_state"),
           Column("cards", "labels"), Column("cards", "github_sync_error"),
           Column("cards", "stage_runs"), Column("cards", "description"),
           Column("cards", "deleted_at"), Column("cards", "repository_id"),
           Column("cards", "comments_synced_at"),
           Index("cards", "ix_issue_ref"), Index("cards", "ix_tenant_id_issue_ref"),
           Index("tenant_git_credential", "ix_connection"),
           Index("tenant_git_credential", "ix_tenant_id")}
<1> DEFINE S == ToSet(late_config_columns) \cup ToSet(late_credential_columns)
                   \cup ToSet(late_import_state_columns) \cup ToSet(dropped_indexes)
                   \cup ToSet(late_columns) \cup ToSet(late_indexes)
<1>1. /\ late_config_columns \in Seq(S)
      /\ ToSet(late_config_columns) = {Column("tenant_git_config", "credential_rejected")}
  BY DEF late_config_columns, ToSet
<1>2. /\ late_credential_columns \in Seq(S)
      /\ ToSet(late_credential_columns) =
            {Column("tenant_git_credential", "connection_id"),
             Column("tenant_git_credential", "aad_version")}
  BY DEF late_credential_columns, ToSet
<1>3. /\ late_import_state_columns \in Seq(S)
      /\ ToSet(late_import_state_columns) =
            {Column("card_import_state", "poll_leased_until"),
             Column("card_import_state", "last_polled_at")}
  BY DEF late_import_state_columns, ToSet
<1>4. /\ dropped_indexes \in Seq(S)
      /\ ToSet(dropped_indexes) = {DropIndex("tenant_git_credential", "ix_tenant")}
  BY DEF dropped_indexes, ToSet
<1>5. /\ late_columns \in Seq(S)
      /\ ToSet(late_columns) =
            {Column("cards", "issue_ref"), Column("cards", "issue_state"),
             Column("cards", "labels"), Column("cards", "github_sync_error"),
             Column("cards", "stage_runs"), Column("cards", "description"),
             Column("cards", "deleted_at"), Column("cards", "repository_id"),
             Column("cards", "comments_synced_at")}
  BY DEF late_columns, ToSet
<1>6. /\ late_indexes \in Seq(S)
      /\ ToSet(late_indexes) =
            {Index("cards", "ix_issue_ref"), Index("cards", "ix_tenant_id_issue_ref"),
             Index("tenant_git_credential", "ix_connection"),
             Index("tenant_git_credential", "ix_tenant_id")}
  BY DEF late_indexes, ToSet
<1> HIDE DEF S
<1> DEFINE two == late_config_columns \o late_credential_columns
           three == two \o late_import_state_columns
           four == three \o dropped_indexes
           five == four \o late_columns
<1>7. two \in Seq(S) /\ ToSet(two) = ToSet(late_config_columns) \cup ToSet(late_credential_columns)
  BY <1>1, <1>2, ConcatElements
<1> HIDE DEF two
<1>8. three \in Seq(S) /\ ToSet(three) = ToSet(two) \cup ToSet(late_import_state_columns)
  BY <1>3, <1>7, ConcatElements
<1> HIDE DEF three
<1>9. four \in Seq(S) /\ ToSet(four) = ToSet(three) \cup ToSet(dropped_indexes)
  BY <1>4, <1>8, ConcatElements
<1> HIDE DEF four
<1>10. five \in Seq(S) /\ ToSet(five) = ToSet(four) \cup ToSet(late_columns)
  BY <1>5, <1>9, ConcatElements
<1> HIDE DEF five
<1>11. /\ five \o late_indexes \in Seq(S)
       /\ ToSet(five \o late_indexes) = ToSet(five) \cup ToSet(late_indexes)
  BY <1>6, <1>10, ConcatElements
<1>12. late_statements = five \o late_indexes
  BY DEF late_statements, five, four, three, two
<1>13. ToSet(late_statements) =
          ToSet(late_config_columns) \cup ToSet(late_credential_columns)
              \cup ToSet(late_import_state_columns) \cup ToSet(dropped_indexes)
              \cup ToSet(late_columns) \cup ToSet(late_indexes)
  BY <1>7, <1>8, <1>9, <1>10, <1>11, <1>12
<1>14. late_statements \in Seq(S)
  BY <1>11, <1>12
<1>15. Len(late_statements) \in Nat /\ DOMAIN late_statements = 1 .. Len(late_statements)
  BY <1>14
<1> QED BY <1>1, <1>2, <1>3, <1>4, <1>5, <1>6, <1>13, <1>15

\* The objects of these properties.
LEMMA KnownObjects ==
    /\ Table("cards").object = CardsTable
    /\ Index("cards", "ix_tenant_id_issue_ref").object = IssueIndex
    /\ DropIndex("tenant_git_credential", "ix_tenant").object = DroppedIndex
    /\ IssueIndex # DroppedIndex /\ CardsTable # DroppedIndex /\ CardsTable # IssueIndex
    /\ {TenantColumn, TenantIndex} \cap {IssueIndex, DroppedIndex, CardsTable} = {}
    /\ TableOf(IssueIndex) = CardsTable
<1>1. IssueIndex = Object("cards", "index", "ix_tenant_id_issue_ref")
  BY DEF IssueIndex, Object
<1>2. /\ Table("cards").object = CardsTable
      /\ Index("cards", "ix_tenant_id_issue_ref").object = IssueIndex
      /\ DropIndex("tenant_git_credential", "ix_tenant").object = DroppedIndex
  BY <1>1, StatementParts DEF CardsTable, DroppedIndex
<1>3. IssueIndex # DroppedIndex /\ CardsTable # DroppedIndex /\ CardsTable # IssueIndex
  BY <1>1, ObjectParts DEF CardsTable, DroppedIndex
<1>4. {TenantColumn, TenantIndex} \cap {IssueIndex, DroppedIndex, CardsTable} = {}
  BY <1>1, ObjectParts DEF CardsTable, DroppedIndex, TenantColumn, TenantIndex
<1>5. TableOf(IssueIndex) = CardsTable
  BY <1>1, ObjectParts DEF CardsTable, TableOf
<1> QED BY <1>2, <1>3, <1>4, <1>5

\* Fits, for a statement whose parts are known.
LEMMA FitsByParts ==
    ASSUME NEW s, NEW r \in 1 .. 14, NEW t \in ToSet(Tables), NEW k, NEW n,
           s.object = Object(t, k, n), s.verb = "create",
           k \in {"table", "column", "index"},
           k = "table" => n = t, k = "table" => Birth(t) = r,
           Birth(t) \in 1 .. r,
           Birth(t) # r => r = 3 \/ s.object \in LateObjects \cup TenantObjects,
           s.object = DroppedIndex => r = 10,
           s.object \in TenantObjects => r = 4
    PROVE  Fits(r, s)
<1>1. TabOf(s.object) = t /\ KindOf(s.object) = k /\ NameOf(s.object) = n
  BY ObjectParts
<1>2. ~(s.object = DroppedIndex /\ r = 11)
  OBVIOUS
<1> QED BY <1>1, <1>2 DEF Fits

LEMMA TableFits ==
    ASSUME NEW t \in ToSet(Tables)
    PROVE  Fits(Birth(t), Table(t))
<1> DEFINE s == Table(t)
<1>1. s.verb = "create" /\ s.object = Object(t, "table", t)
  BY StatementParts
<1>2. s.object # DroppedIndex /\ s.object \notin {TenantColumn, TenantIndex}
  BY <1>1, ObjectParts DEF DroppedIndex, TenantColumn, TenantIndex
<1>3. Birth(t) \in 1 .. 14
  BY TheTables, Births
<1> HIDE DEF s
<1>4. Fits(Birth(t), s)
  BY <1>1, <1>2, <1>3, TheTenantStatements, FitsByParts
<1> QED BY <1>4 DEF s

LEMMA IndexFits ==
    ASSUME NEW t \in ToSet(Tables), NEW i, t # "work_items" \/ i # "ix_tenant_id"
    PROVE  Fits(Birth(t), Index(t, i))
<1> DEFINE s == Index(t, i)
<1>1. s.verb = "create" /\ s.object = Object(t, "index", i)
  BY StatementParts
<1>2. s.object \notin {TenantColumn, TenantIndex}
  BY <1>1, ObjectParts DEF TenantColumn, TenantIndex
<1>3. s.object = DroppedIndex => Birth(t) = 10
  BY <1>1, Births, ObjectParts DEF DroppedIndex
<1>4. Birth(t) \in 1 .. 14
  BY TheTables, Births
<1> HIDE DEF s
<1>5. Fits(Birth(t), s)
  BY <1>1, <1>2, <1>3, <1>4, TheTenantStatements, FitsByParts
<1> QED BY <1>5 DEF s

\* What the guards make.
LEMMA LateParts ==
    ASSUME NEW s \in ToSet(late_statements)
    PROVE  \/ s = DropIndex("tenant_git_credential", "ix_tenant")
           \/ /\ s.verb = "create"
              /\ \E t, k, n : /\ s.object = Object(t, k, n)
                              /\ t \in {"tenant_git_config", "tenant_git_credential",
                                        "card_import_state", "cards"}
                              /\ k \in {"column", "index"}
                              /\ n # "ix_tenant"
<1> DEFINE Made(q) == /\ q.verb = "create"
                      /\ \E t, k, n : /\ q.object = Object(t, k, n)
                                      /\ t \in {"tenant_git_config", "tenant_git_credential",
                                                "card_import_state", "cards"}
                                      /\ k \in {"column", "index"}
                                      /\ n # "ix_tenant"
<1>1. ASSUME NEW t \in {"tenant_git_config", "tenant_git_credential", "card_import_state",
                        "cards"},
             NEW n, n # "ix_tenant"
      PROVE  Made(Column(t, n)) /\ Made(Index(t, n))
  BY <1>1, StatementParts
<1> HIDE DEF Made
<1>2. CASE s # DropIndex("tenant_git_credential", "ix_tenant")
  BY <1>1, <1>2, TheLateStatements DEF Made
<1> QED BY <1>2

LEMMA LateFits ==
    ASSUME NEW s \in ToSet(late_statements), s.verb = "create", NEW r \in 1 .. 14,
           NEW t, NEW k, NEW n, s.object = Object(t, k, n), Birth(t) \in 1 .. r
    PROVE  Fits(r, s)
<1>1. s.object \in LateObjects
  BY DEF LateObjects
<1>2. /\ t \in {"tenant_git_config", "tenant_git_credential", "card_import_state", "cards"}
      /\ k \in {"column", "index"}
      /\ n # "ix_tenant"
  <2>1. s # DropIndex("tenant_git_credential", "ix_tenant")
    BY StatementParts
  <2>2. PICK u, l, m : /\ s.object = Object(u, l, m)
                       /\ u \in {"tenant_git_config", "tenant_git_credential",
                                 "card_import_state", "cards"}
                       /\ l \in {"column", "index"}
                       /\ m # "ix_tenant"
    BY <2>1, LateParts
  <2>3. t = u /\ k = l /\ n = m
    <3>1. Object(t, k, n) = Object(u, l, m)
      BY <2>2
    <3> QED BY <3>1, ObjectsDiffer
  <2> QED BY <2>2, <2>3
<1>3. t \in ToSet(Tables)
  BY <1>2, TheTables
<1>4. s.object # DroppedIndex
  BY <1>2, ObjectParts DEF DroppedIndex
<1>5. s.object \notin TenantObjects
  BY <1>2, ObjectParts, TheTenantStatements DEF TenantColumn, TenantIndex
<1> QED BY <1>1, <1>2, <1>3, <1>4, <1>5, FitsByParts

LEMMA LateColumnFits ==
    ASSUME NEW t, NEW c, Column(t, c) \in ToSet(late_statements),
           NEW r \in 1 .. 14, Birth(t) \in 1 .. r
    PROVE  Fits(r, Column(t, c))
<1> DEFINE s == Column(t, c)
<1>1. s.verb = "create" /\ s.object = Object(t, "column", c) /\ s \in ToSet(late_statements)
  BY StatementParts
<1> HIDE DEF s
<1>2. Fits(r, s)
  BY <1>1, LateFits
<1> QED BY <1>2 DEF s

LEMMA LateIndexFits ==
    ASSUME NEW t, NEW i, Index(t, i) \in ToSet(late_statements),
           NEW r \in 1 .. 14, Birth(t) \in 1 .. r
    PROVE  Fits(r, Index(t, i))
<1> DEFINE s == Index(t, i)
<1>1. s.verb = "create" /\ s.object = Object(t, "index", i) /\ s \in ToSet(late_statements)
  BY StatementParts
<1> HIDE DEF s
<1>2. Fits(r, s)
  BY <1>1, LateFits
<1> QED BY <1>2 DEF s

LEMMA OtherFits ==
    /\ \A c : Fits(3, Column("audit_entries", c))
    /\ Fits(4, Column("work_items", "tenant_id"))
    /\ Fits(4, Index("work_items", "ix_tenant_id"))
    /\ Fits(11, DropIndex("tenant_git_credential", "ix_tenant"))
<1>1. ASSUME NEW c PROVE Fits(3, Column("audit_entries", c))
  <2> DEFINE s == Column("audit_entries", c)
  <2>1. s.verb = "create" /\ s.object = Object("audit_entries", "column", c)
    BY StatementParts
  <2>2. s.object \notin {DroppedIndex, TenantColumn, TenantIndex}
    BY <2>1, ObjectParts DEF DroppedIndex, TenantColumn, TenantIndex
  <2> HIDE DEF s
  <2>3. Fits(3, s)
    BY <2>1, <2>2, TheTenantStatements, Births, TheTables, FitsByParts
  <2> QED BY <2>3 DEF s
<1>2. Fits(4, Column("work_items", "tenant_id"))
  <2> DEFINE s == Column("work_items", "tenant_id")
  <2>1. s.verb = "create" /\ s.object = Object("work_items", "column", "tenant_id")
    BY StatementParts
  <2>2. s.object \in TenantObjects /\ s.object # DroppedIndex
    BY <2>1, ObjectParts, TheTenantStatements DEF TenantColumn, DroppedIndex
  <2> HIDE DEF s
  <2>3. Fits(4, s)
    BY <2>1, <2>2, Births, TheTables, FitsByParts
  <2> QED BY <2>3 DEF s
<1>3. Fits(4, Index("work_items", "ix_tenant_id"))
  <2> DEFINE s == Index("work_items", "ix_tenant_id")
  <2>1. s.verb = "create" /\ s.object = Object("work_items", "index", "ix_tenant_id")
    BY StatementParts
  <2>2. s.object \in TenantObjects /\ s.object # DroppedIndex
    BY <2>1, ObjectParts, TheTenantStatements DEF TenantIndex, DroppedIndex
  <2> HIDE DEF s
  <2>3. Fits(4, s)
    BY <2>1, <2>2, Births, TheTables, FitsByParts
  <2> QED BY <2>3 DEF s
<1>4. Fits(11, DropIndex("tenant_git_credential", "ix_tenant"))
  <2> DEFINE s == DropIndex("tenant_git_credential", "ix_tenant")
  <2>1. /\ s.verb = "drop" /\ s.object = DroppedIndex
        /\ s.object = Object("tenant_git_credential", "index", "ix_tenant")
    BY StatementParts DEF DroppedIndex
  <2>2. TabOf(s.object) = "tenant_git_credential" /\ KindOf(s.object) = "index" /\ NameOf(s.object) = "ix_tenant"
    BY <2>1, ObjectParts
  <2>3. s.object \notin TenantObjects
    BY <2>1, KnownObjects, TheTenantStatements
  <2> HIDE DEF s
  <2>4. Fits(11, s)
    BY <2>1, <2>2, <2>3, Births, TheTables DEF Fits
  <2> QED BY <2>4 DEF s
<1> QED BY <1>1, <1>2, <1>3, <1>4

LEMMA TheRevisions ==
    /\ Latest = 14
    /\ \A r \in 1 .. 14 : /\ Len(Revisions[r]) \in Nat /\ Len(Revisions[r]) > 0
                        /\ DOMAIN Revisions[r] = 1 .. Len(Revisions[r])
    /\ Revisions[1] = create_work_items
    /\ Revisions[2] = create_audit
    /\ Revisions[3] = audit_hmac_chain
    /\ Revisions[4] = work_items_tenant_id
    /\ Revisions[5] = create_cards
    /\ Revisions[6] = cards_github_sync
    /\ Revisions[7] = cards_stage_runs
    /\ Revisions[8] = cards_issue_import
    /\ Revisions[9] = create_tenant_git_config
    /\ Revisions[10] = create_tenant_git_credential
    /\ Revisions[11] = git_connections_and_repositories
    /\ Revisions[12] = card_import_poll_lease
    /\ Revisions[13] = card_comments
    /\ Revisions[14] = git_install_flow
<1>1. /\ Latest = 14
      /\ Revisions[1] = create_work_items
      /\ Revisions[2] = create_audit
      /\ Revisions[3] = audit_hmac_chain
      /\ Revisions[4] = work_items_tenant_id
      /\ Revisions[5] = create_cards
      /\ Revisions[6] = cards_github_sync
      /\ Revisions[7] = cards_stage_runs
      /\ Revisions[8] = cards_issue_import
      /\ Revisions[9] = create_tenant_git_config
      /\ Revisions[10] = create_tenant_git_credential
      /\ Revisions[11] = git_connections_and_repositories
      /\ Revisions[12] = card_import_poll_lease
      /\ Revisions[13] = card_comments
      /\ Revisions[14] = git_install_flow
  BY DEF Revisions, Latest
<1>2. Len(create_work_items) = 2 /\ DOMAIN create_work_items = 1 .. 2
  BY DEF create_work_items
<1>3. Len(create_audit) = 3 /\ DOMAIN create_audit = 1 .. 3
  BY DEF create_audit
<1>4. Len(audit_hmac_chain) = 2 /\ DOMAIN audit_hmac_chain = 1 .. 2
  BY DEF audit_hmac_chain
<1>5. Len(work_items_tenant_id) = 2 /\ DOMAIN work_items_tenant_id = 1 .. 2
  BY DEF work_items_tenant_id
<1>6. Len(create_cards) = 4 /\ DOMAIN create_cards = 1 .. 4
  BY DEF create_cards
<1>7. Len(cards_github_sync) = 5 /\ DOMAIN cards_github_sync = 1 .. 5
  BY DEF cards_github_sync
<1>8. Len(cards_stage_runs) = 1 /\ DOMAIN cards_stage_runs = 1 .. 1
  BY DEF cards_stage_runs
<1>9. Len(cards_issue_import) = 5 /\ DOMAIN cards_issue_import = 1 .. 5
  BY DEF cards_issue_import
<1>10. Len(create_tenant_git_config) = 2 /\ DOMAIN create_tenant_git_config = 1 .. 2
  BY DEF create_tenant_git_config
<1>11. Len(create_tenant_git_credential) = 3 /\ DOMAIN create_tenant_git_credential = 1 .. 3
  BY DEF create_tenant_git_credential
<1>12. Len(git_connections_and_repositories) = 14 /\ DOMAIN git_connections_and_repositories = 1 .. 14
  BY DEF git_connections_and_repositories
<1>13. Len(card_import_poll_lease) = 2 /\ DOMAIN card_import_poll_lease = 1 .. 2
  BY DEF card_import_poll_lease
<1>14. Len(card_comments) = 4 /\ DOMAIN card_comments = 1 .. 4
  BY DEF card_comments
<1>15. Len(git_install_flow) = 5 /\ DOMAIN git_install_flow = 1 .. 5
  BY DEF git_install_flow
<1> DEFINE Filled(r) == /\ Len(Revisions[r]) \in Nat /\ Len(Revisions[r]) > 0
                        /\ DOMAIN Revisions[r] = 1 .. Len(Revisions[r])
<1>16. /\ Filled(1) /\ Filled(2) /\ Filled(3) /\ Filled(4) /\ Filled(5) /\ Filled(6) /\ Filled(7)
       /\ Filled(8) /\ Filled(9) /\ Filled(10) /\ Filled(11) /\ Filled(12) /\ Filled(13)
       /\ Filled(14)
  BY <1>1, <1>2, <1>3, <1>4, <1>5, <1>6, <1>7, <1>8, <1>9, <1>10, <1>11, <1>12, <1>13, <1>14, <1>15
<1> HIDE DEF Filled
<1>17. \A r \in 1 .. 14 : Filled(r)
  BY <1>16
<1> QED BY <1>1, <1>17 DEF Filled

\* Every statement of the revisions is of a table made by then.
LEMMA RevisionsFit ==
    \A r \in 1 .. 14 : \A s \in ToSet(Revisions[r]) : Fits(r, s)
<1> DEFINE AllFit(r) == \A s \in ToSet(Revisions[r]) : Fits(r, s)
<1>1. \A s \in ToSet(create_work_items) : Fits(1, s)
  <2>1. Fits(1, Table("work_items"))
    BY TableFits, Births, TheTables
  <2>2. Fits(1, Index("work_items", "ix_correlation_key"))
    BY IndexFits, Births, TheTables
  <2> QED BY <2>1, <2>2 DEF create_work_items, ToSet
<1>2. \A s \in ToSet(create_audit) : Fits(2, s)
  <2>1. Fits(2, Table("audit_entries"))
    BY TableFits, Births, TheTables
  <2>2. /\ Fits(2, Index("audit_entries", "ix_correlation_key"))
        /\ Fits(2, Index("audit_entries", "ix_ts"))
    BY IndexFits, Births, TheTables
  <2> QED BY <2>1, <2>2 DEF create_audit, ToSet
<1>3. \A s \in ToSet(audit_hmac_chain) : Fits(3, s)
  <2>1. /\ Fits(3, Column("audit_entries", "prev_hash"))
        /\ Fits(3, Column("audit_entries", "entry_hash"))
    BY OtherFits
  <2> QED BY <2>1 DEF audit_hmac_chain, ToSet
<1>4. \A s \in ToSet(work_items_tenant_id) : Fits(4, s)
  <2>1. /\ Fits(4, Column("work_items", "tenant_id"))
        /\ Fits(4, Index("work_items", "ix_tenant_id"))
    BY OtherFits
  <2> QED BY <2>1 DEF work_items_tenant_id, ToSet
<1>5. \A s \in ToSet(create_cards) : Fits(5, s)
  <2>1. Fits(5, Table("cards"))
    BY TableFits, Births, TheTables
  <2>2. /\ Fits(5, Index("cards", "ix_tenant_id"))
        /\ Fits(5, Index("cards", "ix_correlation_key"))
        /\ Fits(5, Index("cards", "ix_tenant_id_card_key"))
    BY IndexFits, Births, TheTables
  <2> QED BY <2>1, <2>2 DEF create_cards, ToSet
<1>6. \A s \in ToSet(cards_github_sync) : Fits(6, s)
  <2>1. /\ Fits(6, Column("cards", "issue_ref"))
        /\ Fits(6, Column("cards", "issue_state"))
        /\ Fits(6, Column("cards", "labels"))
        /\ Fits(6, Column("cards", "github_sync_error"))
    BY LateColumnFits, Births, TheTables, TheLateStatements
  <2>2. Fits(6, Index("cards", "ix_issue_ref"))
    BY LateIndexFits, Births, TheTables, TheLateStatements
  <2> QED BY <2>1, <2>2 DEF cards_github_sync, ToSet
<1>7. \A s \in ToSet(cards_stage_runs) : Fits(7, s)
  <2>1. Fits(7, Column("cards", "stage_runs"))
    BY LateColumnFits, Births, TheTables, TheLateStatements
  <2> QED BY <2>1 DEF cards_stage_runs, ToSet
<1>8. \A s \in ToSet(cards_issue_import) : Fits(8, s)
  <2>1. /\ Fits(8, Column("cards", "description"))
        /\ Fits(8, Column("cards", "deleted_at"))
    BY LateColumnFits, Births, TheTables, TheLateStatements
  <2>2. Fits(8, Index("cards", "ix_tenant_id_issue_ref"))
    BY LateIndexFits, Births, TheTables, TheLateStatements
  <2>3. Fits(8, Table("card_import_state"))
    BY TableFits, Births, TheTables
  <2>4. Fits(8, Index("card_import_state", "ix_tenant_project"))
    BY IndexFits, Births, TheTables
  <2> QED BY <2>1, <2>2, <2>3, <2>4 DEF cards_issue_import, ToSet
<1>9. \A s \in ToSet(create_tenant_git_config) : Fits(9, s)
  <2>1. Fits(9, Table("tenant_git_config"))
    BY TableFits, Births, TheTables
  <2>2. Fits(9, Index("tenant_git_config", "ix_tenant"))
    BY IndexFits, Births, TheTables
  <2> QED BY <2>1, <2>2 DEF create_tenant_git_config, ToSet
<1>10. \A s \in ToSet(create_tenant_git_credential) : Fits(10, s)
  <2>1. Fits(10, Table("tenant_git_credential"))
    BY TableFits, Births, TheTables
  <2>2. Fits(10, Index("tenant_git_credential", "ix_tenant"))
    BY IndexFits, Births, TheTables
  <2>3. Fits(10, Column("tenant_git_config", "credential_rejected"))
    BY LateColumnFits, Births, TheTables, TheLateStatements
  <2> QED BY <2>1, <2>2, <2>3 DEF create_tenant_git_credential, ToSet
<1>11. \A s \in ToSet(git_connections_and_repositories) : Fits(11, s)
  <2>1. /\ Fits(11, Table("git_connection"))
        /\ Fits(11, Table("git_repository"))
    BY TableFits, Births, TheTables
  <2>2. /\ Fits(11, Index("git_connection", "ix_tenant_id"))
        /\ Fits(11, Index("git_connection", "ix_tenant_provider_base"))
        /\ Fits(11, Index("git_repository", "ix_tenant_id"))
        /\ Fits(11, Index("git_repository", "ix_connection_id"))
        /\ Fits(11, Index("git_repository", "ix_connection_project"))
        /\ Fits(11, Index("git_repository", "ix_default"))
    BY IndexFits, Births, TheTables
  <2>3. /\ Fits(11, Column("tenant_git_credential", "connection_id"))
        /\ Fits(11, Column("tenant_git_credential", "aad_version"))
        /\ Fits(11, Column("cards", "repository_id"))
    BY LateColumnFits, Births, TheTables, TheLateStatements
  <2>4. Fits(11, DropIndex("tenant_git_credential", "ix_tenant"))
    BY OtherFits
  <2>5. /\ Fits(11, Index("tenant_git_credential", "ix_tenant_id"))
        /\ Fits(11, Index("tenant_git_credential", "ix_connection"))
    BY LateIndexFits, Births, TheTables, TheLateStatements
  <2> QED BY <2>1, <2>2, <2>3, <2>4, <2>5 DEF git_connections_and_repositories, ToSet
<1>12. \A s \in ToSet(card_import_poll_lease) : Fits(12, s)
  <2>1. /\ Fits(12, Column("card_import_state", "poll_leased_until"))
        /\ Fits(12, Column("card_import_state", "last_polled_at"))
    BY LateColumnFits, Births, TheTables, TheLateStatements
  <2> QED BY <2>1 DEF card_import_poll_lease, ToSet
<1>13. \A s \in ToSet(card_comments) : Fits(13, s)
  <2>1. Fits(13, Table("card_comments"))
    BY TableFits, Births, TheTables
  <2>2. /\ Fits(13, Index("card_comments", "ix_tenant_card"))
        /\ Fits(13, Index("card_comments", "ix_tenant_card_comment"))
    BY IndexFits, Births, TheTables
  <2>3. Fits(13, Column("cards", "comments_synced_at"))
    BY LateColumnFits, Births, TheTables, TheLateStatements
  <2> QED BY <2>1, <2>2, <2>3 DEF card_comments, ToSet
<1>14. \A s \in ToSet(git_install_flow) : Fits(14, s)
  <2>1. /\ Fits(14, Table("git_install"))
        /\ Fits(14, Table("git_install_state"))
    BY TableFits, Births, TheTables
  <2>2. /\ Fits(14, Index("git_install", "ix_tenant_id"))
        /\ Fits(14, Index("git_install", "ix_connection"))
        /\ Fits(14, Index("git_install_state", "ix_state_hash"))
    BY IndexFits, Births, TheTables
  <2> QED BY <2>1, <2>2 DEF git_install_flow, ToSet
<1>15. /\ AllFit(1) /\ AllFit(2) /\ AllFit(3) /\ AllFit(4) /\ AllFit(5) /\ AllFit(6) /\ AllFit(7)
       /\ AllFit(8) /\ AllFit(9) /\ AllFit(10) /\ AllFit(11) /\ AllFit(12) /\ AllFit(13)
       /\ AllFit(14)
  BY <1>1, <1>2, <1>3, <1>4, <1>5, <1>6, <1>7, <1>8, <1>9, <1>10, <1>11, <1>12, <1>13, <1>14, TheRevisions
<1> HIDE DEF AllFit
<1>16. \A r \in 1 .. 14 : AllFit(r)
  BY <1>15
<1> QED BY <1>16 DEF AllFit

\* What a release's schema has: what its revisions make, but for the index that
\* the eleventh drops.
LEMMA SchemaParts ==
    ASSUME NEW release \in 0 .. 14
    PROVE  /\ \A o \in SchemaAt(release) :
                 \E r \in 1 .. release : \E s \in ToSet(Revisions[r]) :
                    s.verb = "create" /\ s.object = o
           /\ \A r \in 1 .. release : \A s \in ToSet(Revisions[r]) :
                 s.verb = "create" /\ s.object # DroppedIndex => s.object \in SchemaAt(release)
           /\ release >= 11 => DroppedIndex \notin SchemaAt(release)
<1>1. \A o \in SchemaAt(release) :
         \E r \in 1 .. release : \E s \in ToSet(Revisions[r]) : s.verb = "create" /\ s.object = o
  BY DEF SchemaAt, Objects, Statements
<1>2. ASSUME NEW r \in 1 .. release, NEW s \in ToSet(Revisions[r]),
             s.verb = "create", s.object # DroppedIndex
      PROVE  s.object \in SchemaAt(release)
  <2>1. s \in Statements(release)
    BY DEF Statements
  <2>2. s.object \in Objects("create", Statements(release))
    BY <1>2, <2>1 DEF Objects
  <2>3. ASSUME s.object \in Objects("drop", Statements(release)) PROVE FALSE
    <3>1. PICK q \in Statements(release) : q.verb = "drop" /\ q.object = s.object
      BY <2>3 DEF Objects
    <3>2. PICK p \in 1 .. release : q \in ToSet(Revisions[p])
      BY DEF Statements
    <3>3. Fits(p, q)
      BY <3>2, RevisionsFit
    <3> QED BY <1>2, <3>1, <3>3 DEF Fits
  <2> QED BY <2>2, <2>3 DEF SchemaAt
<1>3. ASSUME release >= 11 PROVE DroppedIndex \notin SchemaAt(release)
  <2> DEFINE s == DropIndex("tenant_git_credential", "ix_tenant")
  <2>1. s \in ToSet(git_connections_and_repositories)
    BY DEF git_connections_and_repositories, ToSet
  <2>2. s \in ToSet(Revisions[11]) /\ 11 \in 1 .. release
    BY <1>3, <2>1, TheRevisions
  <2>3. s \in Statements(release)
    BY <2>2 DEF Statements
  <2>4. s.verb = "drop" /\ s.object = DroppedIndex
    BY StatementParts, KnownObjects
  <2>5. DroppedIndex \in Objects("drop", Statements(release))
    BY <2>3, <2>4 DEF Objects
  <2> QED BY <2>5 DEF SchemaAt
<1> QED BY <1>1, <1>2, <1>3

LEMMA NothingAtFirst == SchemaAt(0) = {}
  BY SchemaParts

LEMMA ModelsAreLatest == Models = SchemaAt(14)
  BY TheRevisions DEF Models

\* The models: their objects, and what of them the proofs name.
LEMMA ModelParts ==
    /\ \A o \in Models : /\ o = Object(TabOf(o), KindOf(o), NameOf(o))
                         /\ KindOf(o) \in {"table", "column", "index"}
                         /\ KindOf(o) = "table" => o = TableOf(o)
                         /\ TabOf(o) \in ToSet(Tables)
    /\ DroppedIndex \notin Models
<1>1. ASSUME NEW o \in Models
      PROVE  /\ o = Object(TabOf(o), KindOf(o), NameOf(o))
             /\ KindOf(o) \in {"table", "column", "index"}
             /\ KindOf(o) = "table" => o = TableOf(o)
             /\ TabOf(o) \in ToSet(Tables)
  <2>1. PICK r \in 1 .. 14 : \E s \in ToSet(Revisions[r]) : s.verb = "create" /\ s.object = o
    BY SchemaParts, ModelsAreLatest
  <2>2. PICK s \in ToSet(Revisions[r]) : s.object = o
    BY <2>1
  <2>3. Fits(r, s)
    BY RevisionsFit
  <2> QED BY <2>2, <2>3 DEF Fits, TableOf
<1>2. DroppedIndex \notin Models
  BY SchemaParts, ModelsAreLatest
<1> QED BY <1>1, <1>2

LEMMA RevisionMakes ==
    ASSUME NEW r \in 1 .. 14, NEW s \in ToSet(Revisions[r]), s.verb = "create",
           s.object # DroppedIndex
    PROVE  s.object \in Models
  BY SchemaParts, ModelsAreLatest

LEMMA TablesAreModels ==
    \A t \in ToSet(Tables) : /\ Table(t).object \in Models
                             /\ Table(t).object = Object(t, "table", t)
<1> DEFINE Has(r, t) == Table(t) \in ToSet(Revisions[r])
<1>1. Table("work_items") \in ToSet(create_work_items)
  BY DEF create_work_items, ToSet
<1>2. Table("audit_entries") \in ToSet(create_audit)
  BY DEF create_audit, ToSet
<1>3. Table("cards") \in ToSet(create_cards)
  BY DEF create_cards, ToSet
<1>4. Table("card_import_state") \in ToSet(cards_issue_import)
  BY DEF cards_issue_import, ToSet
<1>5. Table("tenant_git_config") \in ToSet(create_tenant_git_config)
  BY DEF create_tenant_git_config, ToSet
<1>6. Table("tenant_git_credential") \in ToSet(create_tenant_git_credential)
  BY DEF create_tenant_git_credential, ToSet
<1>7. /\ Table("git_connection") \in ToSet(git_connections_and_repositories)
      /\ Table("git_repository") \in ToSet(git_connections_and_repositories)
  BY DEF git_connections_and_repositories, ToSet
<1>8. Table("card_comments") \in ToSet(card_comments)
  BY DEF card_comments, ToSet
<1>9. /\ Table("git_install") \in ToSet(git_install_flow)
      /\ Table("git_install_state") \in ToSet(git_install_flow)
  BY DEF git_install_flow, ToSet
<1>10. /\ Has(1, "work_items") /\ Has(2, "audit_entries") /\ Has(5, "cards")
       /\ Has(8, "card_import_state") /\ Has(9, "tenant_git_config")
       /\ Has(10, "tenant_git_credential") /\ Has(11, "git_connection")
       /\ Has(11, "git_repository") /\ Has(13, "card_comments")
       /\ Has(14, "git_install") /\ Has(14, "git_install_state")
  BY <1>1, <1>2, <1>3, <1>4, <1>5, <1>6, <1>7, <1>8, <1>9, TheRevisions
<1> HIDE DEF Has
<1>11. \A t \in ToSet(Tables) : \E r \in 1 .. 14 : Has(r, t)
  BY <1>10, TheTables
<1>12. ASSUME NEW t \in ToSet(Tables)
       PROVE  Table(t).object \in Models /\ Table(t).object = Object(t, "table", t)
  <2>1. PICK r \in 1 .. 14 : Table(t) \in ToSet(Revisions[r])
    BY <1>11 DEF Has
  <2>2. Table(t).verb = "create" /\ Table(t).object = Object(t, "table", t)
    BY StatementParts
  <2>3. Object(t, "table", t) # DroppedIndex
    BY ObjectParts DEF DroppedIndex
  <2> QED BY <2>1, <2>2, <2>3, RevisionMakes
<1> QED BY <1>12

\* What the guards make, the models have.
LEMMA LateAreModels ==
    /\ \A s \in ToSet(late_statements) :
          \/ s.verb = "drop" /\ s.object = DroppedIndex
          \/ s.verb = "create" /\ s.object \in Models /\ s.object # DroppedIndex
    /\ DroppedIndex \in LateObjects
    /\ IssueIndex \in LateObjects
<1> DEFINE Has(r, s) == s \in ToSet(Revisions[r])
<1>1. /\ Has(6, Column("cards", "issue_ref")) /\ Has(6, Column("cards", "issue_state"))
      /\ Has(6, Column("cards", "labels")) /\ Has(6, Column("cards", "github_sync_error"))
      /\ Has(6, Index("cards", "ix_issue_ref"))
  <2>1. {Column("cards", "issue_ref"), Column("cards", "issue_state"), Column("cards", "labels"),
         Column("cards", "github_sync_error"), Index("cards", "ix_issue_ref")}
            \subseteq ToSet(cards_github_sync)
    BY DEF cards_github_sync, ToSet
  <2> QED BY <2>1, TheRevisions
<1>2. Has(7, Column("cards", "stage_runs"))
  <2>1. Column("cards", "stage_runs") \in ToSet(cards_stage_runs)
    BY DEF cards_stage_runs, ToSet
  <2> QED BY <2>1, TheRevisions
<1>3. /\ Has(8, Column("cards", "description")) /\ Has(8, Column("cards", "deleted_at"))
      /\ Has(8, Index("cards", "ix_tenant_id_issue_ref"))
  <2>1. {Column("cards", "description"), Column("cards", "deleted_at"),
         Index("cards", "ix_tenant_id_issue_ref")} \subseteq ToSet(cards_issue_import)
    BY DEF cards_issue_import, ToSet
  <2> QED BY <2>1, TheRevisions
<1>4. Has(10, Column("tenant_git_config", "credential_rejected"))
  <2>1. Column("tenant_git_config", "credential_rejected") \in ToSet(create_tenant_git_credential)
    BY DEF create_tenant_git_credential, ToSet
  <2> QED BY <2>1, TheRevisions
<1>5. /\ Has(11, Column("tenant_git_credential", "connection_id"))
      /\ Has(11, Column("tenant_git_credential", "aad_version"))
      /\ Has(11, Column("cards", "repository_id"))
      /\ Has(11, Index("tenant_git_credential", "ix_connection"))
      /\ Has(11, Index("tenant_git_credential", "ix_tenant_id"))
  <2>1. {Column("tenant_git_credential", "connection_id"),
         Column("tenant_git_credential", "aad_version"), Column("cards", "repository_id"),
         Index("tenant_git_credential", "ix_connection"),
         Index("tenant_git_credential", "ix_tenant_id")}
            \subseteq ToSet(git_connections_and_repositories)
    BY DEF git_connections_and_repositories, ToSet
  <2> QED BY <2>1, TheRevisions
<1>6. /\ Has(12, Column("card_import_state", "poll_leased_until"))
      /\ Has(12, Column("card_import_state", "last_polled_at"))
  <2>1. {Column("card_import_state", "poll_leased_until"),
         Column("card_import_state", "last_polled_at")} \subseteq ToSet(card_import_poll_lease)
    BY DEF card_import_poll_lease, ToSet
  <2> QED BY <2>1, TheRevisions
<1>7. Has(13, Column("cards", "comments_synced_at"))
  <2>1. Column("cards", "comments_synced_at") \in ToSet(card_comments)
    BY DEF card_comments, ToSet
  <2> QED BY <2>1, TheRevisions
<1> HIDE DEF Has
<1>8. \A s \in ToSet(late_statements) :
         \/ s = DropIndex("tenant_git_credential", "ix_tenant")
         \/ \E r \in 1 .. 14 : Has(r, s)
  BY <1>1, <1>2, <1>3, <1>4, <1>5, <1>6, <1>7, TheLateStatements
<1>9. ASSUME NEW s \in ToSet(late_statements)
      PROVE  \/ s.verb = "drop" /\ s.object = DroppedIndex
             \/ s.verb = "create" /\ s.object \in Models /\ s.object # DroppedIndex
  <2>1. CASE s = DropIndex("tenant_git_credential", "ix_tenant")
    BY <2>1, StatementParts, KnownObjects
  <2>2. CASE s # DropIndex("tenant_git_credential", "ix_tenant")
    <3>1. PICK r \in 1 .. 14 : s \in ToSet(Revisions[r])
      BY <1>8, <2>2 DEF Has
    <3>2. PICK t, k, n : s.verb = "create" /\ s.object = Object(t, k, n) /\ n # "ix_tenant"
      BY <2>2, LateParts
    <3>3. s.object # DroppedIndex
      BY <3>2, ObjectParts DEF DroppedIndex
    <3> QED BY <3>1, <3>2, <3>3, RevisionMakes
  <2> QED BY <2>1, <2>2
<1>10. DropIndex("tenant_git_credential", "ix_tenant").object \in LateObjects
  BY TheLateStatements DEF LateObjects
<1>11. Index("cards", "ix_tenant_id_issue_ref").object \in LateObjects
  BY TheLateStatements DEF LateObjects
<1> QED BY <1>9, <1>10, <1>11, KnownObjects

LEMMA TenantAreModels ==
    /\ TenantObjects \subseteq Models
    /\ \A s \in ToSet(Revisions[4]) : s.verb = "create"
    /\ \E s \in ToSet(Revisions[4]) : s.object = TenantIndex
<1>1. ToSet(Revisions[4]) =
         {Column("work_items", "tenant_id"), Index("work_items", "ix_tenant_id")}
  BY TheRevisions DEF work_items_tenant_id, ToSet
<1>2. /\ Column("work_items", "tenant_id").object = TenantColumn
      /\ Index("work_items", "ix_tenant_id").object = TenantIndex
      /\ Column("work_items", "tenant_id").verb = "create"
      /\ Index("work_items", "ix_tenant_id").verb = "create"
  BY StatementParts DEF TenantColumn, TenantIndex
<1>3. TenantColumn # DroppedIndex /\ TenantIndex # DroppedIndex
  BY KnownObjects
<1>4. TenantColumn \in Models /\ TenantIndex \in Models
  BY <1>1, <1>2, <1>3, RevisionMakes
<1> QED BY <1>1, <1>2, <1>4, TheTenantStatements

LEMMA NamedAreModels ==
    /\ CardsTable \in Models
    /\ IssueIndex \in Models
<1>1. "cards" \in ToSet(Tables)
  BY TheTables
<1>2. CardsTable \in Models
  BY <1>1, TablesAreModels DEF CardsTable
<1>3. PICK s \in ToSet(late_statements) : s.object = IssueIndex
  BY LateAreModels DEF LateObjects
<1> QED BY <1>2, <1>3, LateAreModels, KnownObjects

\* The models of a release with the hash chain, create_all and the guards complete.
LEMMA ReleasesAreRepairable ==
    ASSUME NEW release \in 3 .. 14
    PROVE  Repairable(SchemaAt(release))
<1>1. ASSUME NEW o \in SchemaAt(release) PROVE o \in Models \cup {DroppedIndex}
  <2>1. PICK r \in 1 .. release : \E s \in ToSet(Revisions[r]) : s.verb = "create" /\ s.object = o
    BY SchemaParts
  <2> QED BY <2>1, RevisionMakes
<1>2. ASSUME NEW o \in Models, o \notin SchemaAt(release), TableOf(o) \in SchemaAt(release)
      PROVE  o \in LateObjects \cup TenantObjects
  <2>1. PICK q \in 1 .. 14 : \E s \in ToSet(Revisions[q]) : s.verb = "create" /\ s.object = o
    BY SchemaParts, ModelsAreLatest
  <2>2. PICK s \in ToSet(Revisions[q]) : s.verb = "create" /\ s.object = o
    BY <2>1
  <2>3. ~(q \in 1 .. release)
    BY <1>2, <2>2, SchemaParts, ModelParts
  <2>4. PICK p \in 1 .. release :
            \E z \in ToSet(Revisions[p]) : z.verb = "create" /\ z.object = TableOf(o)
    BY <1>2, SchemaParts
  <2>5. PICK z \in ToSet(Revisions[p]) : z.verb = "create" /\ z.object = TableOf(o)
    BY <2>4
  <2>6. p \in 1 .. 14 /\ Fits(p, z) /\ Fits(q, s)
    BY RevisionsFit
  <2>7. KindOf(TableOf(o)) = "table" /\ TabOf(TableOf(o)) = TabOf(o)
    BY ObjectParts DEF TableOf
  <2>8. Birth(TabOf(o)) = p
    BY <2>5, <2>6, <2>7 DEF Fits
  <2>9. q > release
    BY <2>3
  <2> QED BY <2>2, <2>6, <2>8, <2>9 DEF Fits
<1>3. ASSUME TenantColumn \in SchemaAt(release) PROVE TenantIndex \in SchemaAt(release)
  <2>1. PICK r \in 1 .. release :
            \E s \in ToSet(Revisions[r]) : s.verb = "create" /\ s.object = TenantColumn
    BY <1>3, SchemaParts
  <2>2. PICK s \in ToSet(Revisions[r]) : s.object = TenantColumn
    BY <2>1
  <2>3. r \in 1 .. 14 /\ Fits(r, s)
    BY RevisionsFit
  <2>4. r = 4
    BY <2>2, <2>3, TheTenantStatements DEF Fits
  <2>5. PICK z \in ToSet(Revisions[4]) : z.object = TenantIndex /\ z.verb = "create"
    BY TenantAreModels
  <2>6. 4 \in 1 .. release /\ TenantIndex # DroppedIndex
    BY <2>4, KnownObjects
  <2> QED BY <2>5, <2>6, SchemaParts
<1> QED BY <1>1, <1>2, <1>3 DEF Repairable

\* A schema with a column of the cards has their table.
LEMMA CardsHaveTheirTable ==
    ASSUME NEW release \in 0 .. 14, Column("cards", "issue_ref").object \in SchemaAt(release)
    PROVE  CardsTable \in SchemaAt(release)
<1>1. PICK r \in 1 .. release : \E s \in ToSet(Revisions[r]) :
          s.verb = "create" /\ s.object = Column("cards", "issue_ref").object
  BY SchemaParts
<1>2. PICK s \in ToSet(Revisions[r]) : s.object = Column("cards", "issue_ref").object
  BY <1>1
<1>3. r \in 1 .. 14 /\ Fits(r, s)
  BY RevisionsFit
<1>4. TabOf(s.object) = "cards"
  BY <1>2, StatementParts, ObjectParts
<1>5. 5 \in 1 .. release
  BY <1>3, <1>4, Births DEF Fits
<1>6. Table("cards") \in ToSet(Revisions[5])
  BY TheRevisions DEF create_cards, ToSet
<1>7. Table("cards").verb = "create" /\ Table("cards").object = CardsTable
  BY StatementParts, KnownObjects
<1> QED BY <1>5, <1>6, <1>7, SchemaParts, KnownObjects

\* A statement takes the schema in the middle of a revision one further.
LEMMA StatementByStatement ==
    ASSUME NEW release \in 0 .. 13
    PROVE  /\ Midway(release, 0) = SchemaAt(release)
           /\ Midway(release, Len(Revisions[release + 1])) = SchemaAt(release + 1)
           /\ \A done \in 0 .. Len(Revisions[release + 1]) - 1 :
                 Midway(release, done + 1) =
                     RunOn(Revisions[release + 1][done + 1], Midway(release, done))
<1> DEFINE rev == Revisions[release + 1]
<1>0. release + 1 \in 1 .. 14
  OBVIOUS
<1>1. release + 1 \in 1 .. 14 /\ Len(rev) \in Nat /\ Len(rev) > 0 /\ DOMAIN rev = 1 .. Len(rev)
  BY <1>0, TheRevisions
<1> DEFINE Seen(done) == Statements(release) \cup {rev[i] : i \in 1 .. done}
<1>2. \A done : Midway(release, done) =
                   Objects("create", Seen(done)) \ Objects("drop", Seen(done))
  BY DEF Midway
<1>3. Seen(0) = Statements(release)
  OBVIOUS
<1>4. Seen(Len(rev)) = Statements(release + 1)
  <2>1. {rev[i] : i \in 1 .. Len(rev)} = ToSet(rev)
    BY <1>1 DEF ToSet
  <2>2. \A s : s \in Statements(release + 1) <=> s \in Statements(release) \/ s \in ToSet(rev)
    <3>1. \A r : r \in 1 .. release + 1 <=> r \in 1 .. release \/ r = release + 1
      OBVIOUS
    <3> QED BY <3>1 DEF Statements
  <2> QED BY <2>1, <2>2
<1>5. ASSUME NEW done \in 0 .. Len(rev) - 1
      PROVE  Midway(release, done + 1) = RunOn(rev[done + 1], Midway(release, done))
  <2> DEFINE s == rev[done + 1]
  <2>1. done + 1 \in 1 .. Len(rev) /\ s \in ToSet(rev)
    BY <1>1 DEF ToSet
  <2>2. Fits(release + 1, s)
    BY <1>1, <2>1, RevisionsFit
  <2>3. Seen(done + 1) = Seen(done) \cup {s}
    <3>1. \A i : i \in 1 .. done + 1 <=> i \in 1 .. done \/ i = done + 1
      BY <1>1
    <3> QED BY <3>1
  <2>4. ASSUME s.verb = "create" PROVE s.object \notin Objects("drop", Seen(done))
    <3>1. SUFFICES ASSUME NEW q \in Seen(done), q.verb = "drop", q.object = s.object
                   PROVE  FALSE
      BY DEF Objects
    <3>2. PICK p \in 1 .. release + 1 : q \in ToSet(Revisions[p])
      <4>1. CASE q \in Statements(release)
        BY <4>1 DEF Statements
      <4>2. CASE q \in {rev[i] : i \in 1 .. done}
        BY <1>1, <4>2 DEF ToSet
      <4> QED BY <4>1, <4>2
    <3>3. p \in 1 .. 14 /\ Fits(p, q)
      <4>1. p \in 1 .. 14
        OBVIOUS
      <4> QED BY <3>2, <4>1, RevisionsFit
    <3>4. q.object = DroppedIndex /\ p = 11
      BY <3>1, <3>3 DEF Fits
    <3>5. release + 1 = 10
      BY <2>2, <2>4, <3>1, <3>4 DEF Fits
    <3> QED BY <3>2, <3>4, <3>5
  <2> HIDE DEF Seen, s
  <2>5. Objects("drop", Seen(done) \cup {s}) =
            Objects("drop", Seen(done)) \cup (IF s.verb = "drop" THEN {s.object} ELSE {})
    BY DEF Objects
  <2>6. Objects("create", Seen(done) \cup {s}) =
            Objects("create", Seen(done)) \cup (IF s.verb = "create" THEN {s.object} ELSE {})
    BY DEF Objects
  <2>7. s.verb \in {"create", "drop"}
    BY <2>2 DEF Fits
  <2>8. PICK made, dropped, o :
            /\ made = Objects("create", Seen(done))
            /\ dropped = Objects("drop", Seen(done))
            /\ o = s.object
    OBVIOUS
  <2>9. Midway(release, done) = made \ dropped
    BY <1>2, <2>8
  <2>10. CASE s.verb = "create"
    <3>1. Midway(release, done + 1) = (made \cup {o}) \ dropped
      <4>1. /\ Objects("drop", Seen(done + 1)) = dropped
            /\ Objects("create", Seen(done + 1)) = made \cup {o}
        BY <2>3, <2>5, <2>6, <2>8, <2>10
      <4> QED BY <1>2, <4>1
    <3>2. RunOn(s, Midway(release, done)) = (made \ dropped) \cup {o}
      BY <2>8, <2>9, <2>10 DEF RunOn
    <3>3. o \notin dropped
      BY <2>4, <2>8, <2>10
    <3>4. (made \cup {o}) \ dropped = (made \ dropped) \cup {o}
      BY <3>3
    <3> QED BY <3>1, <3>2, <3>4 DEF s
  <2>11. CASE s.verb = "drop"
    <3>1. Midway(release, done + 1) = made \ (dropped \cup {o})
      <4>1. /\ Objects("drop", Seen(done + 1)) = dropped \cup {o}
            /\ Objects("create", Seen(done + 1)) = made
        BY <2>3, <2>5, <2>6, <2>8, <2>11
      <4> QED BY <1>2, <4>1
    <3>2. RunOn(s, Midway(release, done)) = (made \ dropped) \ {o}
      BY <2>8, <2>9, <2>11 DEF RunOn
    <3>3. made \ (dropped \cup {o}) = (made \ dropped) \ {o}
      OBVIOUS
    <3> QED BY <3>1, <3>2, <3>3 DEF s
  <2> QED BY <2>7, <2>10, <2>11
<1> HIDE DEF Seen
<1>6. Midway(release, 0) = SchemaAt(release)
  BY <1>2, <1>3 DEF SchemaAt
<1>7. Midway(release, Len(rev)) = SchemaAt(release + 1)
  BY <1>2, <1>4 DEF SchemaAt
<1> QED BY <1>5, <1>6, <1>7

-----------------------------------------------------------------------------
\* A database but for one field.
LEMMA WithSchema ==
    ASSUME NEW db, IsDatabase(db), NEW s
    PROVE  \E new : /\ new = [db EXCEPT !.schema = s]
                    /\ IsDatabase(new) /\ new.schema = s
                    /\ new.versioned = db.versioned /\ new.revision = db.revision
<1>1. PICK a, b, c : db = [schema |-> a, versioned |-> b, revision |-> c]
  BY DEF IsDatabase
<1> DEFINE new == [db EXCEPT !.schema = s]
<1>2. new = [schema |-> s, versioned |-> b, revision |-> c]
  BY <1>1
<1>3. new.schema = s /\ new.versioned = b /\ new.revision = c /\ IsDatabase(new)
  BY <1>2 DEF IsDatabase
<1>4. db.schema = a /\ db.versioned = b /\ db.revision = c
  BY <1>1
<1>5. new = [db EXCEPT !.schema = s]
  OBVIOUS
<1> HIDE DEF new
<1> QED BY <1>3, <1>4, <1>5

LEMMA WithVersions ==
    ASSUME NEW db, IsDatabase(db), NEW v
    PROVE  \E new : /\ new = [db EXCEPT !.versioned = v]
                    /\ IsDatabase(new) /\ new.versioned = v
                    /\ new.schema = db.schema /\ new.revision = db.revision
<1>1. PICK a, b, c : db = [schema |-> a, versioned |-> b, revision |-> c]
  BY DEF IsDatabase
<1> DEFINE new == [db EXCEPT !.versioned = v]
<1>2. new = [schema |-> a, versioned |-> v, revision |-> c]
  BY <1>1
<1>3. new.schema = a /\ new.versioned = v /\ new.revision = c /\ IsDatabase(new)
  BY <1>2 DEF IsDatabase
<1>4. db.schema = a /\ db.versioned = b /\ db.revision = c
  BY <1>1
<1>5. new = [db EXCEPT !.versioned = v]
  OBVIOUS
<1> HIDE DEF new
<1> QED BY <1>3, <1>4, <1>5

LEMMA WithRevision ==
    ASSUME NEW db, IsDatabase(db), NEW r
    PROVE  \E new : /\ new = [db EXCEPT !.revision = r]
                    /\ IsDatabase(new) /\ new.revision = r
                    /\ new.schema = db.schema /\ new.versioned = db.versioned
<1>1. PICK a, b, c : db = [schema |-> a, versioned |-> b, revision |-> c]
  BY DEF IsDatabase
<1> DEFINE new == [db EXCEPT !.revision = r]
<1>2. new = [schema |-> a, versioned |-> b, revision |-> r]
  BY <1>1
<1>3. new.schema = a /\ new.versioned = b /\ new.revision = r /\ IsDatabase(new)
  BY <1>2 DEF IsDatabase
<1>4. db.schema = a /\ db.versioned = b /\ db.revision = c
  BY <1>1
<1>5. new = [db EXCEPT !.revision = r]
  OBVIOUS
<1> HIDE DEF new
<1> QED BY <1>3, <1>4, <1>5

LEMMA RecordsAreDatabases ==
    ASSUME NEW s, NEW v, NEW r
    PROVE  LET db == [schema |-> s, versioned |-> v, revision |-> r] IN
           /\ IsDatabase(db) /\ db.schema = s /\ db.versioned = v /\ db.revision = r
  BY DEF IsDatabase

LEMMA WhatApplies ==
    ASSUME NEW s, NEW schema
    PROVE  Applies(s, schema) <=>
              /\ s.verb = "drop" <=> s.object \in schema
              /\ KindOf(s.object) # "table" => TableOf(s.object) \in schema
              /\ ~(s.object = IssueIndex /\ duplicates)
  BY DEF Applies, KindOf, TableOf, TabOf, Object

\* A write in the middle of a unit.
LEMMA UnitGoesOn ==
    ASSUME OnDisk, NEW new, ToDisk(new), UNCHANGED database,
           stage' \notin {"down", "guards", "serving"}, TwinsKept(new.schema)
    PROVE  OnDisk'
<1>1. /\ work' = new
      /\ disk' = IF transactional THEN disk ELSE new
      /\ partial' = ~transactional
      /\ duplicates' = duplicates /\ transactional' = transactional
  BY DEF ToDisk, database
<1>2. (~partial => Finishable(disk))'
  <2>1. CASE transactional
    BY <1>1, <2>1 DEF OnDisk
  <2>2. CASE ~transactional
    BY <1>1, <2>2
  <2> QED BY <2>1, <2>2
<1>3. TwinsKept(disk.schema)' /\ TwinsKept(work.schema)'
  BY <1>1 DEF OnDisk, TwinsKept
<1> QED BY <1>1, <1>2, <1>3 DEF OnDisk

\* A write that ends a unit.
LEMMA UnitEnds ==
    ASSUME OnDisk, NEW new, NEW commits, FinishWrite(new, commits), UNCHANGED database,
           stage' # "down", stage' \in {"guards", "serving"} => commits,
           Finishable(new), TwinsKept(new.schema)
    PROVE  OnDisk'
<1>1. /\ work' = new
      /\ disk' = IF transactional /\ ~commits THEN disk ELSE new
      /\ partial' = FALSE
      /\ duplicates' = duplicates /\ transactional' = transactional
  BY DEF FinishWrite, database
<1>2. Finishable(disk)'
  <2>1. CASE transactional /\ ~commits
    BY <1>1, <2>1 DEF OnDisk
  <2>2. CASE ~(transactional /\ ~commits)
    BY <1>1, <2>2
  <2> QED BY <2>1, <2>2
<1>3. TwinsKept(disk.schema)' /\ TwinsKept(work.schema)'
  BY <1>1 DEF OnDisk, TwinsKept
<1> QED BY <1>1, <1>2, <1>3 DEF OnDisk

-----------------------------------------------------------------------------
(* One lemma per step of a boot.                                             *)

LEMMA BootKeeps ==
    ASSUME Sound, Boot PROVE Sound'
<1>1. /\ stage = "down" /\ stage' = bootstrap_path /\ at' = 0
      /\ UNCHANGED <<database, disk, work, partial, crashes, torn>>
  BY DEF Boot, Goto
<1>2. work = disk /\ Finishable(disk) /\ ~partial
  BY <1>1 DEF Sound, OnDisk
<1>3. OnDisk'
  BY <1>1, <1>2 DEF Sound, OnDisk, TwinsKept, bootstrap_path, database
<1>4. CASE disk.versioned \/ disk.schema = {}
  <2>1. stage' = "upgrade"
    BY <1>1, <1>4 DEF bootstrap_path
  <2>2. \/ ~disk.versioned /\ disk.revision = 0 /\ disk.schema = {}
        \/ disk.versioned /\ disk.schema = SchemaAt(disk.revision)
        \/ disk.versioned /\ disk.revision = Latest /\ Repairable(disk.schema)
    BY <1>2, <1>4 DEF Finishable
  <2>3. disk.revision \in 0 .. Latest
    BY <1>2 DEF Finishable
  <2>4. Upgrading'
    BY <1>1, <1>2, <2>2, <2>3 DEF Upgrading
  <2> QED BY <1>3, <2>1, <2>4 DEF Sound, AtRest, Creating, Indexing, Guarding, Tenanting
<1>5. CASE ~(disk.versioned \/ disk.schema = {})
  <2>1. stage' = "stamp"
    BY <1>1, <1>5 DEF bootstrap_path
  <2>2. Repairable(disk.schema)
    BY <1>2, <1>5 DEF Finishable
  <2>3. AtRest'
    BY <1>1, <1>2, <2>1, <2>2 DEF AtRest
  <2> QED BY <1>3, <2>1, <2>3 DEF Sound, Upgrading, Creating, Indexing, Guarding, Tenanting
<1> QED BY <1>4, <1>5

LEMMA MakeVersionTableKeeps ==
    ASSUME Sound, IsDatabase(work), MakeVersionTable PROVE Sound'
<1>1. PICK new : /\ new = [work EXCEPT !.versioned = TRUE]
                 /\ new.versioned = TRUE
                 /\ new.schema = work.schema /\ new.revision = work.revision
  BY WithVersions
<1>2. /\ ~work.versioned
      /\ stage' = stage /\ at' = at
      /\ UNCHANGED database
      /\ OnDisk /\ TwinsKept(new.schema)
  BY <1>1 DEF MakeVersionTable, Sound, OnDisk
<1>3. CASE stage = "stamp"
  <2>1. ToDisk(new)
    BY <1>1, <1>3 DEF MakeVersionTable
  <2>2. OnDisk'
    BY <1>2, <1>3, <2>1, UnitGoesOn
  <2>3. AtRest'
    BY <1>1, <1>2, <1>3, <2>1 DEF Sound, AtRest, ToDisk
  <2> QED BY <1>2, <1>3, <2>2, <2>3 DEF Sound, Upgrading, Creating, Indexing, Guarding, Tenanting
<1>4. CASE stage = "upgrade"
  <2>1. FinishWrite(new, FALSE)
    BY <1>1, <1>4 DEF MakeVersionTable
  <2>2. work.schema = {} /\ work.revision = 0 /\ at = 0
    BY <1>2, <1>4 DEF Sound, Upgrading
  <2>3. 0 \in 0 .. Latest
    BY TheRevisions
  <2>4. Finishable(new)
    BY <1>1, <2>2, <2>3, NothingAtFirst DEF Finishable
  <2>5. OnDisk'
    BY <1>2, <1>4, <2>1, <2>4, UnitEnds
  <2>6. work' = new
    BY <2>1 DEF FinishWrite
  <2>7. Upgrading'
    BY <1>1, <1>2, <2>2, <2>3, <2>6, NothingAtFirst DEF Upgrading
  <2> QED BY <1>2, <1>4, <2>5, <2>7 DEF Sound, AtRest, Creating, Indexing, Guarding, Tenanting
<1> QED BY <1>3, <1>4 DEF MakeVersionTable

\* Where an upgrade with a revision to run stands.
LEMMA UpgradeStands ==
    ASSUME Sound, stage = "upgrade", work.versioned, work.revision < Latest
    PROVE  /\ work.revision \in 0 .. 13
           /\ at \in 0 .. Len(Pending)
           /\ work.schema = Midway(work.revision, at)
           /\ Len(Pending) \in Nat /\ Len(Pending) > 0
           /\ DOMAIN Pending = 1 .. Len(Pending)
<1>1. Latest = 14
  BY TheRevisions
<1>2. work.revision \in 0 .. 13
  BY <1>1 DEF Sound, Upgrading
<1>3. work.revision + 1 \in 1 .. 14
  BY <1>2
<1>4. /\ Len(Pending) \in Nat /\ Len(Pending) > 0
      /\ DOMAIN Pending = 1 .. Len(Pending)
  BY <1>3, TheRevisions DEF Pending
<1>5. \/ at = 0 /\ work.schema = SchemaAt(work.revision)
      \/ at \in 1 .. Len(Pending) /\ work.schema = Midway(work.revision, at)
  BY <1>1, <1>2 DEF Sound, Upgrading
<1>6. Midway(work.revision, 0) = SchemaAt(work.revision)
  BY <1>2, StatementByStatement
<1> QED BY <1>2, <1>4, <1>5, <1>6

LEMMA RunStatementKeeps ==
    ASSUME Sound, IsDatabase(work), RunStatement PROVE Sound'
<1>1. /\ stage = "upgrade" /\ work.versioned /\ work.revision < Latest
      /\ at < Len(Pending)
      /\ UNCHANGED <<database, crashes, torn>>
  BY DEF RunStatement
<1>2. /\ work.revision \in 0 .. 13
      /\ at \in 0 .. Len(Pending)
      /\ work.schema = Midway(work.revision, at)
      /\ Len(Pending) \in Nat /\ DOMAIN Pending = 1 .. Len(Pending)
  BY <1>1, UpgradeStands
<1> DEFINE statement == Pending[at + 1]
<1>3. CASE ~Applies(statement, work.schema)
  <2>1. stage' = "failed" /\ at' = 0 /\ UNCHANGED <<database, disk, work, partial>>
    BY <1>3 DEF RunStatement, Goto
  <2>2. OnDisk'
    BY <1>1, <2>1 DEF Sound, OnDisk, TwinsKept, database
  <2> QED BY <2>1, <2>2 DEF Sound, AtRest, Upgrading, Creating, Indexing, Guarding, Tenanting
<1>4. CASE Applies(statement, work.schema)
  <2>1. PICK new : /\ new = [work EXCEPT !.schema = RunOn(statement, work.schema)]
                   /\ new.schema = RunOn(statement, work.schema)
                   /\ new.versioned = work.versioned /\ new.revision = work.revision
    <3> HIDE DEF statement
    <3>1. PICK s : s = RunOn(statement, work.schema)
      OBVIOUS
    <3>2. PICK new : /\ new = [work EXCEPT !.schema = s] /\ new.schema = s
                     /\ new.versioned = work.versioned /\ new.revision = work.revision
      BY WithSchema
    <3> QED BY <3>1, <3>2
  <2>2. ToDisk(new) /\ at' = at + 1 /\ stage' = stage
    BY <1>4, <2>1 DEF RunStatement
  <2>3. at \in 0 .. Len(Pending) - 1 /\ at + 1 \in 1 .. Len(Pending)
    BY <1>1, <1>2
  <2>4. new.schema = Midway(work.revision, at + 1)
    BY <1>2, <2>1, <2>3, StatementByStatement DEF Pending
  <2>5. work.revision + 1 \in 1 .. 14 /\ statement \in ToSet(Revisions[work.revision + 1])
    BY <1>2, <2>3 DEF Pending, ToSet
  <2>6. Fits(work.revision + 1, statement)
    BY <2>5, RevisionsFit
  <2> HIDE DEF statement
  <2>7. TwinsKept(new.schema)
    BY <1>4, <2>1, <2>6, WhatApplies, KnownObjects DEF Sound, OnDisk, TwinsKept, RunOn, Fits
  <2>8. OnDisk'
    BY <1>1, <2>2, <2>7, UnitGoesOn DEF Sound
  <2>9. work' = new
    BY <2>2 DEF ToDisk
  <2>10. Latest = 14
    BY TheRevisions
  <2>11. Pending' = Pending /\ Midway(work.revision, at + 1) = Midway(work'.revision, at')
    BY <2>1, <2>2, <2>9 DEF Pending
  <2>12. Upgrading'
    <3>1. /\ work'.versioned /\ work'.revision = work.revision
          /\ work'.schema = Midway(work.revision, at + 1)
      BY <1>1, <2>1, <2>4, <2>9
    <3>2. /\ work'.revision \in 0 .. Latest /\ work'.revision < Latest
          /\ at' \in 1 .. Len(Pending')
      BY <1>2, <2>2, <2>3, <2>10, <2>11, <3>1
    <3> QED BY <2>11, <3>1, <3>2, <2>4 DEF Upgrading
  <2> QED BY <1>1, <2>2, <2>8, <2>12 DEF Sound, AtRest, Creating, Indexing, Guarding, Tenanting
<1> QED BY <1>3, <1>4

LEMMA RecordRevisionKeeps ==
    ASSUME Sound, IsDatabase(work), RecordRevision PROVE Sound'
<1>1. /\ stage = "upgrade" /\ work.versioned /\ work.revision < Latest
      /\ at = Len(Pending) /\ at' = 0 /\ stage' = stage
      /\ UNCHANGED database
  BY DEF RecordRevision
<1>2. /\ work.revision \in 0 .. 13
      /\ work.schema = Midway(work.revision, at)
  BY <1>1, UpgradeStands
<1>3. PICK new : /\ new = [work EXCEPT !.revision = work.revision + 1]
                 /\ new.revision = work.revision + 1
                 /\ new.versioned = work.versioned /\ new.schema = work.schema
  <2>1. PICK r : r = work.revision + 1
    OBVIOUS
  <2>2. PICK new : /\ new = [work EXCEPT !.revision = r] /\ new.revision = r
                   /\ new.versioned = work.versioned /\ new.schema = work.schema
    BY WithRevision
  <2> QED BY <2>1, <2>2
<1>4. FinishWrite(new, FALSE) /\ work' = new
  BY <1>3 DEF RecordRevision, FinishWrite
<1>5. new.schema = SchemaAt(new.revision)
  <2>1. Midway(work.revision, Len(Revisions[work.revision + 1])) = SchemaAt(work.revision + 1)
    BY <1>2, StatementByStatement
  <2>2. Midway(work.revision, at) = SchemaAt(work.revision + 1)
    BY <1>1, <2>1 DEF Pending
  <2>3. SchemaAt(new.revision) = SchemaAt(work.revision + 1)
    BY <1>3
  <2> QED BY <1>2, <1>3, <2>2, <2>3
<1>6. new.revision \in 0 .. Latest
  <2>1. Latest = 14
    BY TheRevisions
  <2>2. work.revision + 1 \in 0 .. 14
    BY <1>2
  <2> QED BY <1>3, <2>1, <2>2
<1>7. Finishable(new) /\ TwinsKept(new.schema) /\ OnDisk
  BY <1>1, <1>3, <1>5, <1>6 DEF Finishable, Sound, OnDisk
<1>8. OnDisk'
  BY <1>1, <1>4, <1>7, UnitEnds
<1>9. Upgrading'
  BY <1>1, <1>3, <1>4, <1>5, <1>6 DEF Upgrading
<1> QED BY <1>1, <1>8, <1>9 DEF Sound, AtRest, Creating, Indexing, Guarding, Tenanting

LEMMA UpgradedKeeps ==
    ASSUME Sound, Upgraded PROVE Sound'
<1>1. /\ stage = "upgrade" /\ work.versioned /\ work.revision = Latest
      /\ FinishWrite(work, TRUE) /\ work' = work
      /\ stage' = "create" /\ at' = 0 /\ UNCHANGED database
  BY DEF Upgraded, FinishWrite, Goto
<1>2. Latest = 14 /\ Repairable(SchemaAt(14))
  BY TheRevisions, ReleasesAreRepairable
<1>3. Repairable(work.schema)
  BY <1>1, <1>2 DEF Sound, Upgrading
<1>4. Finishable(work) /\ TwinsKept(work.schema) /\ OnDisk
  BY <1>1, <1>2, <1>3 DEF Finishable, Sound, OnDisk
<1>5. OnDisk'
  BY <1>1, <1>4, UnitEnds
<1>6. Creating'
  <2>1. 0 \in 0 .. Len(Tables)
    BY DEF Tables
  <2> QED BY <1>1, <2>1 DEF Creating
<1> QED BY <1>1, <1>3, <1>5, <1>6 DEF Sound, AtRest, Upgrading, Indexing, Guarding, Tenanting

LEMMA StampDatabaseKeeps ==
    ASSUME Sound, IsDatabase(work), StampDatabase PROVE Sound'
<1>1. /\ stage = "stamp" /\ work.versioned
      /\ stage' = "create" /\ at' = 0 /\ UNCHANGED database
  BY DEF StampDatabase, Goto
<1>2. PICK new : /\ new = [work EXCEPT !.revision = Latest]
                 /\ new.revision = Latest
                 /\ new.versioned = work.versioned /\ new.schema = work.schema
  <2>1. PICK r : r = Latest
    OBVIOUS
  <2>2. PICK new : /\ new = [work EXCEPT !.revision = r] /\ new.revision = r
                   /\ new.versioned = work.versioned /\ new.schema = work.schema
    BY WithRevision
  <2> QED BY <2>1, <2>2
<1>3. FinishWrite(new, TRUE) /\ work' = new
  BY <1>2 DEF StampDatabase, FinishWrite
<1>4. Latest \in 0 .. Latest
  BY TheRevisions
<1>5. Repairable(new.schema)
  BY <1>1, <1>2 DEF Sound, AtRest
<1>6. Finishable(new) /\ TwinsKept(new.schema) /\ OnDisk
  BY <1>1, <1>2, <1>4, <1>5 DEF Finishable, Sound, OnDisk
<1>7. OnDisk'
  BY <1>1, <1>3, <1>6, UnitEnds
<1>8. Creating'
  <2>1. 0 \in 0 .. Len(Tables)
    BY DEF Tables
  <2> QED BY <1>1, <2>1 DEF Creating
<1> QED
  BY <1>1, <1>2, <1>3, <1>5, <1>7, <1>8
  DEF Sound, AtRest, Upgrading, Indexing, Guarding, Tenanting

\* The table create_all is at.
LEMMA TheTableAtHand ==
    ASSUME at \in 0 .. Len(Tables), at < Len(Tables)
    PROVE  /\ TableAtHand \in Models
           /\ TableAtHand = Object(TabOf(TableAtHand), "table", TabOf(TableAtHand))
           /\ TableAtHand = Table(Tables[at + 1]).object
<1>1. Len(Tables) = 11 /\ DOMAIN Tables = 1 .. 11
  BY DEF Tables
<1>2. Tables[at + 1] \in ToSet(Tables)
  BY <1>1 DEF ToSet
<1>3. PICK t \in ToSet(Tables) : t = Tables[at + 1]
  BY <1>2
<1>4. TableAtHand \in Models /\ TableAtHand = Object(t, "table", t)
  BY <1>3, TablesAreModels DEF TableAtHand
<1>5. TabOf(TableAtHand) = t
  BY <1>4, ObjectParts
<1> QED BY <1>4, <1>5 DEF TableAtHand

LEMMA TableGroups ==
    ASSUME NEW t
    PROVE  /\ ColumnsOf(t) = {o \in Models : TabOf(o) = TabOf(t) /\ KindOf(o) = "column"}
           /\ IndexesOf(t) = {o \in Models : TabOf(o) = TabOf(t) /\ KindOf(o) = "index"}
  BY DEF ColumnsOf, IndexesOf, TabOf, KindOf

LEMMA SkipTableKeeps ==
    ASSUME Sound, SkipTable PROVE Sound'
<1>1. /\ stage = "create" /\ at < Len(Tables) /\ TableAtHand \in work.schema
      /\ at' = at + 1
      /\ UNCHANGED <<database, disk, work, partial, stage, crashes, torn>>
  BY DEF SkipTable
<1>2. /\ at \in 0 .. Len(Tables)
      /\ \A i \in 1 .. at : Table(Tables[i]).object \in work.schema
  BY <1>1 DEF Sound, Creating
<1>3. Len(Tables) = 11
  BY DEF Tables
<1>4. Table(Tables[at + 1]).object \in work.schema
  BY <1>1 DEF TableAtHand
<1>5. \A i \in 1 .. at + 1 : i \in 1 .. at \/ i = at + 1
  BY <1>2, <1>3
<1>6. Creating'
  BY <1>1, <1>2, <1>3, <1>4, <1>5 DEF Creating
<1>7. OnDisk'
  BY <1>1 DEF Sound, OnDisk, TwinsKept, database
<1> QED BY <1>1, <1>6, <1>7 DEF Sound, AtRest, Upgrading, Indexing, Guarding, Tenanting

LEMMA CreateTableKeeps ==
    ASSUME Sound, IsDatabase(work), CreateTable PROVE Sound'
<1>1. /\ stage = "create" /\ at < Len(Tables) /\ TableAtHand \notin work.schema
      /\ stage' = "index" /\ at' = at /\ UNCHANGED database
  BY DEF CreateTable
<1>2. /\ at \in 0 .. Len(Tables)
      /\ \A i \in 1 .. at : Table(Tables[i]).object \in work.schema
      /\ Repairable(work.schema) /\ work.versioned /\ work.revision = Latest
      /\ OnDisk /\ TwinsKept(work.schema)
  BY <1>1 DEF Sound, Creating, AtRest, OnDisk
<1>3. PICK T : /\ T = TableAtHand
               /\ T \in Models /\ T = Object(TabOf(T), "table", TabOf(T))
  BY <1>1, <1>2, TheTableAtHand
<1>4. PICK new : /\ new = [work EXCEPT !.schema = work.schema \cup {T} \cup ColumnsOf(T)]
                 /\ new.schema = work.schema \cup {T} \cup ColumnsOf(T)
                 /\ new.versioned = work.versioned /\ new.revision = work.revision
  <2>1. PICK s : s = work.schema \cup {T} \cup ColumnsOf(T)
    OBVIOUS
  <2>2. PICK new : /\ new = [work EXCEPT !.schema = s] /\ new.schema = s
                   /\ new.versioned = work.versioned /\ new.revision = work.revision
    BY WithSchema
  <2> QED BY <2>1, <2>2
<1>5. ToDisk(new) /\ work' = new
  BY <1>3, <1>4 DEF CreateTable, ToDisk
<1>6. /\ ColumnsOf(T) = {o \in Models : TabOf(o) = TabOf(T) /\ KindOf(o) = "column"}
      /\ IndexesOf(T) = {o \in Models : TabOf(o) = TabOf(T) /\ KindOf(o) = "index"}
      /\ KindOf(T) = "table"
  BY <1>3, TableGroups, ObjectParts
<1>7. KindOf(IssueIndex) = "index"
  BY ObjectParts DEF IssueIndex, Object
<1>8. TwinsKept(new.schema)
  BY <1>2, <1>4, <1>6, <1>7 DEF TwinsKept
<1>9. OnDisk'
  BY <1>1, <1>2, <1>5, <1>8, UnitGoesOn
<1>10. TableAtHand' = TableAtHand
  BY <1>1 DEF TableAtHand
<1>11. Repairable(new.schema \cup IndexesOf(T))
  <2> DEFINE S == new.schema \cup IndexesOf(T)
  <2>1. S = work.schema \cup {T} \cup ColumnsOf(T) \cup IndexesOf(T)
    BY <1>4
  <2>2. S \subseteq Models \cup {DroppedIndex}
    BY <1>2, <1>3, <1>6, <2>1 DEF Repairable
  <2>3. ASSUME NEW o \in Models, o \notin S, TableOf(o) \in S
        PROVE  o \in LateObjects \cup TenantObjects
    <3>1. KindOf(TableOf(o)) = "table" /\ TabOf(TableOf(o)) = TabOf(o)
      BY ObjectParts DEF TableOf
    <3>2. TableOf(o) \in work.schema \/ TableOf(o) = T
      BY <1>6, <2>1, <2>3, <3>1
    <3>3. CASE TableOf(o) = T
      <4>1. TabOf(o) = TabOf(T)
        BY <3>1, <3>3
      <4>2. KindOf(o) = "table"
        BY <1>6, <2>1, <2>3, <4>1, ModelParts
      <4> QED BY <2>1, <2>3, <3>3, <4>2, ModelParts
    <3>4. CASE TableOf(o) \in work.schema
      BY <1>2, <2>1, <2>3, <3>4 DEF Repairable
    <3> QED BY <3>2, <3>3, <3>4
  <2>4. ASSUME TenantColumn \in S PROVE TenantIndex \in S
    <3>1. CASE TenantColumn \in work.schema
      BY <1>2, <2>1, <3>1 DEF Repairable
    <3>2. CASE TenantColumn \notin work.schema
      <4>1. KindOf(TenantColumn) = "column" /\ KindOf(TenantIndex) = "index"
            /\ TabOf(TenantColumn) = TabOf(TenantIndex)
        BY ObjectParts DEF TenantColumn, TenantIndex
      <4>2. TabOf(TenantColumn) = TabOf(T)
        BY <1>6, <2>1, <2>4, <3>2, <4>1
      <4>3. TenantIndex \in IndexesOf(T)
        BY <1>6, <4>1, <4>2, TenantAreModels, TheTenantStatements
      <4> QED BY <2>1, <4>3
    <3> QED BY <3>1, <3>2
  <2> HIDE DEF S
  <2>5. Repairable(S)
    BY <2>2, <2>3, <2>4 DEF Repairable
  <2> QED BY <2>5 DEF S
<1>12. Indexing'
  <2>1. T \in new.schema
    BY <1>4
  <2>2. duplicates => T # CardsTable
    BY <1>1, <1>2, <1>3 DEF TwinsKept
  <2>3. duplicates' = duplicates
    BY <1>1 DEF database
  <2> QED BY <1>1, <1>3, <1>5, <1>10, <1>11, <2>1, <2>2, <2>3 DEF Indexing
<1>13. Creating'
  BY <1>1, <1>2, <1>4, <1>5 DEF Creating
<1>14. AtRest'
  BY <1>1, <1>2, <1>4, <1>5 DEF AtRest
<1> QED BY <1>1, <1>9, <1>12, <1>13, <1>14 DEF Sound, Upgrading, Guarding, Tenanting

LEMMA CreateIndexesKeeps ==
    ASSUME Sound, IsDatabase(work), CreateIndexes PROVE Sound'
<1>1. /\ stage = "index" /\ stage' = "create" /\ at' = at + 1 /\ UNCHANGED database
  BY DEF CreateIndexes
<1>2. /\ at \in 0 .. Len(Tables) /\ at < Len(Tables)
      /\ \A i \in 1 .. at : Table(Tables[i]).object \in work.schema
      /\ TableAtHand \in work.schema
      /\ duplicates => TableAtHand # CardsTable
      /\ Repairable(work.schema \cup IndexesOf(TableAtHand))
      /\ work.versioned /\ work.revision = Latest
      /\ OnDisk /\ TwinsKept(work.schema)
  BY <1>1 DEF Sound, Creating, Indexing, AtRest, OnDisk
<1>3. PICK T : /\ T = TableAtHand
               /\ T = Object(TabOf(T), "table", TabOf(T))
               /\ T = Table(Tables[at + 1]).object
  BY <1>2, TheTableAtHand
<1>4. PICK new : /\ new = [work EXCEPT !.schema = work.schema \cup IndexesOf(T)]
                 /\ new.schema = work.schema \cup IndexesOf(T)
                 /\ new.versioned = work.versioned /\ new.revision = work.revision
  <2>1. PICK s : s = work.schema \cup IndexesOf(T)
    OBVIOUS
  <2>2. PICK new : /\ new = [work EXCEPT !.schema = s] /\ new.schema = s
                   /\ new.versioned = work.versioned /\ new.revision = work.revision
    BY WithSchema
  <2> QED BY <2>1, <2>2
<1>5. FinishWrite(new, FALSE) /\ work' = new
  BY <1>3, <1>4 DEF CreateIndexes, FinishWrite
<1>6. Repairable(new.schema) /\ Latest \in 0 .. Latest
  BY <1>2, <1>3, <1>4, TheRevisions
<1>7. Finishable(new)
  BY <1>2, <1>4, <1>6 DEF Finishable
<1>8. TwinsKept(new.schema)
  <2>1. ASSUME duplicates PROVE IssueIndex \notin IndexesOf(T)
    <3>1. TableOf(IssueIndex) = CardsTable
      BY KnownObjects
    <3>2. TabOf(IssueIndex) = TabOf(T) => T = CardsTable
      BY <1>3, <3>1 DEF TableOf
    <3> QED BY <1>2, <1>3, <2>1, <3>2, TableGroups
  <2> QED BY <1>2, <1>4, <2>1 DEF TwinsKept
<1>9. OnDisk'
  BY <1>1, <1>2, <1>5, <1>7, <1>8, UnitEnds
<1>10. Creating'
  <2>1. Len(Tables) = 11
    BY DEF Tables
  <2>2. \A i \in 1 .. at + 1 : i \in 1 .. at \/ i = at + 1
    BY <1>2, <2>1
  <2>3. \A i \in 1 .. at + 1 : Table(Tables[i]).object \in new.schema
    BY <1>2, <1>3, <1>4, <2>2
  <2> QED BY <1>1, <1>2, <1>5, <2>1, <2>3 DEF Creating
<1>11. AtRest'
  BY <1>1, <1>2, <1>4, <1>5, <1>6 DEF AtRest
<1> QED BY <1>1, <1>9, <1>10, <1>11 DEF Sound, Upgrading, Indexing, Guarding, Tenanting

LEMMA LateIsNotTenant ==
    \A s \in ToSet(late_statements) : s.object # TenantColumn
<1>1. ASSUME NEW s \in ToSet(late_statements) PROVE s.object # TenantColumn
  <2>1. CASE s = DropIndex("tenant_git_credential", "ix_tenant")
    BY <2>1, KnownObjects
  <2>2. CASE s # DropIndex("tenant_git_credential", "ix_tenant")
    <3>1. PICK t, k, n : s.object = Object(t, k, n)
                         /\ t \in {"tenant_git_config", "tenant_git_credential",
                                   "card_import_state", "cards"}
      BY <2>2, LateParts
    <3> QED BY <3>1, ObjectParts DEF TenantColumn
  <2> QED BY <2>1, <2>2
<1> QED BY <1>1

LEMMA CreatedKeeps ==
    ASSUME Sound, Created PROVE Sound'
<1>1. /\ stage = "create" /\ at = Len(Tables) /\ FinishWrite(work, TRUE) /\ work' = work
      /\ stage' = "guards" /\ at' = 0 /\ UNCHANGED database
  BY DEF Created, FinishWrite, Goto
<1>2. /\ \A i \in 1 .. at : Table(Tables[i]).object \in work.schema
      /\ Repairable(work.schema) /\ work.versioned /\ work.revision = Latest
      /\ OnDisk /\ TwinsKept(work.schema) /\ Latest \in 0 .. Latest
  BY <1>1, TheRevisions DEF Sound, Creating, AtRest, OnDisk
<1>3. Finishable(work)
  BY <1>2 DEF Finishable
<1>4. OnDisk'
  BY <1>1, <1>2, <1>3, UnitEnds
<1>5. ASSUME NEW o \in Models PROVE TableOf(o) \in work.schema
  <2>1. TabOf(o) \in ToSet(Tables)
    BY ModelParts
  <2>2. DOMAIN Tables = 1 .. Len(Tables)
    BY DEF Tables
  <2>3. PICK i \in 1 .. Len(Tables) : TabOf(o) = Tables[i]
    BY <2>1, <2>2 DEF ToSet
  <2>4. Table(Tables[i]).object = TableOf(o)
    BY <2>3, StatementParts DEF TableOf
  <2> QED BY <1>1, <1>2, <2>4
<1>6. Guarding'
  <2>1. Len(late_statements) \in Nat
    BY TheLateStatements
  <2> QED BY <1>1, <1>5, <2>1 DEF Guarding
<1> QED BY <1>1, <1>2, <1>4, <1>6 DEF Sound, AtRest, Upgrading, Creating, Indexing, Tenanting

\* What a guard leaves behind of its statement.
Answered(s, schema) ==
    IF s.verb = "drop" THEN s.object \notin schema
    ELSE s.object \in schema \/ (duplicates /\ s.object = IssueIndex)

LEMMA GuardKeeps ==
    ASSUME Sound, IsDatabase(work), Guard PROVE Sound'
<1>1. /\ stage = "guards" /\ at < Len(late_statements) /\ at' = at + 1
      /\ UNCHANGED <<database, stage, crashes, torn>>
  BY DEF Guard
<1>2. /\ at \in 0 .. Len(late_statements)
      /\ \A o \in Models : TableOf(o) \in work.schema
      /\ \A i \in 1 .. at : Answered(late_statements[i], work.schema)
      /\ Repairable(work.schema) /\ work.versioned /\ work.revision = Latest
      /\ OnDisk /\ TwinsKept(work.schema) /\ work = disk
      /\ Latest \in 0 .. Latest
  BY <1>1, TheRevisions DEF Sound, Guarding, AtRest, OnDisk, Answered
<1>3. Len(late_statements) \in Nat /\ DOMAIN late_statements = 1 .. Len(late_statements)
  BY TheLateStatements
<1>4. PICK statement : /\ statement = late_statements[at + 1]
                       /\ statement \in ToSet(late_statements)
  BY <1>1, <1>2, <1>3 DEF ToSet
<1>5. \/ statement.verb = "drop" /\ statement.object = DroppedIndex
      \/ /\ statement.verb = "create" /\ statement.object \in Models
         /\ statement.object # DroppedIndex
  BY <1>4, LateAreModels
<1>6. \A i \in 1 .. at : late_statements[i] \in ToSet(late_statements)
  BY <1>2, <1>3 DEF ToSet
<1>7. \A i \in 1 .. at + 1 : i \in 1 .. at \/ i = at + 1
  BY <1>2
<1>8. CASE Applies(statement, work.schema)
  <2>1. PICK new : /\ new = [work EXCEPT !.schema = RunOn(statement, work.schema)]
                   /\ new.schema = RunOn(statement, work.schema)
                   /\ new.versioned = work.versioned /\ new.revision = work.revision
    <3>1. PICK s : s = RunOn(statement, work.schema)
      OBVIOUS
    <3>2. PICK new : /\ new = [work EXCEPT !.schema = s] /\ new.schema = s
                     /\ new.versioned = work.versioned /\ new.revision = work.revision
      BY WithSchema
    <3> QED BY <3>1, <3>2
  <2>2. FinishWrite(new, TRUE) /\ work' = new
    BY <1>4, <1>8, <2>1 DEF Guard, FinishWrite
  <2>3. new.schema = IF statement.verb = "drop" THEN work.schema \ {DroppedIndex}
                     ELSE work.schema \cup {statement.object}
    BY <1>5, <2>1 DEF RunOn
  <2>4. TwinsKept(new.schema)
    BY <1>2, <1>5, <1>8, <2>3, WhatApplies, KnownObjects DEF TwinsKept
  <2>5. Repairable(new.schema)
    <3>1. ASSUME TenantColumn \in new.schema PROVE TenantIndex \in new.schema
      <4>1. CASE TenantColumn \in work.schema
        BY <1>2, <2>3, <4>1, KnownObjects DEF Repairable
      <4>2. CASE TenantColumn \notin work.schema
        <5>1. statement.object = TenantColumn
          BY <2>3, <3>1, <4>2
        <5> QED BY <1>4, <5>1, LateIsNotTenant
      <4> QED BY <4>1, <4>2
    <3>2. new.schema \subseteq Models \cup {DroppedIndex}
      BY <1>2, <1>5, <2>3 DEF Repairable
    <3>3. ASSUME NEW o \in Models, o \notin new.schema
          PROVE  o \in LateObjects \cup TenantObjects
      BY <1>2, <2>3, <3>3, ModelParts DEF Repairable
    <3> QED BY <3>1, <3>2, <3>3 DEF Repairable
  <2>6. Finishable(new)
    BY <1>2, <2>1, <2>5 DEF Finishable
  <2>7. OnDisk'
    BY <1>1, <1>2, <2>2, <2>4, <2>6, UnitEnds
  <2>8. \A i \in 1 .. at + 1 : Answered(late_statements[i], new.schema)
    <3>1. ASSUME NEW i \in 1 .. at PROVE Answered(late_statements[i], new.schema)
      <4>1. \/ late_statements[i].verb = "drop" /\ late_statements[i].object = DroppedIndex
            \/ /\ late_statements[i].verb = "create"
               /\ late_statements[i].object # DroppedIndex
        BY <1>6, LateAreModels
      <4> QED BY <1>2, <1>5, <2>3, <4>1 DEF Answered
    <3>2. Answered(statement, new.schema)
      BY <1>5, <2>3 DEF Answered
    <3> QED BY <1>4, <1>7, <3>1, <3>2
  <2>9. \A o \in Models : TableOf(o) \in new.schema
    <3>1. \A o \in Models : TableOf(o) # DroppedIndex
      BY ObjectParts DEF TableOf, DroppedIndex
    <3> QED BY <1>2, <1>5, <2>3, <3>1
  <2>10. Guarding'
    BY <1>1, <1>2, <1>3, <2>2, <2>8, <2>9 DEF Guarding, Answered, database
  <2> QED BY <1>1, <1>2, <2>1, <2>2, <2>5, <2>7, <2>10
          DEF Sound, AtRest, Upgrading, Creating, Indexing, Tenanting
<1>9. CASE ~Applies(statement, work.schema)
  <2>1. UNCHANGED <<disk, work, partial>>
    BY <1>4, <1>9 DEF Guard
  <2>2. Answered(statement, work.schema)
    <3>1. TableOf(DroppedIndex) \in work.schema
      <4>1. "tenant_git_credential" \in ToSet(Tables)
        BY TheTables
      <4>2. PICK o \in Models :
                o = Object("tenant_git_credential", "table", "tenant_git_credential")
        BY <4>1, TablesAreModels
      <4>3. TableOf(o) = TableOf(DroppedIndex)
        BY <4>2, ObjectParts DEF TableOf, DroppedIndex
      <4> QED BY <1>2, <4>3
    <3>2. TableOf(statement.object) \in work.schema
      BY <1>2, <1>5, <3>1
    <3>3. DroppedIndex # IssueIndex
      BY KnownObjects
    <3> QED BY <1>5, <1>9, <3>2, <3>3, WhatApplies DEF Answered
  <2>3. \A i \in 1 .. at + 1 : Answered(late_statements[i], work.schema)
    BY <1>2, <1>4, <1>7, <2>2
  <2>4. OnDisk'
    BY <1>1, <2>1 DEF Sound, OnDisk, TwinsKept, database
  <2>5. Guarding'
    BY <1>1, <1>2, <1>3, <2>1, <2>3 DEF Guarding, Answered, database
  <2> QED BY <1>1, <1>2, <2>1, <2>4, <2>5
          DEF Sound, AtRest, Upgrading, Creating, Indexing, Tenanting
<1> QED BY <1>8, <1>9

LEMMA GuardedKeeps ==
    ASSUME Sound, Guarded PROVE Sound'
<1>1. /\ stage = "guards" /\ at = Len(late_statements) /\ at' = 0
      /\ stage' = IF tenant_statements[1].object \in work.schema THEN "serving" ELSE "tenant"
      /\ UNCHANGED <<database, disk, work, partial, crashes, torn>>
  BY DEF Guarded, Goto
<1>2. /\ \A o \in Models : TableOf(o) \in work.schema
      /\ \A i \in 1 .. Len(late_statements) : Answered(late_statements[i], work.schema)
      /\ Repairable(work.schema) /\ work.versioned /\ work.revision = Latest
      /\ work = disk /\ TwinsKept(work.schema)
  BY <1>1 DEF Sound, Guarding, AtRest, OnDisk, Answered
<1>3. tenant_statements[1].object = TenantColumn
  BY StatementParts DEF tenant_statements, TenantColumn
<1>4. ASSUME NEW o \in LateObjects
      PROVE  IF o = DroppedIndex THEN o \notin work.schema
             ELSE o \in work.schema \/ (duplicates /\ o = IssueIndex)
  <2>1. PICK s \in ToSet(late_statements) : s.object = o
    BY DEF LateObjects
  <2>2. PICK i \in 1 .. Len(late_statements) : s = late_statements[i]
    BY TheLateStatements DEF ToSet
  <2>3. Answered(s, work.schema)
    BY <1>2, <2>2
  <2> QED BY <2>1, <2>3, LateAreModels DEF Answered
<1>5. work.schema \subseteq Models
  BY <1>2, <1>4, LateAreModels DEF Repairable
<1>6. \A o \in Models : o \in work.schema \/ o \in TenantObjects \/ (duplicates /\ o = IssueIndex)
  BY <1>2, <1>4, ModelParts DEF Repairable
<1>7. Complete(work.schema \cup TenantObjects)
  BY <1>2, <1>5, <1>6, TenantAreModels, KnownObjects, TheTenantStatements
  DEF Complete, TwinsKept
<1>8. OnDisk'
  BY <1>1, <1>2 DEF Sound, OnDisk, TwinsKept, database
<1>9. CASE TenantColumn \in work.schema
  <2>1. TenantObjects \subseteq work.schema
    BY <1>2, <1>9, TheTenantStatements DEF Repairable
  <2>2. work.schema \cup TenantObjects = work.schema
    BY <2>1
  <2>3. Complete(work.schema)
    BY <1>7, <2>2
  <2>4. stage' = "serving" /\ AtRest'
    BY <1>1, <1>2, <1>3, <1>9, <2>3 DEF AtRest, Complete, database
  <2> QED BY <1>8, <2>4 DEF Sound, Upgrading, Creating, Indexing, Guarding, Tenanting
<1>10. CASE TenantColumn \notin work.schema
  <2>1. stage' = "tenant" /\ AtRest'
    BY <1>1, <1>2, <1>3, <1>10 DEF AtRest
  <2>2. Tenanting'
    BY <1>1, <1>2, <1>7 DEF Tenanting, Complete, database
  <2> QED BY <1>8, <2>1, <2>2 DEF Sound, Upgrading, Creating, Indexing, Guarding
<1> QED BY <1>9, <1>10

\* A complete schema can be finished.
LEMMA CompleteIsRepairable ==
    ASSUME NEW schema, Complete(schema)
    PROVE  Repairable(schema)
  BY LateAreModels, TenantAreModels, TheTenantStatements, KnownObjects
  DEF Complete, Repairable

LEMMA EnsureTenantColumnKeeps ==
    ASSUME Sound, IsDatabase(work), EnsureTenantColumn PROVE Sound'
<1>1. stage = "tenant" /\ UNCHANGED <<database, crashes, torn>>
  BY DEF EnsureTenantColumn
<1>2. /\ at \in {0, 1}
      /\ at = 1 => TenantColumn \in work.schema
      /\ Complete(work.schema \cup TenantObjects)
      /\ work.versioned /\ work.revision = Latest
      /\ OnDisk /\ TwinsKept(work.schema) /\ Latest \in 0 .. Latest
  BY <1>1, TheRevisions DEF Sound, Tenanting, AtRest, OnDisk
<1>3. /\ RunOn(tenant_statements[1], work.schema) = work.schema \cup {TenantColumn}
      /\ RunOn(tenant_statements[2], work.schema) = work.schema \cup {TenantIndex}
  <2>1. /\ tenant_statements[1] = Column("work_items", "tenant_id")
        /\ tenant_statements[2] = Index("work_items", "ix_tenant_id")
    BY DEF tenant_statements
  <2> QED BY <2>1, StatementParts DEF RunOn, TenantColumn, TenantIndex
<1>9. TenantColumn # IssueIndex /\ TenantIndex # IssueIndex
  BY KnownObjects
<1>4. CASE at = 0
  <2>1. PICK new : /\ new = [work EXCEPT !.schema = RunOn(tenant_statements[1], work.schema)]
                   /\ new.schema = RunOn(tenant_statements[1], work.schema)
                   /\ new.versioned = work.versioned /\ new.revision = work.revision
    <3>1. PICK s : s = RunOn(tenant_statements[1], work.schema)
      OBVIOUS
    <3>2. PICK new : /\ new = [work EXCEPT !.schema = s] /\ new.schema = s
                     /\ new.versioned = work.versioned /\ new.revision = work.revision
      BY WithSchema
    <3> QED BY <3>1, <3>2
  <2>2. ToDisk(new) /\ work' = new /\ at' = 1 /\ stage' = stage
    BY <1>4, <2>1 DEF EnsureTenantColumn, ToDisk
  <2>3. TwinsKept(new.schema)
    BY <1>2, <1>3, <1>9, <2>1 DEF TwinsKept
  <2>4. OnDisk'
    BY <1>1, <1>2, <2>2, <2>3, UnitGoesOn
  <2>5. new.schema \cup TenantObjects = work.schema \cup TenantObjects
    BY <1>3, <2>1, TheTenantStatements
  <2>6. Complete(new.schema \cup TenantObjects)
    BY <1>2, <2>5
  <2>7. Tenanting'
    BY <1>1, <1>3, <2>1, <2>2, <2>6 DEF Tenanting, Complete, database
  <2>8. AtRest'
    BY <1>1, <1>2, <2>1, <2>2 DEF AtRest
  <2> QED BY <1>1, <2>2, <2>4, <2>7, <2>8 DEF Sound, Upgrading, Creating, Indexing, Guarding
<1>5. CASE at = 1
  <2>1. PICK new : /\ new = [work EXCEPT !.schema = RunOn(tenant_statements[2], work.schema)]
                   /\ new.schema = RunOn(tenant_statements[2], work.schema)
                   /\ new.versioned = work.versioned /\ new.revision = work.revision
    <3>1. PICK s : s = RunOn(tenant_statements[2], work.schema)
      OBVIOUS
    <3>2. PICK new : /\ new = [work EXCEPT !.schema = s] /\ new.schema = s
                     /\ new.versioned = work.versioned /\ new.revision = work.revision
      BY WithSchema
    <3> QED BY <3>1, <3>2
  <2>2. /\ FinishWrite(new, TRUE) /\ work' = new /\ at' = 0 /\ stage' = "serving"
    BY <1>5, <2>1 DEF EnsureTenantColumn, FinishWrite, Goto
  <2>3. new.schema = work.schema \cup TenantObjects
    BY <1>2, <1>3, <1>5, <2>1, TheTenantStatements
  <2>4. Complete(new.schema)
    BY <1>2, <2>3
  <2>5. Finishable(new)
    BY <1>2, <2>1, <2>4, CompleteIsRepairable DEF Finishable
  <2>6. TwinsKept(new.schema)
    BY <1>2, <1>3, <1>9, <2>1 DEF TwinsKept
  <2>7. OnDisk'
    BY <1>1, <1>2, <2>2, <2>5, <2>6, UnitEnds
  <2>8. AtRest'
    BY <1>1, <1>2, <2>1, <2>2, <2>4 DEF AtRest, Complete, database
  <2> QED BY <2>2, <2>7, <2>8 DEF Sound, Upgrading, Creating, Indexing, Guarding, Tenanting
<1> QED BY <1>2, <1>4, <1>5

\* What a service that stops between two units leaves is what it began with.
LEMMA StopServiceKeeps ==
    ASSUME Sound, StopService, ~torn' PROVE Sound'
<1>1. /\ stage' = "down" /\ at' = 0 /\ work' = disk
      /\ torn' = (torn \/ partial) /\ partial' = FALSE /\ UNCHANGED <<database, disk>>
  BY DEF StopService, Goto
<1>2. ~partial
  BY <1>1
<1>3. OnDisk'
  BY <1>1, <1>2 DEF Sound, OnDisk, TwinsKept, database
<1> QED BY <1>1, <1>3 DEF Sound, AtRest, Upgrading, Creating, Indexing, Guarding, Tenanting

LEMMA DatabasesKeep ==
    ASSUME IsDatabase(disk), IsDatabase(work), BootNext
    PROVE  IsDatabase(disk)' /\ IsDatabase(work)'
<1>1. \A s : IsDatabase([work EXCEPT !.schema = s])
  <2> TAKE s
  <2>1. PICK new : new = [work EXCEPT !.schema = s] /\ IsDatabase(new)
    BY WithSchema
  <2> QED BY <2>1
<1>2. \A v : IsDatabase([work EXCEPT !.versioned = v])
  <2> TAKE v
  <2>1. PICK new : new = [work EXCEPT !.versioned = v] /\ IsDatabase(new)
    BY WithVersions
  <2> QED BY <2>1
<1>3. \A r : IsDatabase([work EXCEPT !.revision = r])
  <2> TAKE r
  <2>1. PICK new : new = [work EXCEPT !.revision = r] /\ IsDatabase(new)
    BY WithRevision
  <2> QED BY <2>1
<1>4. ASSUME NEW new, IsDatabase(new), ToDisk(new)
      PROVE  IsDatabase(disk') /\ IsDatabase(work')
  BY <1>4 DEF ToDisk
<1>5. ASSUME NEW new, NEW commits, IsDatabase(new), FinishWrite(new, commits)
      PROVE  IsDatabase(disk') /\ IsDatabase(work')
  BY <1>5 DEF FinishWrite
<1>6. CASE Boot \/ SkipTable \/ Guarded \/ StopService
  BY <1>6 DEF Boot, SkipTable, Guarded, StopService
<1>7. CASE MakeVersionTable
  BY <1>2, <1>4, <1>5, <1>7 DEF MakeVersionTable
<1>8. CASE RunStatement
  BY <1>1, <1>4, <1>8 DEF RunStatement
<1>9. CASE RecordRevision
  BY <1>3, <1>5, <1>9 DEF RecordRevision
<1>10. CASE Upgraded
  BY <1>5, <1>10 DEF Upgraded
<1>11. CASE StampDatabase
  BY <1>3, <1>5, <1>11 DEF StampDatabase
<1>12. CASE CreateTable
  BY <1>1, <1>4, <1>12 DEF CreateTable
<1>13. CASE CreateIndexes
  BY <1>1, <1>5, <1>13 DEF CreateIndexes
<1>14. CASE Created
  BY <1>5, <1>14 DEF Created
<1>15. CASE Guard
  BY <1>1, <1>5, <1>15 DEF Guard
<1>16. CASE EnsureTenantColumn
  BY <1>1, <1>4, <1>5, <1>16 DEF EnsureTenantColumn
<1> QED
  BY <1>6, <1>7, <1>8, <1>9, <1>10, <1>11, <1>12, <1>13, <1>14, <1>15, <1>16
  DEF BootNext, BootProgress

LEMMA BootStarts == BootInit => BootInv
<1> SUFFICES ASSUME BootInit PROVE BootInv
  OBVIOUS
<1>1. /\ work = disk /\ partial = FALSE /\ stage = "down" /\ at = 0
      /\ duplicates => /\ Column("cards", "issue_ref").object \in disk.schema
                       /\ IssueIndex \notin disk.schema
  BY DEF BootInit
<1>2. PICK release \in 0 .. 14 :
          \/ disk = Fresh
          \/ disk = MadeByModels(release) /\ release \in 3 .. 14
          \/ disk = UnderAlembic(release)
  BY BootAssumption DEF BootInit
<1>3. /\ IsDatabase(Fresh) /\ Fresh.schema = {} /\ Fresh.versioned = FALSE
      /\ Fresh.revision = 0
  BY RecordsAreDatabases DEF Fresh
<1>4. 0 \in 0 .. Latest /\ release \in 0 .. Latest
  BY TheRevisions
<1>5. CASE disk = Fresh
  <2>1. Repairable({})
    BY DEF Repairable
  <2>2. Finishable(disk) /\ TwinsKept(disk.schema) /\ IsDatabase(disk)
    BY <1>1, <1>3, <1>4, <1>5, <2>1 DEF Finishable, TwinsKept
  <2> QED BY <1>1, <2>2 DEF BootInv, Sound, OnDisk, AtRest, Upgrading, Creating, Indexing, Guarding, Tenanting
<1>6. CASE disk = MadeByModels(release) /\ release \in 3 .. 14
  <2>1. /\ IsDatabase(disk) /\ disk.schema = SchemaAt(release)
        /\ disk.versioned = FALSE /\ disk.revision = 0
    <3>1. PICK new : /\ new = [Fresh EXCEPT !.schema = SchemaAt(release)]
                     /\ IsDatabase(new) /\ new.schema = SchemaAt(release)
                     /\ new.versioned = Fresh.versioned /\ new.revision = Fresh.revision
      BY <1>3, WithSchema
    <3> QED BY <1>3, <1>6, <3>1 DEF MadeByModels
  <2>2. Repairable(disk.schema)
    BY <1>6, <2>1, ReleasesAreRepairable
  <2>3. TwinsKept(disk.schema)
    BY <1>1, <2>1, CardsHaveTheirTable DEF TwinsKept
  <2>4. Finishable(disk)
    BY <1>4, <2>1, <2>2 DEF Finishable
  <2> QED BY <1>1, <2>1, <2>3, <2>4 DEF BootInv, Sound, OnDisk, AtRest, Upgrading, Creating, Indexing, Guarding, Tenanting
<1>7. CASE disk = UnderAlembic(release)
  <2>1. /\ IsDatabase(disk) /\ disk.schema = SchemaAt(release)
        /\ disk.versioned = TRUE /\ disk.revision = release
    BY <1>7, RecordsAreDatabases DEF UnderAlembic
  <2>2. TwinsKept(disk.schema)
    BY <1>1, <2>1, CardsHaveTheirTable DEF TwinsKept
  <2>3. Finishable(disk)
    BY <1>4, <2>1 DEF Finishable
  <2> QED BY <1>1, <2>1, <2>2, <2>3 DEF BootInv, Sound, OnDisk, AtRest, Upgrading, Creating, Indexing, Guarding, Tenanting
<1> QED BY <1>2, <1>5, <1>6, <1>7

LEMMA BootStays == BootInv /\ [BootNext]_bootVars => BootInv'
<1> SUFFICES ASSUME BootInv, [BootNext]_bootVars PROVE BootInv'
  OBVIOUS
<1>1. IsDatabase(disk) /\ IsDatabase(work)
  BY DEF BootInv
<1>2. IsDatabase(disk)' /\ IsDatabase(work)'
  <2>1. CASE BootNext
    BY <1>1, <2>1, DatabasesKeep
  <2>2. CASE UNCHANGED bootVars
    BY <1>1, <2>2 DEF bootVars
  <2> QED BY <2>1, <2>2
<1>3. ASSUME ~torn' PROVE Sound'
  <2>1. CASE StopService
    <3>1. ~torn
      BY <1>3, <2>1 DEF StopService
    <3> QED BY <1>3, <2>1, <3>1, StopServiceKeeps DEF BootInv
  <2>2. CASE BootProgress
    <3>1. torn' = torn
      BY <2>2 DEF BootProgress, Boot, MakeVersionTable, RunStatement, RecordRevision, Upgraded,
                  StampDatabase, SkipTable, CreateTable, CreateIndexes, Created, Guard, Guarded,
                  EnsureTenantColumn
    <3>2. Sound
      BY <1>3, <3>1 DEF BootInv
    <3> QED
      BY <1>1, <2>2, <3>2, BootKeeps, MakeVersionTableKeeps, RunStatementKeeps,
         RecordRevisionKeeps, UpgradedKeeps, StampDatabaseKeeps, SkipTableKeeps,
         CreateTableKeeps, CreateIndexesKeeps, CreatedKeeps, GuardKeeps, GuardedKeeps,
         EnsureTenantColumnKeeps
      DEF BootProgress
  <2>3. CASE UNCHANGED bootVars
    <3>1. Sound
      BY <1>3, <2>3 DEF BootInv, bootVars
    <3> QED
      BY <2>3, <3>1
      DEF bootVars, database, Sound, OnDisk, AtRest, Upgrading, Creating, Indexing, Guarding,
          Tenanting, Complete, TwinsKept, Pending, TableAtHand
  <2> QED BY <2>1, <2>2, <2>3 DEF BootNext
<1> QED BY <1>2, <1>3 DEF BootInv

\* A service serves the schema that its models declare, whichever release made
\* the database and however often a boot was stopped, as long as none was stopped
\* inside a unit of DDL (bootstrap_schema, create_all and the guards).
THEOREM EveryBootServesItsSchema == BootSpec => []ServesItsSchema
<1>1. BootInv => ServesItsSchema
  BY DEF BootInv, Sound, OnDisk, AtRest, Complete, ServesItsSchema
<1> QED BY <1>1, BootStarts, BootStays, PTL DEF BootSpec

=============================================================================
