---------------------------- MODULE CockpitFeed ----------------------------
(***************************************************************************)
(* The live feed of the cockpit: /api/ws and the shared ConnectionManager, *)
(* the writers that broadcast what they changed (the event ingress and the *)
(* upstream subscriber, the poll loop, POST /api/refresh) and the browser  *)
(* that shows the rows it was sent and reconnects when the socket drops.   *)
(*                                                                         *)
(* Nothing orders the copies of a row that are on their way to a browser:  *)
(* a row is read in a worker thread, and sent after other awaits.          *)
(***************************************************************************)
EXTENDS Naturals, Sequences, FiniteSets, TLC

CONSTANTS
    RowKeys,        \* correlation keys
    Cockpits,       \* browsers that show the board
    Writers,        \* events that may be handled at the same time
    Buffer,         \* frames a socket takes before a send has to wait
    MaxWrites,      \* bound: changes of the store
    MaxFeedMishaps  \* bound: dropped sockets, failed requests and failed cycles

ASSUME FeedBounds == {Buffer, MaxWrites, MaxFeedMishaps} \subseteq Nat

VARIABLES
    polling,      \* live_progress: does the poll loop run?
    stored,       \* the version of each row of the store; 0 when there is none
    writes,       \* how many changes the store has seen
    task,         \* what each broadcaster is at
    active,       \* the manager's sockets
    handler,      \* what the handler of each socket is at
    browser,      \* the socket of each browser, and whether it is open
    wire,         \* frames on the way to each browser
    load,         \* GET /api/work-items, as the browser has asked for it
    items,        \* the rows each browser shows
    feedMishaps,  \* how many failures there were
    told,         \* history: rows whose newest version went out on the open socket
    untold        \* history: rows changed by a request or a cycle that then failed

server == <<stored, writes, task, active, handler>>
client == <<browser, wire, load, items>>
history == <<told, untold>>
feedVars == <<polling, server, client, feedMishaps, history>>

-----------------------------------------------------------------------------
(* Vocabulary.                                                             *)

\* A browser's sockets are numbered: a connection lost is a new one opened.
Attempts == 1 .. MaxFeedMishaps + 1
Sockets == Cockpits \X Attempts
Broadcasters == Writers \cup {"poll", "refresh"}

\* A frame carries the versions of some rows: a work item's is one row, a
\* snapshot's all of them.
Board == [RowKeys -> 0 .. MaxWrites]
Frames == UNION {[some -> 0 .. MaxWrites] : some \in SUBSET RowKeys}
NoFrame == [k \in {} |-> 0]

IdleTask == [pc |-> "idle", frame |-> NoFrame, to |-> {}, dead |-> {}]
Closed == [pc |-> "closed", snapshot |-> NoFrame]
NoLoad == [pc |-> "none", answer |-> NoFrame]

SocketOf(c) == <<c, browser[c].attempt>>
IsOpen(s) == browser[s[1]].open /\ s = SocketOf(s[1])

-----------------------------------------------------------------------------
(* The store changes. A change of a row makes every copy of it an old one. *)

RowChange(changed) ==
    /\ writes < MaxWrites
    /\ writes' = writes + 1
    /\ stored' = [k \in RowKeys |-> IF k \in changed THEN writes + 1 ELSE stored[k]]
    /\ told' = [c \in Cockpits |-> told[c] \ changed]

\* A frame goes out on an open socket, once the socket takes it.
Transmit(s, frame) ==
    LET c == s[1] IN
    /\ Len(wire[c]) < Buffer
    /\ wire' = [wire EXCEPT ![c] = Append(@, frame)]
    /\ told' = [told EXCEPT ![c] = @ \cup {k \in DOMAIN frame : frame[k] = stored[k]}]

-----------------------------------------------------------------------------
(* ConnectionManager.broadcast: it goes through a copy of the set, awaits  *)
(* every send, and drops at the end the sockets that failed.               *)

\* MUTANT: only to the sockets that have their snapshot.
Broadcast_late(t) ==
    /\ task[t].pc \in {"card", "read"}
    /\ task' = [task EXCEPT ![t].pc = "send",
                            ![t].to = {s \in active : handler[s].pc = "drain"}]
    /\ UNCHANGED <<polling, stored, writes, active, handler, client, feedMishaps, history>>

\* The events' write-back to the card is done, or the snapshot is read.
Broadcast(t) ==
    /\ task[t].pc \in {"card", "read"}
    /\ task' = [task EXCEPT ![t].pc = "send", ![t].to = active]
    /\ UNCHANGED <<polling, stored, writes, active, handler, client, feedMishaps, history>>

SendFrame(t) ==
    /\ task[t].pc = "send"
    /\ \E s \in task[t].to :
         IF IsOpen(s)
         THEN /\ task' = [task EXCEPT ![t].to = @ \ {s}]
              /\ Transmit(s, task[t].frame)
         ELSE /\ task' = [task EXCEPT ![t].to = @ \ {s}, ![t].dead = @ \cup {s}]
              /\ UNCHANGED <<wire, told>>
    /\ UNCHANGED <<polling, stored, writes, active, handler, browser, load, items,
                   feedMishaps, untold>>

Sent(t) ==
    /\ task[t].pc = "send"
    /\ task[t].to = {}
    /\ active' = active \ task[t].dead
    /\ task' = [task EXCEPT ![t] = IdleTask]
    /\ UNCHANGED <<polling, stored, writes, handler, client, feedMishaps, history>>

-----------------------------------------------------------------------------
(* ingest_event and handle_message: the row the upsert returned is what is *)
(* broadcast, once the card has been written; a duplicate is not.          *)

event_frame(k, version) == [row \in {k} |-> version]

Upsert(w, k) ==
    /\ task[w] = IdleTask
    /\ RowChange({k})
    /\ task' = [task EXCEPT ![w] = [IdleTask EXCEPT !.pc = "card",
                                                !.frame = event_frame(k, writes + 1)]]
    /\ UNCHANGED <<polling, active, handler, client, feedMishaps, untold>>

\* apply_status raises: the request fails after the row is stored, and the
\* retry of the event is a duplicate.
WriteBackFails(w) ==
    /\ feedMishaps < MaxFeedMishaps
    /\ task[w].pc = "card"
    /\ feedMishaps' = feedMishaps + 1
    /\ untold' = untold \cup DOMAIN task[w].frame
    /\ task' = [task EXCEPT ![w] = IdleTask]
    /\ UNCHANGED <<polling, stored, writes, active, handler, client, told>>

-----------------------------------------------------------------------------
(* _poll_loop and refresh: the upstreams are read into the store, and then *)
(* the whole board is read and broadcast. (Bound: refresh is pressed where *)
(* no loop runs, and one at a time.)                                       *)

Snapshotters == {"poll", "refresh"}

Hydrate(t) ==
    /\ polling <=> (t = "poll")
    /\ task[t] = IdleTask
    /\ task' = [task EXCEPT ![t].pc = "hydrated"]
    /\ \/ \E changed \in SUBSET RowKeys \ {{}} : RowChange(changed)
       \/ UNCHANGED <<stored, writes, told>>
    /\ UNCHANGED <<polling, active, handler, client, feedMishaps, untold>>

\* MUTANT: the loop refreshes the store and tells nobody.
ReadBoard_silent(t) ==
    /\ task[t].pc = "hydrated"
    /\ task' = [task EXCEPT ![t] = IdleTask]
    /\ untold' = {}
    /\ UNCHANGED <<polling, stored, writes, active, handler, client, feedMishaps, told>>

ReadBoard(t) ==
    /\ task[t].pc = "hydrated"
    /\ task' = [task EXCEPT ![t].pc = "read", ![t].frame = stored]
    /\ untold' = {}
    /\ UNCHANGED <<polling, stored, writes, active, handler, client, feedMishaps, told>>

\* An error other than an unreachable service ends the cycle, or the request,
\* before the broadcast; the loop sleeps and starts again.
CycleFails(t) ==
    /\ feedMishaps < MaxFeedMishaps
    /\ task[t].pc = "hydrated"
    /\ feedMishaps' = feedMishaps + 1
    /\ untold' = RowKeys
    /\ task' = [task EXCEPT ![t] = IdleTask]
    /\ UNCHANGED <<polling, stored, writes, active, handler, client, told>>

-----------------------------------------------------------------------------
(* cockpit_feed: the handler of one socket.                                *)

\* The socket is accepted and listed before the board is read. The browser
\* reads the board again by itself when the socket is not its first.
Connect(c) ==
    LET s == SocketOf(c) IN
    /\ ~browser[c].open
    /\ browser' = [browser EXCEPT ![c].open = TRUE]
    /\ handler' = [handler EXCEPT ![s].pc = "accepted"]
    /\ active' = active \cup {s}
    /\ load' = IF browser[c].attempt = 1 THEN load
               ELSE [load EXCEPT ![s].pc = "asked"]
    /\ UNCHANGED <<polling, stored, writes, task, wire, items, feedMishaps, history>>

ReadSnapshot(s) ==
    /\ handler[s].pc = "accepted"
    /\ handler' = [handler EXCEPT ![s] = [pc |-> "read", snapshot |-> stored]]
    /\ UNCHANGED <<polling, stored, writes, task, active, client, feedMishaps, history>>

SendSnapshot(s) ==
    /\ handler[s].pc = "read"
    /\ IsOpen(s)
    /\ handler' = [handler EXCEPT ![s] = [pc |-> "drain", snapshot |-> NoFrame]]
    /\ Transmit(s, handler[s].snapshot)
    /\ UNCHANGED <<polling, stored, writes, task, active, browser, load, items, feedMishaps,
                   untold>>

\* The send, or the read that waits for the next ping, raises.
HandlerEnds(s) ==
    /\ handler[s].pc \in {"read", "drain"}
    /\ ~IsOpen(s)
    /\ handler' = [handler EXCEPT ![s] = Closed]
    /\ active' = active \ {s}
    /\ UNCHANGED <<polling, stored, writes, task, client, feedMishaps, history>>

-----------------------------------------------------------------------------
(* The browser.                                                            *)

\* The socket drops, with the frames that are on their way; openFeed opens
\* another after a while.
Drop(c) ==
    /\ feedMishaps < MaxFeedMishaps
    /\ browser[c].open
    /\ feedMishaps' = feedMishaps + 1
    /\ browser' = [browser EXCEPT ![c] = [attempt |-> @.attempt + 1, open |-> FALSE]]
    /\ wire' = [wire EXCEPT ![c] = <<>>]
    /\ told' = [told EXCEPT ![c] = {}]
    /\ UNCHANGED <<polling, server, load, items, untold>>

\* A work item replaces its row, a snapshot all of them.
Deliver(c) ==
    /\ wire[c] # <<>>
    /\ items' = [items EXCEPT ![c] = Head(wire[c]) @@ @]
    /\ wire' = [wire EXCEPT ![c] = Tail(@)]
    /\ UNCHANGED <<polling, server, browser, load, feedMishaps, history>>

AnswerLoad(s) ==
    /\ load[s].pc = "asked"
    /\ load' = [load EXCEPT ![s] = [pc |-> "answered", answer |-> stored]]
    /\ UNCHANGED <<polling, server, browser, wire, items, feedMishaps, history>>

Loaded(s) ==
    /\ load[s].pc = "answered"
    /\ items' = [items EXCEPT ![s[1]] = load[s].answer]
    /\ load' = [load EXCEPT ![s] = NoLoad]
    /\ UNCHANGED <<polling, server, browser, wire, feedMishaps, history>>

LoadFails(s) ==
    /\ feedMishaps < MaxFeedMishaps
    /\ load[s].pc = "asked"
    /\ feedMishaps' = feedMishaps + 1
    /\ load' = [load EXCEPT ![s] = NoLoad]
    /\ UNCHANGED <<polling, server, browser, wire, items, history>>

-----------------------------------------------------------------------------
\* The pages have loaded, and their sockets are not open yet.
FeedInit ==
    /\ polling \in BOOLEAN
    /\ stored = [k \in RowKeys |-> 0]
    /\ writes = 0
    /\ task = [t \in Broadcasters |-> IdleTask]
    /\ active = {}
    /\ handler = [s \in Sockets |-> Closed]
    /\ browser = [c \in Cockpits |-> [attempt |-> 1, open |-> FALSE]]
    /\ wire = [c \in Cockpits |-> <<>>]
    /\ load = [s \in Sockets |-> NoLoad]
    /\ items = [c \in Cockpits |-> [k \in RowKeys |-> 0]]
    /\ feedMishaps = 0
    /\ told = [c \in Cockpits |-> {}]
    /\ untold = {}

ServerStep ==
    \/ \E t \in Broadcasters : Broadcast(t) \/ SendFrame(t) \/ Sent(t)
    \/ \E t \in Snapshotters : ReadBoard(t)
    \/ \E s \in Sockets : ReadSnapshot(s) \/ SendSnapshot(s) \/ HandlerEnds(s)
                          \/ AnswerLoad(s)

BrowserStep ==
    \/ \E c \in Cockpits : Connect(c) \/ Deliver(c)
    \/ \E s \in Sockets : Loaded(s)

FeedEvent == \E w \in Writers, k \in RowKeys : Upsert(w, k)

Cycle == \E t \in Snapshotters : Hydrate(t)

FeedMishap ==
    \/ \E w \in Writers : WriteBackFails(w)
    \/ \E t \in Snapshotters : CycleFails(t)
    \/ \E c \in Cockpits : Drop(c)
    \/ \E s \in Sockets : LoadFails(s)

FeedNext == ServerStep \/ BrowserStep \/ FeedEvent \/ Cycle \/ FeedMishap

FeedSpec == FeedInit /\ [][FeedNext]_feedVars

\* The event loop runs every coroutine that can run, the loop starts its next
\* cycle when it has slept, and a browser reads its sockets and reconnects.
\* Nobody has to send an event or to press refresh.
FeedFairness ==
    /\ \A t \in Broadcasters : WF_feedVars(Broadcast(t) \/ SendFrame(t) \/ Sent(t))
    /\ \A t \in Snapshotters : WF_feedVars(ReadBoard(t))
    /\ \A s \in Sockets : WF_feedVars(ReadSnapshot(s) \/ SendSnapshot(s) \/ HandlerEnds(s))
    /\ \A s \in Sockets : WF_feedVars(AnswerLoad(s) \/ Loaded(s))
    /\ \A c \in Cockpits : WF_feedVars(Connect(c)) /\ WF_feedVars(Deliver(c))
    /\ WF_feedVars(Hydrate("poll"))

FairFeedSpec == FeedSpec /\ FeedFairness

-----------------------------------------------------------------------------
(* Properties.                                                             *)

\* Every variable keeps its type, and a browser's handler is the one that put
\* its socket in the manager's set (ws.py:20, routes_ws.py:33-47).
FeedTypeOK ==
    /\ polling \in BOOLEAN
    /\ stored \in Board
    /\ writes \in 0 .. MaxWrites
    /\ task \in [Broadcasters -> [pc: {"idle", "card", "hydrated", "read", "send"},
                           frame: Frames, to: SUBSET Sockets, dead: SUBSET Sockets]]
    /\ active \subseteq {s \in Sockets : handler[s].pc # "closed"}
    /\ handler \in [Sockets -> [pc: {"closed", "accepted", "read", "drain"},
                                snapshot: Frames]]
    /\ browser \in [Cockpits -> [attempt: Attempts, open: BOOLEAN]]
    /\ \A c \in Cockpits : wire[c] \in Seq(Frames)
    /\ load \in [Sockets -> [pc: {"none", "asked", "answered"}, answer: Frames]]
    /\ items \in [Cockpits -> Board]
    /\ feedMishaps \in 0 .. MaxFeedMishaps
    /\ told \in [Cockpits -> SUBSET RowKeys]
    /\ untold \in SUBSET RowKeys

\* Somebody is about to send the newest version of a row to a browser.
IsOnItsWay(c, k) ==
    \E t \in Broadcasters :
        \/ task[t].pc = "hydrated"
        \/ /\ task[t].pc \in {"card", "read"}
           /\ k \in DOMAIN task[t].frame
           /\ task[t].frame[k] = stored[k]
        \/ /\ SocketOf(c) \in task[t].to
           /\ k \in DOMAIN task[t].frame
           /\ task[t].frame[k] = stored[k]

\* No change falls between the snapshot a browser is given and the broadcasts
\* it is given after it: once the snapshot is out, the newest version of every
\* row has gone out on that socket or is on its way, unless the request or the
\* cycle that wrote it failed (routes_ws.py:34-40: the socket joins the set
\* before the board is read).
NothingFallsBetween ==
    \A c \in Cockpits :
        browser[c].open /\ handler[SocketOf(c)].pc = "drain" =>
            \A k \in RowKeys : k \in told[c] \cup untold \/ IsOnItsWay(c, k)

AllCurrent == \A c \in Cockpits : items[c] = stored

\* With the poll loop on, whatever was lost, dropped or sent in the wrong
\* order, every browser ends up showing the store (progress.py:207-212).
PolledBoardsCatchUp == <>[](polling => AllCurrent)

=============================================================================
