------------------------------- MODULE Session -------------------------------
(***************************************************************************)
(* The WebSocket session of agile-config-client: client.rs (connect,       *)
(* disconnect, connect_websocket, install_socket, Drop) and websocket.rs   *)
(* (send_text, close_writer, the reader task, the heartbeat and reconnect  *)
(* loops, handle_inbound).                                                 *)
(*                                                                         *)
(* The tasks are the application's calls, the two background loops and one *)
(* reader per socket.  They share Inner: the reconnect_enabled flag, the   *)
(* session token behind a std Mutex and the writer half of the socket      *)
(* behind a tokio Mutex.  Whatever two tasks can interleave is a step of   *)
(* its own: every await, every lock acquisition, every atomic access that  *)
(* another task can tell apart.                                            *)
(*                                                                         *)
(* What a load does to the snapshot and the cache is module Loader; here a *)
(* load is the time it takes and the "loaded" frame it sends at its end.   *)
(***************************************************************************)
EXTENDS Naturals, FiniteSets

CONSTANTS
    Callers,      \* application tasks that may be inside a Client call
    Reconnector,  \* the loop of spawn_reconnect
    Heartbeat,    \* the loop of spawn_heartbeat
    Sockets,      \* identities of WebSocket connections, reused when free;
                  \* a socket also names its session token and its reader task
    NoSocket,     \* Option::None for a writer; the token made by Client::new
    NoTask,       \* nobody holds the writer lock
    MayAbandon,   \* the application may drop the future of a call half-way
    Frames        \* what the server sends: "offline", "reload" (or a ping or
                  \* version that differs from ours); frames that call for
                  \* nothing change no variable and have no action

Loops   == {Reconnector, Heartbeat}
Dialers == Callers \cup {Reconnector}
Tasks   == Callers \cup Loops \cup Sockets

ASSUME SessionAssumption ==
    /\ Callers \cap Sockets = {}
    /\ Loops \cap (Callers \cup Sockets) = {}
    /\ Reconnector # Heartbeat
    /\ NoSocket \notin Sockets
    /\ NoTask \notin Tasks
    /\ MayAbandon \in BOOLEAN
    /\ Frames \subseteq {"offline", "reload"}

VARIABLES
    pc,                 \* where each task is
    sock,               \* the socket a dialer is installing
    reconnect_enabled,  \* Inner::reconnect_enabled
    loops_started,      \* Inner::loops_started
    session,            \* Inner::session, the current token
    cancelled,          \* the tokens cancelled one by one
    writer,             \* Inner::writer, whose sink it holds
    lock,               \* the holder of the writer lock across an await
    open,               \* sockets whose inbound stream has not ended
    handle              \* the application still owns a Client or a Source

flags  == <<reconnect_enabled, loops_started, handle>>
tokens == <<session, cancelled>>
rest   == <<sock, flags, tokens, writer, lock, open>>
vars   == <<pc, rest>>

\* The steps of install_socket, in order; a dialer there owns a new socket.
Installing == {"swap", "evict", "evicting", "set", "spawn"}

\* Points of a call at which its future can be dropped.
Awaiting == {"dial", "evict", "evicting", "set", "load", "notify", "sending",
             "close", "closing"}

Places == {"off", "idle", "check", "dial", "load", "notify", "sending",
           "cancel", "close", "closing", "exit"} \cup Installing

\* Some Arc<Inner> is alive: the application's, or the one a background task
\* upgraded for as long as it works (a loop or a reader that waits in its
\* select! holds only a Weak).
Strong == handle \/ \E t \in Tasks : pc[t] \notin {"off", "idle"}

\* Inner has been dropped: Drop for Inner ran and no upgrade succeeds.
Dropped == ~Strong

\* Mutant of Cancelled: the session token is no child of Inner::cancel.
CancelledAlone(s) == s \in cancelled

\* A token is cancelled by itself or through its parent, which the drop of
\* Inner cancels.
Cancelled(s) == s \in cancelled \/ Dropped

LockFree == lock = NoTask

Move(t, from, to) == pc[t] = from /\ pc' = [pc EXCEPT ![t] = to]

\* No reader, writer, token or installation refers to this identity.
Free(s) ==
    /\ pc[s] = "off"
    /\ s \notin {writer, session}
    /\ \A d \in Dialers : sock[d] # s

Init ==
    /\ pc = [t \in Tasks |-> IF t \in Callers THEN "idle" ELSE "off"]
    /\ sock = [d \in Dialers |-> NoSocket]
    /\ reconnect_enabled = FALSE
    /\ loops_started = FALSE
    /\ session = NoSocket
    /\ cancelled = {}
    /\ writer = NoSocket
    /\ lock = NoTask
    /\ open = {}
    /\ handle = TRUE

-----------------------------------------------------------------------------
(* The application: Client::connect, Client::disconnect, Client::load and  *)
(* Source::collect, dropping the future of a call, dropping the handles.   *)

Connect(c) ==
    /\ handle
    /\ pc[c] = "idle"
    /\ reconnect_enabled' = TRUE
    /\ loops_started' = TRUE
    /\ pc' = [t \in Tasks |->
                IF t = c THEN "dial"
                ELSE IF t \in Loops /\ ~loops_started THEN "idle" ELSE pc[t]]
    /\ UNCHANGED <<sock, handle, tokens, writer, lock, open>>

Disconnect(c) ==
    /\ handle
    /\ Move(c, "idle", "cancel")
    /\ reconnect_enabled' = FALSE
    /\ UNCHANGED <<sock, loops_started, handle, tokens, writer, lock, open>>

CallLoad(c) ==
    /\ handle
    /\ Move(c, "idle", "load")
    /\ UNCHANGED rest

\* Mutant of AbandonCall: the call does not own its connection, which stays open.
AbandonDetached(c) ==
    /\ MayAbandon
    /\ pc[c] \in Awaiting
    /\ pc' = [pc EXCEPT ![c] = "idle"]
    /\ sock' = [sock EXCEPT ![c] = NoSocket]
    /\ lock' = IF lock = c THEN NoTask ELSE lock
    /\ UNCHANGED <<flags, tokens, writer, open>>

\* A future dropped at an await releases what it owns: the lock guard, the
\* socket it was installing.
AbandonCall(c) ==
    /\ MayAbandon
    /\ pc[c] \in Awaiting
    /\ pc' = [pc EXCEPT ![c] = "idle"]
    /\ sock' = [sock EXCEPT ![c] = NoSocket]
    /\ open' = open \ {sock[c]}
    /\ lock' = IF lock = c THEN NoTask ELSE lock
    /\ UNCHANGED <<flags, tokens, writer>>

\* A call borrows the Client, so the last handle goes away between calls.
DropHandle ==
    /\ handle
    /\ \A c \in Callers : pc[c] = "idle"
    /\ handle' = FALSE
    /\ UNCHANGED <<pc, sock, reconnect_enabled, loops_started, tokens, writer, lock, open>>

-----------------------------------------------------------------------------
(* connect_websocket and install_socket, run by a call or by the reconnect *)
(* loop.                                                                   *)

\* One of the nodes, tried in turn, accepted the WebSocket handshake.
DialOk(d) ==
    /\ Move(d, "dial", "swap")
    /\ \E s \in Sockets :
        /\ Free(s)
        /\ sock' = [sock EXCEPT ![d] = s]
        /\ open' = open \cup {s}
        /\ cancelled' = cancelled \ {s}
    /\ UNCHANGED <<flags, session, writer, lock>>

\* Mutant of DialFail: a failed attempt ends the reconnect loop.
DialGivesUp(d) ==
    /\ Move(d, "dial", IF d \in Callers THEN "load" ELSE "off")
    /\ UNCHANGED rest

\* Mutant of DialFail: the loop goes on to a place of its own.
DialBacksOff(d) ==
    /\ Move(d, "dial", IF d \in Callers THEN "load" ELSE "backoff")
    /\ UNCHANGED rest

\* Every node failed: connect() goes on with the HTTP load, the loop waits
\* for its next tick.
DialFail(d) ==
    /\ Move(d, "dial", IF d \in Callers THEN "load" ELSE "idle")
    /\ UNCHANGED rest

\* Mutant of SwapSession: the replaced token is not cancelled.
SwapWithoutCancel(d) ==
    /\ Move(d, "swap", "evict")
    /\ session' = sock[d]
    /\ UNCHANGED <<sock, flags, cancelled, writer, lock, open>>

\* Under the session mutex: cancel the current token, put the new one there.
SwapSession(d) ==
    /\ Move(d, "swap", "evict")
    /\ cancelled' = cancelled \cup ({session} \ {NoSocket})
    /\ session' = sock[d]
    /\ UNCHANGED <<sock, flags, writer, lock, open>>

\* close_writer of install_socket: the guard lives as long as the close.
EvictWriter(d) ==
    /\ LockFree
    /\ Move(d, "evict", IF writer = NoSocket THEN "set" ELSE "evicting")
    /\ lock' = IF writer = NoSocket THEN NoTask ELSE d
    /\ writer' = NoSocket
    /\ UNCHANGED <<sock, flags, tokens, open>>

\* Mutant of EvictDone: the guard outlives the close.
EvictLeaksGuard(d) ==
    /\ Move(d, "evicting", "set")
    /\ UNCHANGED rest

EvictDone(d) ==
    /\ Move(d, "evicting", "set")
    /\ lock' = NoTask
    /\ UNCHANGED <<sock, flags, tokens, writer, open>>

SetWriter(d) ==
    /\ LockFree
    /\ Move(d, "set", "spawn")
    /\ writer' = sock[d]
    /\ UNCHANGED <<sock, flags, tokens, lock, open>>

\* spawn_reader ends the installation; both callers of it load next.
SpawnReader(d) ==
    /\ pc[d] = "spawn"
    /\ pc' = [pc EXCEPT ![d] = "load", ![sock[d]] = "idle"]
    /\ sock' = [sock EXCEPT ![d] = NoSocket]
    /\ UNCHANGED <<flags, tokens, writer, lock, open>>

-----------------------------------------------------------------------------
(* load and send_text.  A failed send changes nothing: the error is logged *)
(* and the sink stays in place.                                            *)

\* A node answered: the snapshot and the cache are updated, then "loaded" is
\* sent.
LoadPulled(t) ==
    /\ Move(t, "load", "notify")
    /\ UNCHANGED rest

\* No node answered: the cache or an error ends the load, nothing is sent.
LoadFellBack(t) ==
    /\ Move(t, "load", "idle")
    /\ UNCHANGED rest

SendText(t) ==
    /\ LockFree
    /\ Move(t, "notify", IF writer = NoSocket THEN "idle" ELSE "sending")
    /\ lock' = IF writer = NoSocket THEN NoTask ELSE t
    /\ UNCHANGED <<sock, flags, tokens, writer, open>>

SendDone(t) ==
    /\ Move(t, "sending", "idle")
    /\ lock' = NoTask
    /\ UNCHANGED <<sock, flags, tokens, writer, open>>

-----------------------------------------------------------------------------
(* disconnect, run by a call or by a reader that was told to go offline.   *)

CancelSession(t) ==
    /\ Move(t, "cancel", "close")
    /\ cancelled' = cancelled \cup ({session} \ {NoSocket})
    /\ UNCHANGED <<sock, flags, session, writer, lock, open>>

CloseWriter(t) ==
    /\ LockFree
    /\ Move(t, "close", IF writer = NoSocket THEN "idle" ELSE "closing")
    /\ lock' = IF writer = NoSocket THEN NoTask ELSE t
    /\ writer' = NoSocket
    /\ UNCHANGED <<sock, flags, tokens, open>>

CloseDone(t) ==
    /\ Move(t, "closing", "idle")
    /\ lock' = NoTask
    /\ UNCHANGED <<sock, flags, tokens, writer, open>>

-----------------------------------------------------------------------------
(* The reader task of a socket.  select! polls its two branches in random  *)
(* order, so a cancelled reader may still take a frame that has arrived.   *)

ReceiveOffline(s) ==
    /\ "offline" \in Frames
    /\ s \in open
    /\ Strong
    /\ Move(s, "idle", "cancel")
    /\ reconnect_enabled' = FALSE
    /\ UNCHANGED <<sock, loops_started, handle, tokens, writer, lock, open>>

ReceiveReload(s) ==
    /\ "reload" \in Frames
    /\ s \in open
    /\ Strong
    /\ Move(s, "idle", "load")
    /\ UNCHANGED rest

\* Mutant of ReaderStops: the loop does not watch its token.
ReaderDeaf(s) ==
    /\ s \notin open
    /\ Move(s, "idle", IF Strong THEN "exit" ELSE "off")
    /\ open' = open \ {s}
    /\ UNCHANGED <<sock, flags, tokens, writer, lock>>

\* The reader leaves its loop, and goes on to clear the writer if Inner lives.
ReaderStops(s) ==
    /\ Cancelled(s) \/ s \notin open
    /\ Move(s, "idle", IF Strong THEN "exit" ELSE "off")
    /\ open' = open \ {s}
    /\ UNCHANGED <<sock, flags, tokens, writer, lock>>

\* Mutant of ReaderExit: the reader ends without clearing the writer.
ReaderLeavesWriter(s) ==
    /\ Move(s, "exit", "off")
    /\ UNCHANGED rest

\* It takes whatever sink the writer holds by then.
ReaderExit(s) ==
    /\ LockFree
    /\ Move(s, "exit", "off")
    /\ writer' = NoSocket
    /\ UNCHANGED <<sock, flags, tokens, lock, open>>

\* The peer closes the connection, or the network breaks it.
PeerCloses(s) ==
    /\ s \in open
    /\ open' = open \ {s}
    /\ UNCHANGED <<pc, sock, flags, tokens, writer, lock>>

-----------------------------------------------------------------------------
(* The background loops.                                                   *)

HeartbeatTick ==
    /\ Strong
    /\ Move(Heartbeat, "idle", "notify")
    /\ UNCHANGED rest

\* Mutant of ReconnectTick: the flag is not looked at.
ReconnectTickAlways ==
    /\ Strong
    /\ Move(Reconnector, "idle", "check")
    /\ UNCHANGED rest

ReconnectTick ==
    /\ Strong
    /\ reconnect_enabled
    /\ Move(Reconnector, "idle", "check")
    /\ UNCHANGED rest

ReconnectCheck ==
    /\ LockFree
    /\ Move(Reconnector, "check", IF writer = NoSocket THEN "dial" ELSE "idle")
    /\ UNCHANGED rest

LoopStops(l) ==
    /\ Dropped
    /\ Move(l, "idle", "off")
    /\ UNCHANGED rest

-----------------------------------------------------------------------------
CallStep(c) == Connect(c) \/ Disconnect(c) \/ CallLoad(c) \/ AbandonCall(c)

InstallStep(d) ==
    \/ SwapSession(d) \/ EvictWriter(d) \/ EvictDone(d) \/ SetWriter(d)
    \/ SpawnReader(d)

LoadStep(t) == LoadPulled(t) \/ LoadFellBack(t)

CloseStep(t) == CancelSession(t) \/ CloseWriter(t) \/ CloseDone(t)

ReaderStep(s) ==
    \/ ReceiveOffline(s) \/ ReceiveReload(s) \/ ReaderStops(s) \/ ReaderExit(s)

\* After the drop every task ends and nothing is left to do.
AllEnded == Dropped /\ \A t \in Loops \cup Sockets : pc[t] = "off"

Terminated == AllEnded /\ UNCHANGED vars

Next ==
    \/ \E c \in Callers : CallStep(c)
    \/ DropHandle
    \/ \E d \in Dialers : DialOk(d) \/ DialFail(d) \/ InstallStep(d)
    \/ \E t \in Tasks : LoadStep(t) \/ SendText(t) \/ SendDone(t) \/ CloseStep(t)
    \/ \E s \in Sockets : ReaderStep(s) \/ PeerCloses(s)
    \/ HeartbeatTick
    \/ ReconnectTick
    \/ ReconnectCheck
    \/ \E l \in Loops : LoopStops(l)
    \/ Terminated

Spec == Init /\ [][Next]_vars

-----------------------------------------------------------------------------
(* Fairness.  Tokio runs every task that can run; its mutex serves waiters  *)
(* in FIFO order, hence strong fairness at a lock; requests and handshakes  *)
(* end, with success or an error, and so do writes to a socket; select!     *)
(* picks among its ready branches at random, so a stop that is ready again  *)
(* and again is taken.                                                      *)

Progress(t) ==
    \/ t \in Dialers /\ (DialOk(t) \/ DialFail(t) \/ InstallStep(t))
    \/ LoadStep(t) \/ SendText(t) \/ SendDone(t) \/ CloseStep(t)
    \/ t = Reconnector /\ (ReconnectTick \/ ReconnectCheck)
    \/ t = Heartbeat /\ HeartbeatTick
    \/ t \in Loops /\ LoopStops(t)
    \/ t \in Sockets /\ ReaderExit(t)

Fairness ==
    /\ \A t \in Tasks : SF_vars(Progress(t))
    /\ \A s \in Sockets : SF_vars(ReaderStops(s))

FairSpec == Spec /\ Fairness

\* The environment's part: a node accepts some of the loop's attempts.
ReachableSpec == FairSpec /\ SF_vars(DialOk(Reconnector))

-----------------------------------------------------------------------------
(* Properties.                                                             *)

TypeOK ==
    /\ pc \in [Tasks -> Places]
    /\ sock \in [Dialers -> Sockets \cup {NoSocket}]
    /\ reconnect_enabled \in BOOLEAN
    /\ loops_started \in BOOLEAN
    /\ session \in Sockets \cup {NoSocket}
    /\ cancelled \subseteq Sockets
    /\ writer \in Sockets \cup {NoSocket}
    /\ lock \in Tasks \cup {NoTask}
    /\ open \subseteq Sockets
    /\ handle \in BOOLEAN

\* The token of s has been made current at some time and s is still in use:
\* its reader runs or its installation is past the session mutex.
Issued(s) ==
    \/ pc[s] # "off"
    \/ \E d \in Dialers : sock[d] = s /\ pc[d] \in Installing \ {"swap"}

Live(s) == Issued(s) /\ ~Cancelled(s)

\* However installations, disconnects and readers interleave, no session other
\* than the current one is live: a replaced reader is always told to stop, so
\* two sessions never serve messages side by side for good.
AtMostOneLiveSession == \A s \in Sockets : Live(s) => s = session

\* A sink in Inner::writer belongs to a socket whose reader is running or about
\* to be spawned.  Only the reader notices that a connection is dead, so without
\* this the loop would see a writer for ever and never reconnect.
WriterHasReader ==
    Strong => \A s \in Sockets : writer = s =>
        \/ pc[s] # "off"
        \/ \E d \in Dialers : sock[d] = s /\ pc[d] = "spawn"

\* No connection is left behind: one that is open is being installed or has a
\* reader that will see its end, whatever was replaced, cancelled or abandoned on
\* the way.
ConnectionsServed ==
    \A s \in open : pc[s] # "off" \/ \E d \in Dialers : sock[d] = s

\* The writer lock is held exactly by the task that is inside a close or a send,
\* so the sink has one user, and no task that dials, loads or waits for the lock
\* keeps the others waiting.
LockAtWork ==
    \A t \in Tasks : lock = t <=> pc[t] \in {"evicting", "sending", "closing"}

\* Why AtMostOneLiveSession and WriterHasReader hold: a dialer owns a socket exactly while it installs one, the
\* reader of that socket is not spawned yet, no two dialers own the same one;
\* the loops do not run before connect() starts them; an issued token that is
\* not current has been cancelled.
SockOwned ==
    \A d \in Dialers :
        /\ sock[d] # NoSocket <=> pc[d] \in Installing
        /\ sock[d] # NoSocket =>
             /\ pc[sock[d]] = "off"
             /\ \A e \in Dialers : sock[e] = sock[d] => e = d

LoopsWait == ~loops_started => \A l \in Loops : pc[l] = "off"

OthersCancelled ==
    \A s \in Sockets : Issued(s) /\ s # session => s \in cancelled

\* Why the steps are those of Connection: the token of a socket that is not
\* installed yet is neither current nor cancelled, and a call borrows the Client.
TokensNew ==
    \A d \in Dialers : pc[d] = "swap" => sock[d] \notin cancelled \cup {session}

CallsBorrow == ~handle => \A c \in Callers : pc[c] = "idle"

IInv ==
    /\ TypeOK /\ SockOwned /\ LoopsWait /\ OthersCancelled /\ WriterHasReader
    /\ TokensNew /\ CallsBorrow

\* Why ConnectionsServed holds: a reader that leaves its loop has dropped its
\* stream.
ReadersEnd == \A s \in Sockets : pc[s] = "exit" => s \notin open

Served == ConnectionsServed /\ ReadersEnd

\* Reconnecting is off, no connection is being made and no session is live.
Offline ==
    /\ ~reconnect_enabled
    /\ \A d \in Dialers : pc[d] \notin {"check", "dial"} \cup Installing
    /\ \A s \in Sockets : ~Live(s)

\* Once offline with no attempt in flight the client stays offline until the
\* next connect(): heartbeats, ticks, loads and readers that are still busy do
\* not bring a session back.
StaysOffline == [][Offline => Offline' \/ reconnect_enabled']_vars

\* disconnect() "stops reconnecting and closes the WebSocket": with
\* reconnecting off and no call at work, no session becomes live.
NoSessionAfterDisconnect ==
    [][~reconnect_enabled /\ (\A c \in Callers : pc[c] = "idle")
        => \A s \in Sockets : Live(s)' => Live(s)]_vars

\* A session that is cancelled winds up: its reader ends, whatever it was doing,
\* and the socket with it.
CancelledSessionEnds == \A s \in Sockets : s \in cancelled ~> pc[s] = "off"

\* No call waits for ever on the writer lock or on a step of another task.
CallsReturn == \A c \in Callers : pc[c] # "idle" ~> pc[c] = "idle"

\* The environment's part: of the loop's attempts, if there is no end to them, some
\* node accepts one again and again.
Reachable ==
    []<>(pc[Reconnector] = "dial") => []<>(pc[Reconnector] = "swap")

\* Without a writer the reconnect loop brings one back, unless it is told not to
\* or the client goes away.
ReconnectRestores ==
    Reachable =>
        ((loops_started /\ reconnect_enabled /\ handle /\ writer = NoSocket)
            ~> (writer # NoSocket \/ ~reconnect_enabled \/ ~handle))

\* After the last drop both loops and every reader end.
DropEndsTasks == Dropped ~> AllEnded

\* While the application only holds its client and no peer, node or console
\* disturbs the connection, the connection stays up.
Disturbance ==
    \/ \E c \in Callers : CallStep(c)
    \/ DropHandle
    \/ \E d \in Dialers : DialFail(d)
    \/ \E s \in Sockets : ReceiveOffline(s) \/ PeerCloses(s)

StaysConnected ==
    (<>[]reconnect_enabled /\ <>[]handle /\ <>[][~Disturbance]_vars)
        => <>[](writer # NoSocket)

-----------------------------------------------------------------------------
(* The session implements Connection: an attempt lasts from the decision to *)
(* dial to the swap of the session token, the connection is the live one.   *)

Attempting == {d \in Dialers : pc[d] \in {"check", "dial", "swap"}}

Listening == {s \in Sockets : Live(s)}

Manager == INSTANCE Connection WITH
    enabled  <- reconnect_enabled,
    attempts <- Attempting,
    live     <- Listening,
    held     <- Strong

\* Whatever calls, loops and readers interleave and wherever a call is dropped,
\* the client behaves like a connection manager that works in atomic steps: a
\* connection only comes from an attempt, an attempt only from connect() or from
\* the loop while reconnecting is on, and each connection replaces the last.
ImplementsConnection == Manager!Spec
=============================================================================
