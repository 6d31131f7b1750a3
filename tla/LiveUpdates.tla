----------------------------- MODULE LiveUpdates -----------------------------
(***************************************************************************)
(* How a running client learns of a publication: the inbound protocol      *)
(* (classify_inbound of protocol.rs, handle_inbound and the reader task of *)
(* websocket.rs) between a session and the loads it causes.  The session   *)
(* is the one of Connection and the loads are those of LoadService, which  *)
(* Session and Loader implement step by step.                              *)
(*                                                                         *)
(* The servers are external: they publish versions and tell the current    *)
(* one to every connection, by its publish-time-line-id, by the digest of  *)
(* the configuration, or by the digest in the legacy form "V:...".         *)
(***************************************************************************)
EXTENDS Naturals, Sequences, Functions

CONSTANTS
    Callers,      \* application tasks
    Reconnector,  \* the reconnect loop
    Sockets,      \* identities of connections and of their readers
    Servers,      \* the kinds of servers: how they tell a version, and which of
                  \* them always answer
    MaxVersion,   \* bound: the last version they publish
    MaxUnread,    \* bound: frames sent and not taken yet, on all connections
    Digest,       \* of each version: what data_md5_version computes
    Extras        \* other frames the servers may send

ASSUME LiveUpdatesAssumption ==
    /\ MaxVersion \in Nat \ {0}
    /\ \A kind \in Servers : kind.style \in {"id", "digest", "legacy"}

VARIABLES
    enabled, attempts, live, held,               \* as in Connection
    reliable, published, view, phase, since,     \* as in LoadService
    style,    \* how the servers tell a version, fixed
    reading,  \* the sockets whose reader runs
    inbox,    \* the frames each reader has not taken yet
    closing   \* who is in disconnect(), between the flag and the token

Loads == Callers \cup {Reconnector} \cup Sockets

Manager == INSTANCE Connection
Service == INSTANCE LoadService

connection == <<enabled, attempts, live, held>>
service    == <<reliable, published, view, phase, since>>
readers    == <<reading, inbox>>
vars       == <<connection, service, style, readers, closing>>

-----------------------------------------------------------------------------
(* Frames.  A JSON field that is null or missing reads as empty.           *)

NoData      == <<>>
Id(v)       == <<"id", v>>
DigestOf(v) == <<"digest", Digest[v]>>

Text(form)       == [form |-> form, module |-> "", action |-> "", data |-> NoData]
LegacyVersion(d) == [Text("V:") EXCEPT !.data = d]
Object(m, a, d)  == [form |-> "object", module |-> m, action |-> a, data |-> d]

\* Mutant of ForConfigCenter: a message without a module is not for us.
ForConfigCenterOnly(text) == text.form = "object" /\ text.module = "c"

ForConfigCenter(text) == text.form = "object" /\ text.module \in {"", "c"}

\* Mutant of LocalVersion: the publish id is not used.
LocalDigest == DigestOf(view.version)

\* ConfigSnapshot::version: a pulled snapshot has the id the servers gave it, if
\* they give ids, a cached one never has.
LocalVersion ==
    IF style = "id" /\ view.version # 0 /\ ~view.from_cache
        THEN Id(view.version) ELSE DigestOf(view.version)

\* The frames that call for something; all others are dropped.
Outdated(text) ==
    \/ text.form = "V:" /\ text.data # DigestOf(view.version)
    \/ ForConfigCenter(text) /\ text.action = "ping" /\ text.data # LocalVersion

CallsForLoad(text) ==
    Outdated(text) \/ (ForConfigCenter(text) /\ text.action = "reload")

CallsForOffline(text) == ForConfigCenter(text) /\ text.action = "offline"

\* What the servers send to tell the current version.
News == CASE style = "id"     -> Object("c", "ping", Id(published))
          [] style = "digest" -> Object("", "ping", DigestOf(published))
          [] style = "legacy" -> LegacyVersion(DigestOf(published))

-----------------------------------------------------------------------------
Init ==
    /\ Manager!Init
    /\ Service!Init
    /\ \E kind \in Servers : style = kind.style /\ reliable = kind.reliable
    /\ reading = {}
    /\ inbox = [s \in Sockets |-> <<>>]
    /\ closing = {}

\* Mutant of AtRest: nothing waits for a message to be handled.
AtRestAlways(t) == t \notin attempts

\* Neither in a load nor in connect() nor in disconnect().
AtRest(t) == phase[t] \in Service!Resting /\ t \notin attempts \cup closing

Connect(c) ==
    /\ AtRest(c)
    /\ Manager!Enable(c)
    /\ UNCHANGED <<service, style, readers, closing>>

Retry ==
    /\ AtRest(Reconnector)
    /\ Manager!Retry
    /\ UNCHANGED <<service, style, readers, closing>>

\* install_socket, and the load that follows it.
Established(d, s) ==
    /\ s \notin reading
    /\ Manager!Establish(d, s)
    /\ reading' = reading \cup {s}
    /\ Service!Begin(d)
    /\ UNCHANGED <<style, inbox, closing>>

\* No node accepts: connect() loads all the same, the loop does not.
NotEstablished(d) ==
    /\ d \in attempts
    /\ Manager!GiveUp(d)
    /\ IF d \in Callers THEN Service!Begin(d) ELSE UNCHANGED service
    /\ UNCHANGED <<style, readers, closing>>

Disconnect(c) ==
    /\ AtRest(c)
    /\ Manager!Disable
    /\ closing' = closing \cup {c}
    /\ UNCHANGED <<service, style, readers>>

\* The session token is cancelled, whichever it is by now.
CloseSession(t) ==
    /\ t \in closing
    /\ closing' = closing \ {t}
    /\ IF live = {} THEN UNCHANGED connection ELSE Manager!Lose
    /\ UNCHANGED <<service, style, readers>>

Load(c) ==
    /\ AtRest(c)
    /\ Service!Begin(c)
    /\ UNCHANGED <<connection, style, readers, closing>>

\* A load goes on.  What it returns, Ok or an error, changes nothing here.
LoadStep(l) ==
    /\ \/ Service!Pull(l)
       \/ Service!Restore(l)
       \/ phase[l] = "applied" /\ Service!Rest(l, "idle")
       \/ reliable = {} /\ Service!Rest(l, "idle")
    /\ UNCHANGED <<connection, style, readers, closing>>

\* The caller of a load drops it.
AbandonLoad(c) ==
    /\ Service!Rest(c, "idle")
    /\ UNCHANGED <<connection, style, readers, closing>>

-----------------------------------------------------------------------------
(* The reader of s, which handles one frame at a time.  It may take a frame *)
(* when its session has been replaced or cancelled: select! polls its ready *)
(* branches in random order.                                               *)

Frame(s) == Head(inbox[s])

Take(s) ==
    /\ s \in reading
    /\ AtRest(s)
    /\ inbox[s] # <<>>
    /\ inbox' = [inbox EXCEPT ![s] = Tail(@)]
    /\ UNCHANGED <<style, reading>>

TakeIgnored(s) ==
    /\ Take(s)
    /\ ~CallsForLoad(Frame(s)) /\ ~CallsForOffline(Frame(s))
    /\ UNCHANGED <<connection, service, closing>>

TakeLoad(s) ==
    /\ Take(s)
    /\ CallsForLoad(Frame(s))
    /\ Service!Begin(s)
    /\ UNCHANGED <<connection, closing>>

TakeOffline(s) ==
    /\ Take(s)
    /\ CallsForOffline(Frame(s))
    /\ Manager!Disable
    /\ closing' = closing \cup {s}
    /\ UNCHANGED service

\* The session is cancelled or the peer closes the connection.
ReaderStops(s) ==
    /\ s \in reading
    /\ AtRest(s)
    /\ reading' = reading \ {s}
    /\ inbox' = [inbox EXCEPT ![s] = <<>>]
    /\ IF s \in live THEN Manager!Lose ELSE UNCHANGED connection
    /\ UNCHANGED <<service, style, closing>>

-----------------------------------------------------------------------------
(* The servers.                                                            *)

Publish ==
    /\ published < MaxVersion
    /\ Service!Publish
    /\ UNCHANGED <<connection, style, readers, closing>>

Send(s, text) ==
    /\ s \in reading
    /\ FoldFunctionOnSet(LAMBDA frames, n : n + Len(frames), 0, inbox, Sockets) < MaxUnread
    /\ inbox' = [inbox EXCEPT ![s] = Append(@, text)]
    /\ UNCHANGED <<connection, service, style, reading, closing>>

-----------------------------------------------------------------------------
ReaderStep(s) == TakeIgnored(s) \/ TakeLoad(s) \/ TakeOffline(s)

Attempt(d) == NotEstablished(d) \/ \E s \in Sockets : Established(d, s)

Next ==
    \/ \E c \in Callers : Connect(c) \/ Disconnect(c) \/ Load(c) \/ AbandonLoad(c)
    \/ Retry
    \/ \E d \in Callers \cup {Reconnector} : Attempt(d)
    \/ \E t \in closing : CloseSession(t)
    \/ \E l \in Loads : LoadStep(l)
    \/ \E s \in Sockets : ReaderStep(s) \/ ReaderStops(s)
    \/ \E s \in Sockets, text \in Extras \cup {News} : Send(s, text)
    \/ Publish

Spec == Init /\ [][Next]_vars

\* What a task does by itself; a reader that has frames takes them in turn.
TaskStep(t) ==
    \/ LoadStep(t)
    \/ CloseSession(t)
    \/ t \in Sockets /\ ReaderStep(t)

\* The client's part: tasks go on.  The servers' part: some pulls succeed, and
\* every connection is told the current version again and again.
Fairness ==
    /\ \A t \in Loads : WF_vars(TaskStep(t))
    /\ SF_vars(\E l \in Loads : LoadStep(l) /\ Service!Pull(l))
    /\ \A s \in Sockets : SF_vars(Send(s, News))

FairSpec == Spec /\ Fairness

-----------------------------------------------------------------------------
(* Properties.                                                             *)

\* Every variable keeps its type, and a task is in one call at a time: a reader
\* that handles a message takes no other one.
TypeOK ==
    /\ {enabled, held} \subseteq BOOLEAN
    /\ attempts \subseteq Callers \cup {Reconnector}
    /\ closing \subseteq Callers \cup Sockets
    /\ live \subseteq reading /\ reading \subseteq Sockets
    /\ published \in 1 .. MaxVersion
    /\ view \in [version : 0 .. published, from_cache : BOOLEAN]
    /\ phase \in [Loads -> Service!Resting \cup {"waiting", "applied"}]
    /\ since \in [Loads -> 0 .. published]
    /\ \A t \in attempts \cup closing : phase[t] \in Service!Resting
    /\ attempts \cap closing = {}
    /\ DOMAIN inbox = Sockets
    /\ \A s \in Sockets \ reading : inbox[s] = <<>>

\* The client holds what is published, as far as the servers let it know.
Current ==
    IF style = "id" THEN view.version = published
    ELSE Digest[view.version] = Digest[published]

\* Word of what is published calls for a load exactly when the client does not
\* hold it, in each of the three forms; a snapshot from the cache, which has no
\* id, is loaded again, but only where no node has to answer.
NewsIsJudged ==
    Outdated(News) <=> ~Current \/ (style = "id" /\ view.from_cache /\ reliable = {})

\* After the last publication a client that stays connected comes to hold it,
\* whatever older loads are still to be applied, whichever of the three forms
\* the servers use and whatever a replaced reader still takes; and it keeps it
\* when one node always answers.
Converges ==
    <>[](live # {}) =>
        /\ []<>Current
        /\ reliable # {} => <>[]Current

\* Once the client holds what is published, the pings that repeat it cause no
\* more loads.
Settles ==
    reliable # {} =>
        <>[][\A s \in Sockets : TakeLoad(s) => ~Outdated(Frame(s))]_vars
=============================================================================
