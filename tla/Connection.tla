----------------------------- MODULE Connection -----------------------------
(***************************************************************************)
(* What the session promises to its user, without the steps it takes: the  *)
(* abstract specification that Session implements and LiveUpdates is built *)
(* on.  A connection is made by an attempt, an attempt is made by          *)
(* connect() or, while reconnecting is on, by the loop, and there is one   *)
(* connection at a time.                                                   *)
(***************************************************************************)
CONSTANTS
    Callers,      \* application tasks that may be inside connect()
    Reconnector,  \* the reconnect loop
    Sockets       \* identities of connections

Dialers == Callers \cup {Reconnector}

VARIABLES
    enabled,   \* reconnecting is on
    attempts,  \* the dialers with an attempt under way
    live,      \* the connection the client listens to, if any, as a set
    held       \* the client has not been dropped

Init ==
    /\ enabled = FALSE
    /\ attempts = {}
    /\ live = {}
    /\ held = TRUE

\* connect()
Enable(c) ==
    /\ held
    /\ enabled' = TRUE
    /\ attempts' = attempts \cup {c}
    /\ UNCHANGED <<live, held>>

\* The reconnect loop finds that a connection is missing.
Retry ==
    /\ held /\ enabled
    /\ attempts' = attempts \cup {Reconnector}
    /\ UNCHANGED <<enabled, live, held>>

\* No node accepts, the loop finds a writer, or the call is dropped.
GiveUp(d) ==
    /\ held
    /\ attempts' = attempts \ {d}
    /\ UNCHANGED <<enabled, live, held>>

\* The new connection takes the place of the one before it.
Establish(d, s) ==
    /\ held
    /\ d \in attempts
    /\ attempts' = attempts \ {d}
    /\ live' = {s}
    /\ UNCHANGED <<enabled, held>>

\* disconnect(), or the message that tells the client to go offline.
Disable ==
    /\ held
    /\ enabled' = FALSE
    /\ UNCHANGED <<attempts, live, held>>

\* Closed by disconnect(), by the peer or with the call that was installing it.
Lose ==
    /\ held
    /\ live # {}
    /\ live' = {}
    /\ UNCHANGED <<enabled, attempts, held>>

\* The last reference to the client goes away; only the loop may be at work.
Drop ==
    /\ held
    /\ attempts \subseteq {Reconnector}
    /\ held' = FALSE
    /\ attempts' = {}
    /\ live' = {}
    /\ UNCHANGED enabled

Next ==
    \/ \E c \in Callers : Enable(c)
    \/ Retry
    \/ \E d \in Dialers : GiveUp(d) \/ \E s \in Sockets : Establish(d, s)
    \/ Disable
    \/ Lose
    \/ Drop

cvars == <<enabled, attempts, live, held>>

Spec == Init /\ [][Next]_cvars
=============================================================================
