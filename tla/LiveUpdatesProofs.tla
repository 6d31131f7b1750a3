-------------------------- MODULE LiveUpdatesProofs --------------------------
(* Live updates for any number of callers, connections and versions.       *)
EXTENDS LiveUpdates, TLAPS

\* What the steps of a session and of a load do to the types.
SessionOK ==
    /\ {enabled, held} \subseteq BOOLEAN
    /\ attempts \subseteq Callers \cup {Reconnector}
    /\ closing \subseteq Callers \cup Sockets
    /\ live \subseteq reading /\ reading \subseteq Sockets

LoadsOK ==
    /\ published \in 1 .. MaxVersion
    /\ view \in [version : 0 .. published, from_cache : BOOLEAN]
    /\ phase \in [Loads -> Service!Resting \cup {"waiting", "applied"}]
    /\ since \in [Loads -> 0 .. published]

OneCall ==
    /\ \A t \in attempts \cup closing : phase[t] \in Service!Resting
    /\ attempts \cap closing = {}

InboxOK ==
    /\ DOMAIN inbox = Sockets
    /\ \A s \in Sockets \ reading : inbox[s] = <<>>

\* The parts of the type invariant.
LEMMA Parts == TypeOK <=> SessionOK /\ LoadsOK /\ OneCall /\ InboxOK
BY DEF TypeOK, SessionOK, LoadsOK, OneCall, InboxOK

\* What the call of a load does to the types.
LEMMA LoadsBegin ==
    ASSUME LoadsOK, NEW l \in Loads, Service!Begin(l)
    PROVE  LoadsOK' /\ phase' = [phase EXCEPT ![l] = "waiting"]
BY LiveUpdatesAssumption DEF LoadsOK, Service!Begin, Service!Resting

\* What the end of a load does to the types.
LEMMA LoadsRest ==
    ASSUME LoadsOK, NEW l \in Loads, Service!Rest(l, "idle")
    PROVE  LoadsOK' /\ phase' = [phase EXCEPT ![l] = "idle"]
           /\ phase[l] \notin Service!Resting
BY LiveUpdatesAssumption DEF LoadsOK, Service!Rest, Service!Resting

\* What the replacement of the snapshot does to the types.
LEMMA LoadsApply ==
    ASSUME LoadsOK, NEW l \in Loads, Service!Pull(l) \/ Service!Restore(l)
    PROVE  LoadsOK' /\ phase' = [phase EXCEPT ![l] = "applied"]
           /\ phase[l] \notin Service!Resting
<1>1. published \in Nat /\ since[l] \in Nat
  BY LiveUpdatesAssumption DEF LoadsOK
<1>2. CASE Service!Pull(l)
  <2>1. PICK v \in since[l] .. published : view' = [version |-> v, from_cache |-> FALSE]
    BY <1>2 DEF Service!Pull
  <2>2. v \in 0 .. published
    BY <1>1
  <2> QED BY <1>1, <1>2, <2>1, <2>2 DEF LoadsOK, Service!Pull, Service!Resting
<1>3. CASE Service!Restore(l)
  <2>1. PICK v \in 1 .. published : view' = [version |-> v, from_cache |-> TRUE]
    BY <1>3 DEF Service!Restore
  <2>2. v \in 0 .. published
    BY <1>1
  <2> QED BY <1>1, <1>3, <2>1, <2>2 DEF LoadsOK, Service!Restore, Service!Resting
<1> QED BY <1>2, <1>3

\* A step outside the loads keeps their types.
LEMMA LoadsSame ==
    ASSUME LoadsOK, UNCHANGED service
    PROVE  LoadsOK' /\ phase' = phase
BY DEF LoadsOK, service

\* The type invariant is inductive.
LEMMA TypeInductive ==
    ASSUME TypeOK, [Next]_vars
    PROVE  TypeOK'
<1>0. SessionOK /\ LoadsOK /\ OneCall /\ InboxOK
  BY Parts
<1> SUFFICES SessionOK' /\ LoadsOK' /\ OneCall' /\ InboxOK'
  BY DEF TypeOK, SessionOK, LoadsOK, OneCall, InboxOK
<1>p. Callers \subseteq Loads /\ Reconnector \in Loads /\ Sockets \subseteq Loads
  BY DEF Loads
<1>f. DOMAIN phase = Loads
  BY <1>0 DEF LoadsOK
<1> USE DEF SessionOK, OneCall, InboxOK, connection, readers
<1>1. ASSUME NEW c \in Callers, Connect(c) PROVE SessionOK' /\ LoadsOK' /\ OneCall' /\ InboxOK'
  BY <1>0, <1>1, LoadsSame DEF Connect, AtRest, Manager!Enable
<1>2. ASSUME NEW c \in Callers, Disconnect(c) PROVE SessionOK' /\ LoadsOK' /\ OneCall' /\ InboxOK'
  BY <1>0, <1>2, LoadsSame DEF Disconnect, AtRest, Manager!Disable
<1>3. ASSUME NEW c \in Callers, Load(c) PROVE SessionOK' /\ LoadsOK' /\ OneCall' /\ InboxOK'
  BY <1>0, <1>p, <1>f, <1>3, LoadsBegin DEF Load, AtRest
<1>4. ASSUME NEW c \in Callers, AbandonLoad(c) PROVE SessionOK' /\ LoadsOK' /\ OneCall' /\ InboxOK'
  BY <1>0, <1>p, <1>f, <1>4, LoadsRest DEF AbandonLoad
<1>5. CASE Retry
  BY <1>0, <1>5, LoadsSame DEF Retry, AtRest, Manager!Retry
<1>6. ASSUME NEW d \in Callers \cup {Reconnector}, NEW s \in Sockets, Established(d, s)
      PROVE  SessionOK' /\ LoadsOK' /\ OneCall' /\ InboxOK'
  BY <1>0, <1>p, <1>f, <1>6, LoadsBegin DEF Established, Manager!Establish
<1>7. ASSUME NEW d \in Callers \cup {Reconnector}, NotEstablished(d)
      PROVE  SessionOK' /\ LoadsOK' /\ OneCall' /\ InboxOK'
  <2>1. CASE d \in Callers
    BY <1>0, <1>p, <1>f, <1>7, <2>1, LoadsBegin DEF NotEstablished, Manager!GiveUp
  <2>2. CASE d \notin Callers
    BY <1>0, <1>7, <2>2, LoadsSame DEF NotEstablished, Manager!GiveUp
  <2> QED BY <2>1, <2>2
<1>8. ASSUME NEW t \in closing, CloseSession(t)
      PROVE  SessionOK' /\ LoadsOK' /\ OneCall' /\ InboxOK'
  BY <1>0, <1>8, LoadsSame DEF CloseSession, Manager!Lose
<1>9. ASSUME NEW l \in Loads, LoadStep(l)
      PROVE  SessionOK' /\ LoadsOK' /\ OneCall' /\ InboxOK'
  <2>1. /\ LoadsOK' /\ phase[l] \notin Service!Resting
        /\ \A t \in Loads \ {l} : phase'[t] = phase[t]
    BY <1>0, <1>f, <1>9, LoadsRest, LoadsApply DEF LoadStep
  <2> QED BY <1>0, <1>p, <1>9, <2>1 DEF LoadStep
<1>10. ASSUME NEW s \in Sockets, TakeIgnored(s)
       PROVE  SessionOK' /\ LoadsOK' /\ OneCall' /\ InboxOK'
  BY <1>0, <1>10, LoadsSame DEF TakeIgnored, Take
<1>11. ASSUME NEW s \in Sockets, TakeLoad(s)
       PROVE  SessionOK' /\ LoadsOK' /\ OneCall' /\ InboxOK'
  BY <1>0, <1>p, <1>f, <1>11, LoadsBegin DEF TakeLoad, Take, AtRest
<1>12. ASSUME NEW s \in Sockets, TakeOffline(s)
       PROVE  SessionOK' /\ LoadsOK' /\ OneCall' /\ InboxOK'
  BY <1>0, <1>12, LoadsSame DEF TakeOffline, Take, AtRest, Manager!Disable
<1>13. ASSUME NEW s \in Sockets, ReaderStops(s)
       PROVE  SessionOK' /\ LoadsOK' /\ OneCall' /\ InboxOK'
  BY <1>0, <1>13, LoadsSame DEF ReaderStops, AtRest, Manager!Lose
<1>14. ASSUME NEW s \in Sockets, NEW text, Send(s, text)
       PROVE  SessionOK' /\ LoadsOK' /\ OneCall' /\ InboxOK'
  BY <1>0, <1>14, LoadsSame DEF Send
<1>15. CASE Publish
  BY <1>0, <1>15, LiveUpdatesAssumption DEF Publish, Service!Publish, LoadsOK
<1>16. CASE UNCHANGED vars
  BY <1>0, <1>16, LoadsSame DEF vars
<1> QED
  BY <1>1, <1>2, <1>3, <1>4, <1>5, <1>6, <1>7, <1>8, <1>9, <1>10, <1>11, <1>12,
     <1>13, <1>14, <1>15, <1>16 DEF Next, Attempt, ReaderStep

\* For any number of callers, connections and versions: a task is in one call at
\* a time, only readers that run have frames, and the snapshot, like all that
\* loads may apply, has been published.
THEOREM TypeCorrect == Spec => []TypeOK
<1>1. Init => TypeOK
  <2> SUFFICES ASSUME Init PROVE TypeOK
    OBVIOUS
  <2>1. SessionOK /\ OneCall /\ InboxOK
    BY DEF Init, Manager!Init, SessionOK, OneCall, InboxOK
  <2>2. LoadsOK
    BY LiveUpdatesAssumption DEF Init, Service!Init, Service!Nothing, Service!Resting, LoadsOK
  <2> QED BY <2>1, <2>2, Parts
<1>2. TypeOK /\ [Next]_vars => TypeOK'
  BY TypeInductive
<1> QED BY <1>1, <1>2, PTL DEF Spec
-----------------------------------------------------------------------------
\* The servers are of one kind for good, and the cache is used only where no
\* node has to answer.
ServersOK ==
    /\ style \in {"id", "digest", "legacy"}
    /\ view.from_cache => reliable = {}

\* Only a load that may restore from the cache sets from_cache.
LEMMA ServersInductive ==
    ASSUME ServersOK, [Next]_vars
    PROVE  ServersOK'
<1> USE DEF ServersOK, connection, service, readers
<1>1. style' = style
  BY DEF Next, Connect, Disconnect, Load, AbandonLoad, Retry, Attempt, Established,
     NotEstablished, CloseSession, LoadStep, ReaderStep, TakeIgnored, TakeLoad,
     TakeOffline, Take, ReaderStops, Send, Publish, vars
<1>2. \/ UNCHANGED <<reliable, view>>
      \/ \E l \in Loads : Service!Pull(l) \/ Service!Restore(l)
  BY DEF Next, Connect, Disconnect, Load, AbandonLoad, Retry, Attempt, Established,
     NotEstablished, CloseSession, LoadStep, ReaderStep, TakeIgnored, TakeLoad,
     TakeOffline, Take, ReaderStops, Send, Publish, vars,
     Service!Begin, Service!Rest, Service!Publish
<1>3. ASSUME NEW l \in Loads, Service!Pull(l) PROVE ServersOK'
  BY <1>1, <1>3 DEF Service!Pull
<1>4. ASSUME NEW l \in Loads, Service!Restore(l) PROVE ServersOK'
  BY <1>1, <1>4 DEF Service!Restore
<1> QED BY <1>1, <1>2, <1>3, <1>4

\* Two versions that are told apart by their ids or digests.
LEMMA TagsDiffer ==
    /\ \A v, w : Id(v) = Id(w) <=> v = w
    /\ \A v, w : Id(v) # DigestOf(w)
    /\ \A v, w : DigestOf(v) = DigestOf(w) <=> Digest[v] = Digest[w]
BY DEF Id, DigestOf

\* For any versions and digests classify_inbound asks for a load when the servers
\* tell of another configuration, and for no other one.
THEOREM NewsAreJudged == Spec => []NewsIsJudged
<1>1. Init => ServersOK
  <2> SUFFICES ASSUME Init PROVE ServersOK
    OBVIOUS
  <2>1. style \in {"id", "digest", "legacy"}
    BY LiveUpdatesAssumption DEF Init
  <2>2. ~view.from_cache
    BY DEF Init, Service!Init, Service!Nothing
  <2> QED BY <2>1, <2>2 DEF ServersOK
<1>2. ServersOK /\ [Next]_vars => ServersOK'
  BY ServersInductive
<1>3. ServersOK /\ TypeOK => NewsIsJudged
  <2> SUFFICES ASSUME ServersOK, TypeOK PROVE NewsIsJudged
    OBVIOUS
  <2>1. published # 0
    BY LiveUpdatesAssumption DEF TypeOK
  <2>2. CASE style = "id"
    <3>1. /\ News.form = "object" /\ News.module = "c" /\ News.action = "ping"
          /\ News.data = Id(published)
      BY <2>2 DEF News, Object
    <3>2. Outdated(News) <=> Id(published) # LocalVersion
      BY <3>1 DEF Outdated, ForConfigCenter
    <3>3. Id(published) = LocalVersion <=> view.version = published /\ ~view.from_cache
      BY <2>1, <2>2, TagsDiffer, Zenon DEF LocalVersion
    <3> QED BY <2>2, <3>2, <3>3 DEF NewsIsJudged, Current, ServersOK
  <2>3. CASE style = "digest"
    <3>1. /\ News.form = "object" /\ News.module = "" /\ News.action = "ping"
          /\ News.data = DigestOf(published)
      BY <2>3 DEF News, Object
    <3>2. Outdated(News) <=> DigestOf(published) # LocalVersion
      BY <3>1 DEF Outdated, ForConfigCenter
    <3>3. LocalVersion = DigestOf(view.version)
      BY <2>3 DEF LocalVersion
    <3> QED BY <2>3, <3>2, <3>3, TagsDiffer DEF NewsIsJudged, Current
  <2>4. CASE style = "legacy"
    <3>1. News.form = "V:" /\ News.data = DigestOf(published)
      BY <2>4 DEF News, LegacyVersion, Text
    <3>2. Outdated(News) <=> DigestOf(published) # DigestOf(view.version)
      BY <3>1 DEF Outdated, ForConfigCenter
    <3> QED BY <2>4, <3>2, TagsDiffer DEF NewsIsJudged, Current
  <2> QED BY <2>2, <2>3, <2>4 DEF ServersOK
<1> QED BY <1>1, <1>2, <1>3, TypeCorrect, PTL DEF Spec
=============================================================================
