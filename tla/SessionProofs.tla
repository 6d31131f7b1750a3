--------------------------- MODULE SessionProofs ---------------------------
(* The session's invariants for any number of tasks and connections.       *)
EXTENDS Session, TLAPS

USE SessionAssumption DEF Tasks, Dialers, Loops

\* The type invariant is inductive.
LEMMA TypeInductive ==
    ASSUME TypeOK, [Next]_vars
    PROVE  TypeOK'
<1> USE DEF TypeOK, Move, Places, Installing, rest, flags, tokens
<1>1. ASSUME NEW c \in Callers, CallStep(c) PROVE TypeOK'
  <2>1. CASE Connect(c)
    BY <2>1 DEF Connect
  <2>2. CASE Disconnect(c)
    BY <2>2 DEF Disconnect
  <2>3. CASE CallLoad(c)
    BY <2>3 DEF CallLoad
  <2>4. CASE AbandonCall(c)
    BY <2>4 DEF AbandonCall
  <2> QED BY <1>1, <2>1, <2>2, <2>3, <2>4 DEF CallStep
<1>2. CASE DropHandle
  BY <1>2 DEF DropHandle
<1>3. ASSUME NEW d \in Dialers, DialOk(d) \/ DialFail(d) \/ InstallStep(d)
      PROVE  TypeOK'
  BY <1>3 DEF DialOk, DialFail, InstallStep, SwapSession, EvictWriter,
              EvictDone, SetWriter, SpawnReader
<1>4. ASSUME NEW t \in Tasks,
             LoadStep(t) \/ SendText(t) \/ SendDone(t) \/ CloseStep(t)
      PROVE  TypeOK'
  BY <1>4 DEF LoadStep, LoadPulled, LoadFellBack, SendText, SendDone,
              CloseStep, CancelSession, CloseWriter, CloseDone
<1>5. ASSUME NEW s \in Sockets, ReaderStep(s) \/ PeerCloses(s) PROVE TypeOK'
  <2>1. CASE ReceiveOffline(s) \/ ReceiveReload(s)
    BY <2>1 DEF ReceiveOffline, ReceiveReload
  <2>2. CASE ReaderStops(s) \/ ReaderExit(s)
    BY <2>2 DEF ReaderStops, ReaderExit
  <2>3. CASE PeerCloses(s)
    BY <2>3 DEF PeerCloses
  <2> QED BY <1>5, <2>1, <2>2, <2>3 DEF ReaderStep
<1>6. CASE HeartbeatTick \/ ReconnectTick \/ ReconnectCheck
  BY <1>6 DEF HeartbeatTick, ReconnectTick, ReconnectCheck
<1>7. ASSUME NEW l \in Loops, LoopStops(l) PROVE TypeOK'
  BY <1>7 DEF LoopStops
<1>8. CASE UNCHANGED vars
  BY <1>8 DEF vars
<1> QED
  BY <1>1, <1>2, <1>3, <1>4, <1>5, <1>6, <1>7, <1>8 DEF Next, Terminated

-----------------------------------------------------------------------------
\* A dialer owns its socket alone, from the handshake to the spawn.
LEMMA SockOwnedInductive ==
    ASSUME TypeOK, SockOwned, LoopsWait, [Next]_vars
    PROVE  SockOwned'
<1> USE DEF TypeOK, SockOwned, Move, Installing, rest, flags, tokens
<1>1. ASSUME NEW c \in Callers, CallStep(c) PROVE SockOwned'
  <2>1. CASE Connect(c)
    BY <1>1, <2>1 DEF Connect, LoopsWait
  <2>2. CASE Disconnect(c) \/ CallLoad(c)
    BY <1>1, <2>2 DEF Disconnect, CallLoad
  <2>3. CASE AbandonCall(c)
    BY <1>1, <2>3 DEF AbandonCall
  <2> QED BY <1>1, <2>1, <2>2, <2>3 DEF CallStep
<1>2. CASE DropHandle
  BY <1>2 DEF DropHandle
<1>3. ASSUME NEW d \in Dialers, DialOk(d) \/ DialFail(d) \/ InstallStep(d)
      PROVE  SockOwned'
  <2>1. CASE DialOk(d)
    BY <1>3, <2>1 DEF DialOk, Free
  <2>2. CASE DialFail(d) \/ SwapSession(d) \/ EvictDone(d) \/ SetWriter(d)
    BY <1>3, <2>2 DEF DialFail, SwapSession, EvictDone, SetWriter
  <2>3. CASE EvictWriter(d)
    BY <1>3, <2>3 DEF EvictWriter
  <2>4. CASE SpawnReader(d)
    BY <1>3, <2>4 DEF SpawnReader
  <2> QED BY <1>3, <2>1, <2>2, <2>3, <2>4 DEF InstallStep
<1>4. ASSUME NEW t \in Tasks,
             LoadStep(t) \/ SendText(t) \/ SendDone(t) \/ CloseStep(t)
      PROVE  SockOwned'
  BY <1>4 DEF LoadStep, LoadPulled, LoadFellBack, SendText, SendDone,
              CloseStep, CancelSession, CloseWriter, CloseDone
<1>5. ASSUME NEW s \in Sockets, ReaderStep(s) \/ PeerCloses(s)
      PROVE  SockOwned'
  BY <1>5 DEF ReaderStep, ReceiveOffline, ReceiveReload, ReaderStops,
              ReaderExit, PeerCloses
<1>6. CASE HeartbeatTick \/ ReconnectTick \/ ReconnectCheck
  BY <1>6 DEF HeartbeatTick, ReconnectTick, ReconnectCheck
<1>7. ASSUME NEW l \in Loops, LoopStops(l) PROVE SockOwned'
  BY <1>7 DEF LoopStops
<1>8. CASE UNCHANGED vars
  BY <1>8 DEF vars
<1> QED
  BY <1>1, <1>2, <1>3, <1>4, <1>5, <1>6, <1>7, <1>8 DEF Next, Terminated

\* The loops do not run before connect() starts them.
LEMMA LoopsWaitInductive ==
    ASSUME TypeOK, SockOwned, LoopsWait, [Next]_vars
    PROVE  LoopsWait'
<1> USE DEF TypeOK, LoopsWait, Move, rest, flags, tokens
<1>1. ASSUME NEW c \in Callers, CallStep(c) PROVE LoopsWait'
  BY <1>1 DEF CallStep, Connect, Disconnect, CallLoad, AbandonCall
<1>2. CASE DropHandle
  BY <1>2 DEF DropHandle
<1>3. ASSUME NEW d \in Dialers, DialOk(d) \/ DialFail(d) \/ InstallStep(d)
      PROVE  LoopsWait'
  <2>1. CASE SpawnReader(d)
    BY <1>3, <2>1 DEF SpawnReader, SockOwned, Installing
  <2> QED BY <1>3, <2>1 DEF DialOk, DialFail, InstallStep, SwapSession,
             EvictWriter, EvictDone, SetWriter
<1>4. ASSUME NEW t \in Tasks,
             LoadStep(t) \/ SendText(t) \/ SendDone(t) \/ CloseStep(t)
      PROVE  LoopsWait'
  BY <1>4 DEF LoadStep, LoadPulled, LoadFellBack, SendText, SendDone,
              CloseStep, CancelSession, CloseWriter, CloseDone
<1>5. ASSUME NEW s \in Sockets, ReaderStep(s) \/ PeerCloses(s)
      PROVE  LoopsWait'
  BY <1>5 DEF ReaderStep, ReceiveOffline, ReceiveReload, ReaderStops,
              ReaderExit, PeerCloses
<1>6. CASE HeartbeatTick \/ ReconnectTick \/ ReconnectCheck
  BY <1>6 DEF HeartbeatTick, ReconnectTick, ReconnectCheck
<1>7. ASSUME NEW l \in Loops, LoopStops(l) PROVE LoopsWait'
  BY <1>7 DEF LoopStops
<1>8. CASE UNCHANGED vars
  BY <1>8 DEF vars
<1> QED
  BY <1>1, <1>2, <1>3, <1>4, <1>5, <1>6, <1>7, <1>8 DEF Next, Terminated

\* An issued token is the current one or has been cancelled.
LEMMA OthersCancelledInductive ==
    ASSUME TypeOK, SockOwned, LoopsWait, OthersCancelled, [Next]_vars
    PROVE  OthersCancelled'
<1> USE DEF TypeOK, OthersCancelled, Issued, Installing, Move, rest, flags, tokens
<1>1. ASSUME NEW c \in Callers, CallStep(c) PROVE OthersCancelled'
  <2>1. CASE Connect(c)
    BY <1>1, <2>1 DEF Connect
  <2>2. CASE Disconnect(c) \/ CallLoad(c)
    BY <1>1, <2>2 DEF Disconnect, CallLoad
  <2>3. CASE AbandonCall(c)
    BY <1>1, <2>3 DEF AbandonCall
  <2> QED BY <1>1, <2>1, <2>2, <2>3 DEF CallStep
<1>2. CASE DropHandle
  BY <1>2 DEF DropHandle
<1>3. ASSUME NEW d \in Dialers, DialOk(d) \/ DialFail(d) \/ InstallStep(d)
      PROVE  OthersCancelled'
  <2>1. CASE DialOk(d)
    BY <1>3, <2>1 DEF DialOk, Free
  <2>2. CASE DialFail(d)
    BY <1>3, <2>2 DEF DialFail
  <2>3. CASE SwapSession(d)
    BY <1>3, <2>3 DEF SwapSession, SockOwned
  <2>4. CASE EvictWriter(d) \/ EvictDone(d) \/ SetWriter(d)
    BY <1>3, <2>4 DEF EvictWriter, EvictDone, SetWriter
  <2>5. CASE SpawnReader(d)
    BY <1>3, <2>5 DEF SpawnReader, SockOwned
  <2> QED BY <1>3, <2>1, <2>2, <2>3, <2>4, <2>5 DEF InstallStep
<1>4. ASSUME NEW t \in Tasks,
             LoadStep(t) \/ SendText(t) \/ SendDone(t) \/ CloseStep(t)
      PROVE  OthersCancelled'
  BY <1>4 DEF LoadStep, LoadPulled, LoadFellBack, SendText, SendDone,
              CloseStep, CancelSession, CloseWriter, CloseDone
<1>5. ASSUME NEW s \in Sockets, ReaderStep(s) \/ PeerCloses(s)
      PROVE  OthersCancelled'
  BY <1>5 DEF ReaderStep, ReceiveOffline, ReceiveReload, ReaderStops,
              ReaderExit, PeerCloses
<1>6. CASE HeartbeatTick \/ ReconnectTick \/ ReconnectCheck
  BY <1>6 DEF HeartbeatTick, ReconnectTick, ReconnectCheck
<1>7. ASSUME NEW l \in Loops, LoopStops(l) PROVE OthersCancelled'
  BY <1>7 DEF LoopStops
<1>8. CASE UNCHANGED vars
  BY <1>8 DEF vars
<1> QED
  BY <1>1, <1>2, <1>3, <1>4, <1>5, <1>6, <1>7, <1>8 DEF Next, Terminated

\* The token of an accepted socket stays new until it is put in place.
LEMMA TokensNewInductive ==
    ASSUME TypeOK, SockOwned, TokensNew, [Next]_vars
    PROVE  TokensNew'
<1> USE DEF TypeOK, TokensNew, Move, rest, flags, tokens
<1>1. ASSUME NEW c \in Callers, CallStep(c) PROVE TokensNew'
  BY <1>1 DEF CallStep, Connect, Disconnect, CallLoad, AbandonCall
<1>2. CASE DropHandle
  BY <1>2 DEF DropHandle
<1>3. ASSUME NEW d \in Dialers, DialOk(d) \/ DialFail(d) \/ InstallStep(d)
      PROVE  TokensNew'
  <2>1. CASE DialOk(d)
    BY <1>3, <2>1 DEF DialOk, Free
  <2>2. CASE SwapSession(d)
    BY <1>3, <2>2 DEF SwapSession, SockOwned, Installing
  <2> QED BY <1>3, <2>1, <2>2 DEF DialFail, InstallStep, EvictWriter, EvictDone,
             SetWriter, SpawnReader
<1>4. ASSUME NEW t \in Tasks,
             LoadStep(t) \/ SendText(t) \/ SendDone(t) \/ CloseStep(t)
      PROVE  TokensNew'
  BY <1>4 DEF LoadStep, LoadPulled, LoadFellBack, SendText, SendDone,
              CloseStep, CancelSession, CloseWriter, CloseDone
<1>5. ASSUME NEW s \in Sockets, ReaderStep(s) \/ PeerCloses(s) PROVE TokensNew'
  BY <1>5 DEF ReaderStep, ReceiveOffline, ReceiveReload, ReaderStops,
              ReaderExit, PeerCloses
<1>6. CASE HeartbeatTick \/ ReconnectTick \/ ReconnectCheck
  BY <1>6 DEF HeartbeatTick, ReconnectTick, ReconnectCheck
<1>7. ASSUME NEW l \in Loops, LoopStops(l) PROVE TokensNew'
  BY <1>7 DEF LoopStops
<1>8. CASE UNCHANGED vars
  BY <1>8 DEF vars
<1> QED
  BY <1>1, <1>2, <1>3, <1>4, <1>5, <1>6, <1>7, <1>8 DEF Next, Terminated

\* Calls are over when the last handle goes away, and none begins after it.
LEMMA CallsBorrowInductive ==
    ASSUME TypeOK, CallsBorrow, [Next]_vars
    PROVE  CallsBorrow'
<1> USE DEF TypeOK, CallsBorrow, Move, rest, flags, tokens
<1>1. ASSUME NEW c \in Callers, CallStep(c) PROVE CallsBorrow'
  BY <1>1 DEF CallStep, Connect, Disconnect, CallLoad, AbandonCall, Awaiting
<1>2. CASE DropHandle
  BY <1>2 DEF DropHandle
<1>3. ASSUME NEW d \in Dialers, DialOk(d) \/ DialFail(d) \/ InstallStep(d)
      PROVE  CallsBorrow'
  <2>1. CASE SpawnReader(d)
    BY <1>3, <2>1 DEF SpawnReader
  <2> QED BY <1>3, <2>1 DEF DialOk, DialFail, InstallStep, SwapSession,
             EvictWriter, EvictDone, SetWriter
<1>4. ASSUME NEW t \in Tasks,
             LoadStep(t) \/ SendText(t) \/ SendDone(t) \/ CloseStep(t)
      PROVE  CallsBorrow'
  BY <1>4 DEF LoadStep, LoadPulled, LoadFellBack, SendText, SendDone,
              CloseStep, CancelSession, CloseWriter, CloseDone
<1>5. ASSUME NEW s \in Sockets, ReaderStep(s) \/ PeerCloses(s) PROVE CallsBorrow'
  BY <1>5 DEF ReaderStep, ReceiveOffline, ReceiveReload, ReaderStops,
              ReaderExit, PeerCloses
<1>6. CASE HeartbeatTick \/ ReconnectTick \/ ReconnectCheck
  BY <1>6 DEF HeartbeatTick, ReconnectTick, ReconnectCheck
<1>7. ASSUME NEW l \in Loops, LoopStops(l) PROVE CallsBorrow'
  BY <1>7 DEF LoopStops
<1>8. CASE UNCHANGED vars
  BY <1>8 DEF vars
<1> QED
  BY <1>1, <1>2, <1>3, <1>4, <1>5, <1>6, <1>7, <1>8 DEF Next, Terminated

-----------------------------------------------------------------------------
\* Once nothing holds Inner, a task can only end.
LEMMA DropStep ==
    ASSUME TypeOK, Dropped, [Next]_vars
    PROVE  Dropped'
<1> USE DEF TypeOK, Dropped, Strong, Move, Installing, rest, flags, tokens
<1>1. ASSUME NEW c \in Callers, CallStep(c) PROVE FALSE
  BY <1>1 DEF CallStep, Connect, Disconnect, CallLoad, AbandonCall, Awaiting
<1>2. CASE DropHandle
  BY <1>2 DEF DropHandle
<1>3. ASSUME NEW d \in Dialers, DialOk(d) \/ DialFail(d) \/ InstallStep(d)
      PROVE  FALSE
  BY <1>3 DEF DialOk, DialFail, InstallStep, SwapSession, EvictWriter,
              EvictDone, SetWriter, SpawnReader
<1>4. ASSUME NEW t \in Tasks,
             LoadStep(t) \/ SendText(t) \/ SendDone(t) \/ CloseStep(t)
      PROVE  FALSE
  BY <1>4 DEF LoadStep, LoadPulled, LoadFellBack, SendText, SendDone,
              CloseStep, CancelSession, CloseWriter, CloseDone
<1>5. ASSUME NEW s \in Sockets, ReaderStep(s) \/ PeerCloses(s) PROVE Dropped'
  BY <1>5 DEF ReaderStep, ReceiveOffline, ReceiveReload, ReaderStops,
              ReaderExit, PeerCloses
<1>6. CASE HeartbeatTick \/ ReconnectTick \/ ReconnectCheck
  BY <1>6 DEF HeartbeatTick, ReconnectTick, ReconnectCheck
<1>7. ASSUME NEW l \in Loops, LoopStops(l) PROVE Dropped'
  BY <1>7 DEF LoopStops
<1>8. CASE UNCHANGED vars
  BY <1>8 DEF vars
<1> QED
  BY <1>1, <1>2, <1>3, <1>4, <1>5, <1>6, <1>7, <1>8 DEF Next, Terminated

\* The sink in Inner::writer has a reader as long as Inner lives.
LEMMA WriterHasReaderInductive ==
    ASSUME TypeOK, SockOwned, LoopsWait, WriterHasReader, [Next]_vars
    PROVE  WriterHasReader'
<1> SUFFICES ASSUME Strong', NEW w \in Sockets, writer' = w
             PROVE  \/ pc'[w] # "off"
                    \/ \E d \in Dialers : sock'[d] = w /\ pc'[d] = "spawn"
  BY DEF WriterHasReader
<1>0. Strong
  BY DropStep DEF Dropped
<1> DEFINE Kept == \/ pc[w] # "off"
                   \/ \E d \in Dialers : sock[d] = w /\ pc[d] = "spawn"
<1>k. writer = w => Kept
  BY <1>0 DEF WriterHasReader
<1> USE DEF TypeOK, Move, Installing, rest, flags, tokens
<1>1. ASSUME NEW c \in Callers, CallStep(c)
      PROVE  \/ pc'[w] # "off"
             \/ \E d \in Dialers : sock'[d] = w /\ pc'[d] = "spawn"
  <2>1. CASE Connect(c)
    BY <1>k, <1>1, <2>1 DEF Connect, LoopsWait
  <2>2. CASE Disconnect(c) \/ CallLoad(c)
    BY <1>k, <1>1, <2>2 DEF Disconnect, CallLoad
  <2>3. CASE AbandonCall(c)
    BY <1>k, <1>1, <2>3 DEF AbandonCall, Awaiting
  <2> QED BY <1>1, <2>1, <2>2, <2>3 DEF CallStep
<1>2. CASE DropHandle
  BY <1>k, <1>2 DEF DropHandle
<1>3. ASSUME NEW d \in Dialers, DialOk(d) \/ DialFail(d) \/ InstallStep(d)
      PROVE  \/ pc'[w] # "off"
             \/ \E e \in Dialers : sock'[e] = w /\ pc'[e] = "spawn"
  <2>1. CASE DialOk(d)
    BY <1>k, <1>3, <2>1 DEF DialOk
  <2>2. CASE DialFail(d) \/ SwapSession(d) \/ EvictWriter(d) \/ EvictDone(d)
    BY <1>k, <1>3, <2>2 DEF DialFail, SwapSession, EvictWriter, EvictDone
  <2>3. CASE SetWriter(d)
    BY <1>3, <2>3 DEF SetWriter
  <2>4. CASE SpawnReader(d)
    BY <1>k, <1>3, <2>4 DEF SpawnReader, SockOwned
  <2> QED BY <1>3, <2>1, <2>2, <2>3, <2>4 DEF InstallStep
<1>4. ASSUME NEW t \in Tasks,
             LoadStep(t) \/ SendText(t) \/ SendDone(t) \/ CloseStep(t)
      PROVE  \/ pc'[w] # "off"
             \/ \E d \in Dialers : sock'[d] = w /\ pc'[d] = "spawn"
  BY <1>k, <1>4 DEF LoadStep, LoadPulled, LoadFellBack, SendText, SendDone,
                    CloseStep, CancelSession, CloseWriter, CloseDone
<1>5. ASSUME NEW s \in Sockets, ReaderStep(s) \/ PeerCloses(s)
      PROVE  \/ pc'[w] # "off"
             \/ \E d \in Dialers : sock'[d] = w /\ pc'[d] = "spawn"
  BY <1>0, <1>k, <1>5 DEF ReaderStep, ReceiveOffline, ReceiveReload,
                          ReaderStops, ReaderExit, PeerCloses
<1>6. CASE HeartbeatTick \/ ReconnectTick \/ ReconnectCheck
  BY <1>k, <1>6 DEF HeartbeatTick, ReconnectTick, ReconnectCheck
<1>7. ASSUME NEW l \in Loops, LoopStops(l) PROVE FALSE
  BY <1>0, <1>7 DEF LoopStops, Dropped
<1>8. CASE UNCHANGED vars
  BY <1>k, <1>8 DEF vars
<1> QED
  BY <1>1, <1>2, <1>3, <1>4, <1>5, <1>6, <1>7, <1>8 DEF Next, Terminated

-----------------------------------------------------------------------------
\* The inductive invariant holds in every reachable state: types, who owns a
\* socket, which tokens are cancelled and what the writer holds.
THEOREM Invariant == Spec => []IInv
<1>1. Init => IInv
  BY DEF Init, IInv, TypeOK, SockOwned, LoopsWait, OthersCancelled, Issued,
         WriterHasReader, TokensNew, CallsBorrow, Places, Installing
<1>2. IInv /\ [Next]_vars => IInv'
  BY TypeInductive, SockOwnedInductive, LoopsWaitInductive,
     OthersCancelledInductive, WriterHasReaderInductive, TokensNewInductive,
     CallsBorrowInductive DEF IInv
<1> QED BY <1>1, <1>2, PTL DEF Spec

\* Every variable keeps its type (the fields of Inner and the tasks' places).
THEOREM TypeCorrect == Spec => []TypeOK
<1>1. IInv => TypeOK
  BY DEF IInv
<1> QED BY <1>1, Invariant, PTL

\* install_socket never leaves two live sessions behind, however many calls and
\* reconnects install at once.
THEOREM OneLiveSession == Spec => []AtMostOneLiveSession
<1>1. IInv => AtMostOneLiveSession
  BY DEF IInv, OthersCancelled, AtMostOneLiveSession, Live, Cancelled
<1> QED BY <1>1, Invariant, PTL

\* A sink is never stored in Inner::writer without a reader that clears it.
THEOREM WriterIsWatched == Spec => []WriterHasReader
<1>1. IInv => WriterHasReader
  BY DEF IInv
<1> QED BY <1>1, Invariant, PTL

\* Offline with nothing in flight, only connect() can change that.
LEMMA OfflineStep ==
    ASSUME TypeOK, Offline, [Next]_vars
    PROVE  Offline' \/ reconnect_enabled'
<1> SUFFICES ASSUME ~reconnect_enabled' PROVE Offline'
  OBVIOUS
<1> USE DEF TypeOK, Offline, Move, Installing, rest, flags, tokens
<1>d. Dropped => Dropped'
  BY DropStep
<1>1. ASSUME NEW c \in Callers, CallStep(c) PROVE Offline'
  <2>1. CASE Disconnect(c) \/ CallLoad(c)
    BY <1>d, <1>1, <2>1 DEF Disconnect, CallLoad, Live, Issued, Cancelled
  <2>2. CASE AbandonCall(c)
    BY <1>d, <1>1, <2>2 DEF AbandonCall, Live, Issued, Cancelled
  <2> QED BY <1>1, <2>1, <2>2 DEF CallStep, Connect
<1>2. CASE DropHandle
  BY <1>d, <1>2 DEF DropHandle, Live, Issued, Cancelled
<1>3. ASSUME NEW d \in Dialers, DialOk(d) \/ DialFail(d) \/ InstallStep(d)
      PROVE  FALSE
  BY <1>3 DEF DialOk, DialFail, InstallStep, SwapSession, EvictWriter,
              EvictDone, SetWriter, SpawnReader
<1>4. ASSUME NEW t \in Tasks,
             LoadStep(t) \/ SendText(t) \/ SendDone(t) \/ CloseStep(t)
      PROVE  Offline'
  <2>1. CASE CancelSession(t)
    BY <1>d, <1>4, <2>1 DEF CancelSession, Live, Issued, Cancelled
  <2> QED BY <1>d, <1>4, <2>1 DEF LoadStep, LoadPulled, LoadFellBack, SendText,
             SendDone, CloseStep, CloseWriter, CloseDone, Live, Issued, Cancelled
<1>5. ASSUME NEW s \in Sockets, ReaderStep(s) \/ PeerCloses(s) PROVE Offline'
  BY <1>d, <1>5 DEF ReaderStep, ReceiveOffline, ReceiveReload, ReaderStops,
              ReaderExit, PeerCloses, Live, Issued, Cancelled
<1>6. CASE HeartbeatTick \/ ReconnectTick \/ ReconnectCheck
  BY <1>d, <1>6 DEF HeartbeatTick, ReconnectTick, ReconnectCheck, Live, Issued,
              Cancelled
<1>7. ASSUME NEW l \in Loops, LoopStops(l) PROVE Offline'
  BY <1>d, <1>7 DEF LoopStops, Live, Issued, Cancelled
<1>8. CASE UNCHANGED vars
  BY <1>d, <1>8 DEF vars, Live, Issued, Cancelled
<1> QED
  BY <1>1, <1>2, <1>3, <1>4, <1>5, <1>6, <1>7, <1>8 DEF Next, Terminated

\* An offline client is brought back by connect() alone: no tick, heartbeat,
\* load or late reader makes a session live.
THEOREM OfflineStays == Spec => StaysOffline
<1>1. TypeOK /\ [Next]_vars => [Offline => Offline' \/ reconnect_enabled']_vars
  BY OfflineStep
<1> QED BY <1>1, TypeCorrect, PTL DEF Spec, StaysOffline

-----------------------------------------------------------------------------
(* The session implements Connection.  A step of the session either ends    *)
(* the client (DropMaps), happens after that (AfterDrop) or is one of the   *)
(* other steps of Connection (StepMaps).                                    *)

\* The step after which nothing holds Inner: no caller is in an attempt.
LEMMA DropMaps ==
    ASSUME IInv, [Next]_vars, Strong, ~Strong'
    PROVE  Manager!Drop
<1> USE DEF IInv, TypeOK
<1>1. Attempting' = {} /\ Listening' = {}
  BY DEF Strong, Attempting, Listening, Live, Cancelled, Dropped
<1>2. \A c \in Callers : pc[c] = "idle"
  <2> SUFFICES ASSUME handle PROVE DropHandle
    BY DEF CallsBorrow, DropHandle
  <2>1. ~handle'
    BY DEF Strong
  <2> QED
    BY <2>1 DEF Next, CallStep, Connect, Disconnect, CallLoad, AbandonCall, DialOk,
       DialFail, InstallStep, SwapSession, EvictWriter, EvictDone, SetWriter,
       SpawnReader, LoadStep, LoadPulled, LoadFellBack, SendText, SendDone,
       CloseStep, CancelSession, CloseWriter, CloseDone, ReaderStep,
       ReceiveOffline, ReceiveReload, ReaderStops, ReaderExit, PeerCloses,
       HeartbeatTick, ReconnectTick, ReconnectCheck, LoopStops, Terminated,
       vars, rest, flags, tokens
<1>3. Attempting \subseteq {Reconnector}
  BY <1>2 DEF Attempting
<1>4. UNCHANGED reconnect_enabled
  <2>1. ASSUME NEW c \in Callers, CallStep(c) PROVE UNCHANGED reconnect_enabled
    BY <2>1 DEF CallStep, Connect, Disconnect, CallLoad, AbandonCall, Move, Strong,
       rest, flags, tokens
  <2>2. ASSUME NEW s \in Sockets, ReceiveOffline(s) PROVE FALSE
    BY <2>2 DEF ReceiveOffline, Move, Strong
  <2> QED
    BY <2>1, <2>2 DEF Next, DropHandle, DialOk,
       DialFail, InstallStep, SwapSession, EvictWriter, EvictDone, SetWriter,
       SpawnReader, LoadStep, LoadPulled, LoadFellBack, SendText, SendDone,
       CloseStep, CancelSession, CloseWriter, CloseDone, ReaderStep,
       ReceiveReload, ReaderStops, ReaderExit, PeerCloses,
       HeartbeatTick, ReconnectTick, ReconnectCheck, LoopStops, Terminated,
       vars, rest, flags, tokens
<1> QED BY <1>1, <1>3, <1>4 DEF Manager!Drop

\* After that nothing changes for the user.
LEMMA AfterDrop ==
    ASSUME IInv, [Next]_vars, ~Strong
    PROVE  UNCHANGED <<reconnect_enabled, Attempting, Listening, Strong>>
<1> USE DEF IInv, TypeOK
<1>1. ~Strong'
  BY DropStep DEF Dropped
<1>2. Attempting = {} /\ Listening = {} /\ Attempting' = {} /\ Listening' = {}
  BY <1>1 DEF Strong, Attempting, Listening, Live, Cancelled, Dropped
<1>3. UNCHANGED reconnect_enabled
  BY DEF Strong, Next, CallStep, Connect, Disconnect, CallLoad, AbandonCall,
     DropHandle, DialOk, DialFail, InstallStep, SwapSession, EvictWriter,
     EvictDone, SetWriter, SpawnReader, LoadStep, LoadPulled, LoadFellBack,
     SendText, SendDone, CloseStep, CancelSession, CloseWriter, CloseDone,
     ReaderStep, ReceiveOffline, ReceiveReload, ReaderStops, ReaderExit,
     PeerCloses, HeartbeatTick, ReconnectTick, ReconnectCheck, LoopStops,
     Terminated, vars, rest, flags, tokens
<1>4. Strong = FALSE /\ Strong' = FALSE
  BY <1>1, Zenon DEF Strong
<1> QED BY <1>2, <1>3, <1>4

\* Losing one session is losing the only one.
LEMMA LoseMaps ==
    ASSUME IInv, Strong, Strong', NEW gone \in Sockets \cup {NoSocket},
           Listening' = Listening \ {gone},
           UNCHANGED <<reconnect_enabled, Attempting>>
    PROVE  Manager!Lose \/ UNCHANGED <<reconnect_enabled, Attempting, Listening, Strong>>
<1>1. \A s, r \in Listening : s = r
  BY DEF Listening, IInv, OthersCancelled, Live, Cancelled
<1> QED BY <1>1 DEF Manager!Lose

\* A step of a client that lives and lives on.
LEMMA StepMaps ==
    ASSUME IInv, [Next]_vars, Strong, Strong'
    PROVE  Manager!Next \/ UNCHANGED <<reconnect_enabled, Attempting, Listening, Strong>>
<1> DEFINE Same == UNCHANGED <<reconnect_enabled, Attempting, Listening, Strong>>
<1>a. UNCHANGED Strong
  OBVIOUS
<1>b. /\ Listening = {s \in Sockets : Issued(s) /\ s \notin cancelled}
      /\ Listening' = {s \in Sockets : Issued(s)' /\ s \notin cancelled'}
  BY DEF Listening, Live, Cancelled, Dropped
<1> USE DEF IInv, TypeOK, Move, Attempting, Issued, Installing, rest, flags, tokens
<1>1. ASSUME NEW c \in Callers, CallStep(c) PROVE Manager!Next \/ Same
  <2>1. CASE Connect(c)
    <3>c. pc[c] = "idle" /\ pc'[c] = "dial"
      BY <2>1 DEF Connect, Tasks
    <3>0. ASSUME NEW d \in Dialers
          PROVE  \/ d = c /\ pc[d] = "idle" /\ pc'[d] = "dial"
                 \/ pc[d] = "off" /\ pc'[d] = "idle"
                 \/ d # c /\ pc'[d] = pc[d]
      <4>1. CASE d # c /\ d \in Loops /\ ~loops_started
        BY <2>1, <4>1 DEF Connect, Tasks, LoopsWait
      <4>3. CASE d # c /\ ~(d \in Loops /\ ~loops_started)
        BY <2>1, <4>3 DEF Connect, Tasks, Dialers, Loops
      <4> QED BY <3>c, <4>1, <4>3
    <3>1. Attempting' = Attempting \cup {c}
      <4>1. ASSUME NEW d \in Dialers
            PROVE  pc'[d] \in {"check", "dial", "swap"}
                     <=> d = c \/ pc[d] \in {"check", "dial", "swap"}
        BY <3>0, <3>c
      <4> QED BY <4>1 DEF Dialers
    <3>s. ASSUME NEW s \in Sockets PROVE pc'[s] = pc[s]
      BY <2>1, SessionAssumption DEF Connect, Tasks
    <3>2. Listening' = Listening
      <4>1. ASSUME NEW d \in Dialers
            PROVE  pc'[d] \in Installing \ {"swap"} <=> pc[d] \in Installing \ {"swap"}
        BY <2>1, <3>0, <3>c DEF Connect
      <4>2. sock' = sock /\ cancelled' = cancelled
        BY <2>1 DEF Connect
      <4>3. ASSUME NEW s \in Sockets PROVE Issued(s)' <=> Issued(s)
        BY <3>s, <4>1, <4>2
      <4> QED BY <1>b, <4>2, <4>3
    <3>3. Manager!Enable(c)
      BY <1>a, <2>1, <3>1, <3>2 DEF Connect, Manager!Enable
    <3> QED BY <3>3 DEF Manager!Next
  <2>2. CASE Disconnect(c)
    <3>1. Manager!Disable
      BY <1>b, <2>2 DEF Disconnect, Manager!Disable
    <3> QED BY <3>1 DEF Manager!Next
  <2>3. CASE CallLoad(c)
    BY <1>a, <1>b, <2>3 DEF CallLoad
  <2>4. CASE AbandonCall(c) /\ pc[c] = "dial"
    <3>1. sock[c] = NoSocket
      BY <2>4 DEF SockOwned
    <3>2. Manager!GiveUp(c)
      BY <1>b, <2>4, <3>1 DEF AbandonCall, Manager!GiveUp
    <3> QED BY <3>2 DEF Manager!Next, Manager!Dialers
  <2>5. CASE AbandonCall(c) /\ pc[c] # "dial"
    <3>1. UNCHANGED <<reconnect_enabled, Attempting>>
      BY <2>5 DEF AbandonCall, Awaiting
    <3>2. Listening' = Listening \ {sock[c]}
      BY <1>b, <2>5 DEF AbandonCall, Awaiting, SockOwned
    <3> QED BY <3>1, <3>2, LoseMaps DEF Manager!Next
  <2> QED BY <1>1, <2>1, <2>2, <2>3, <2>4, <2>5 DEF CallStep
<1>2. CASE DropHandle
  BY <1>a, <1>b, <1>2 DEF DropHandle
<1>3. ASSUME NEW d \in Dialers, DialOk(d) \/ DialFail(d) \/ InstallStep(d)
      PROVE  Manager!Next \/ Same
  <2>1. CASE DialOk(d)
    BY <1>a, <1>b, <2>1 DEF DialOk, Free
  <2>2. CASE DialFail(d)
    <3>1. Manager!GiveUp(d)
      BY <1>b, <2>2 DEF DialFail, Manager!GiveUp
    <3> QED BY <3>1 DEF Manager!Next, Manager!Dialers
  <2>3. CASE SwapSession(d)
    <3>1. PICK s \in Sockets : s = sock[d]
      BY <2>3 DEF SwapSession, SockOwned
    <3>2. Listening' = {s}
      BY <1>b, <2>3, <3>1 DEF SwapSession, OthersCancelled, TokensNew, SockOwned
    <3>3. Manager!Establish(d, s)
      BY <1>a, <2>3, <3>2 DEF SwapSession, Manager!Establish
    <3> QED BY <3>1, <3>3 DEF Manager!Next, Manager!Dialers
  <2>4. CASE EvictWriter(d) \/ EvictDone(d) \/ SetWriter(d)
    BY <1>a, <1>b, <2>4 DEF EvictWriter, EvictDone, SetWriter
  <2>5. CASE SpawnReader(d)
    BY <1>a, <1>b, <2>5 DEF SpawnReader, SockOwned
  <2> QED BY <1>3, <2>1, <2>2, <2>3, <2>4, <2>5 DEF InstallStep
<1>4. ASSUME NEW t \in Tasks,
             LoadStep(t) \/ SendText(t) \/ SendDone(t) \/ CloseStep(t)
      PROVE  Manager!Next \/ Same
  <2>1. CASE CancelSession(t)
    <3>1. Listening' = Listening \ {session}
      BY <1>b, <2>1 DEF CancelSession
    <3>2. UNCHANGED <<reconnect_enabled, Attempting>>
      BY <2>1 DEF CancelSession
    <3> QED BY <3>1, <3>2, LoseMaps DEF Manager!Next
  <2> QED BY <1>a, <1>b, <1>4, <2>1 DEF LoadStep, LoadPulled, LoadFellBack,
             SendText, SendDone, CloseStep, CloseWriter, CloseDone
<1>5. ASSUME NEW s \in Sockets, ReaderStep(s) \/ PeerCloses(s)
      PROVE  Manager!Next \/ Same
  <2>1. CASE ReceiveOffline(s)
    <3>1. Manager!Disable
      BY <1>b, <2>1 DEF ReceiveOffline, Manager!Disable
    <3> QED BY <3>1 DEF Manager!Next
  <2>2. CASE ReaderExit(s)
    <3>1. Listening' = Listening \ {s}
      BY <1>b, <2>2 DEF ReaderExit, SockOwned
    <3>2. UNCHANGED <<reconnect_enabled, Attempting>>
      BY <2>2 DEF ReaderExit
    <3> QED BY <3>1, <3>2, LoseMaps DEF Manager!Next
  <2>3. CASE ReceiveReload(s) \/ ReaderStops(s) \/ PeerCloses(s)
    BY <1>a, <1>b, <2>3 DEF ReceiveReload, ReaderStops, PeerCloses
  <2> QED BY <1>5, <2>1, <2>2, <2>3 DEF ReaderStep
<1>6. CASE HeartbeatTick
  BY <1>a, <1>b, <1>6 DEF HeartbeatTick
<1>7. CASE ReconnectTick
  <2>1. Manager!Retry
    BY <1>b, <1>7 DEF ReconnectTick, Manager!Retry
  <2> QED BY <2>1 DEF Manager!Next
<1>8. CASE ReconnectCheck
  <2>1. CASE writer = NoSocket
    BY <1>a, <1>b, <1>8, <2>1 DEF ReconnectCheck
  <2>2. CASE writer # NoSocket
    <3>1. Manager!GiveUp(Reconnector)
      BY <1>b, <1>8, <2>2 DEF ReconnectCheck, Manager!GiveUp
    <3> QED BY <3>1 DEF Manager!Next, Manager!Dialers
  <2> QED BY <2>1, <2>2
<1>9. ASSUME NEW l \in Loops, LoopStops(l) PROVE FALSE
  BY <1>9 DEF LoopStops, Dropped
<1>10. CASE UNCHANGED vars
  BY <1>a, <1>b, <1>10 DEF vars
<1> QED
  BY <1>1, <1>2, <1>3, <1>4, <1>5, <1>6, <1>7, <1>8, <1>9, <1>10
     DEF Next, Terminated

\* However calls, loops and readers interleave, the session is a connection
\* manager that works in atomic steps (connect, disconnect, install_socket and
\* the tasks of websocket.rs against Connection).
THEOREM SessionImplementsConnection == Spec => ImplementsConnection
<1>1. Init => Manager!Init
  BY DEF Init, Manager!Init, Attempting, Listening, Live, Issued, Strong, Installing
<1>2. IInv /\ [Next]_vars => [Manager!Next]_(Manager!cvars)
  BY DropMaps, AfterDrop, StepMaps DEF Manager!Next, Manager!cvars
<1> QED BY <1>1, <1>2, Invariant, PTL DEF Spec, ImplementsConnection, Manager!Spec
-----------------------------------------------------------------------------
\* A connection that opens belongs to its dialer, then to its reader, and is
\* closed with either.
LEMMA ServedInductive ==
    ASSUME IInv, Served, [Next]_vars
    PROVE  Served'
<1> USE DEF IInv, TypeOK, SockOwned, Served, ConnectionsServed, ReadersEnd, Move,
            Installing, rest, flags, tokens
<1>1. ASSUME NEW c \in Callers, CallStep(c) PROVE Served'
  <2>1. CASE Connect(c)
    BY <1>1, <2>1 DEF Connect
  <2>2. CASE Disconnect(c) \/ CallLoad(c)
    BY <1>1, <2>2 DEF Disconnect, CallLoad
  <2>3. CASE AbandonCall(c)
    BY <1>1, <2>3 DEF AbandonCall, Awaiting
  <2> QED BY <1>1, <2>1, <2>2, <2>3 DEF CallStep
<1>2. CASE DropHandle
  BY <1>2 DEF DropHandle
<1>3. ASSUME NEW d \in Dialers, DialOk(d) \/ DialFail(d) \/ InstallStep(d)
      PROVE  Served'
  <2>1. CASE DialOk(d)
    BY <1>3, <2>1 DEF DialOk, Free
  <2>2. CASE DialFail(d) \/ SwapSession(d) \/ EvictWriter(d) \/ EvictDone(d)
    BY <1>3, <2>2 DEF DialFail, SwapSession, EvictWriter, EvictDone
  <2>3. CASE SetWriter(d)
    BY <1>3, <2>3 DEF SetWriter
  <2>4. CASE SpawnReader(d)
    BY <1>3, <2>4 DEF SpawnReader
  <2> QED BY <1>3, <2>1, <2>2, <2>3, <2>4 DEF InstallStep
<1>4. ASSUME NEW t \in Tasks,
             LoadStep(t) \/ SendText(t) \/ SendDone(t) \/ CloseStep(t)
      PROVE  Served'
  BY <1>4 DEF LoadStep, LoadPulled, LoadFellBack, SendText, SendDone,
              CloseStep, CancelSession, CloseWriter, CloseDone
<1>5. ASSUME NEW s \in Sockets, ReaderStep(s) \/ PeerCloses(s) PROVE Served'
  BY <1>5 DEF ReaderStep, ReceiveOffline, ReceiveReload, ReaderStops,
              ReaderExit, PeerCloses
<1>6. CASE HeartbeatTick \/ ReconnectTick \/ ReconnectCheck
  BY <1>6 DEF HeartbeatTick, ReconnectTick, ReconnectCheck
<1>7. ASSUME NEW l \in Loops, LoopStops(l) PROVE Served'
  BY <1>7 DEF LoopStops
<1>8. CASE UNCHANGED vars
  BY <1>8 DEF vars
<1> QED
  BY <1>1, <1>2, <1>3, <1>4, <1>5, <1>6, <1>7, <1>8 DEF Next, Terminated

\* Of any number of connections none is left open without a task that closes it.
THEOREM ConnectionsAreServed == Spec => []ConnectionsServed
<1>1. Init => Served
  BY DEF Init, Served, ConnectionsServed, ReadersEnd
<1>2. IInv /\ Served /\ [Next]_vars => Served'
  BY ServedInductive
<1>3. Served => ConnectionsServed
  BY DEF Served
<1> QED BY <1>1, <1>2, <1>3, Invariant, PTL DEF Spec

\* Taking the writer lock and entering a close or a send are one step, and so are
\* leaving it and releasing the lock.
LEMMA LockInductive ==
    ASSUME IInv, LockAtWork, [Next]_vars
    PROVE  LockAtWork'
<1> USE DEF IInv, TypeOK, LockAtWork, LockFree, Move, rest, flags, tokens
<1>1. ASSUME NEW c \in Callers, CallStep(c) PROVE LockAtWork'
  <2>1. CASE Connect(c)
    BY <1>1, <2>1 DEF Connect, LoopsWait
  <2>2. CASE Disconnect(c) \/ CallLoad(c)
    BY <1>1, <2>2 DEF Disconnect, CallLoad
  <2>3. CASE AbandonCall(c)
    BY <1>1, <2>3 DEF AbandonCall
  <2> QED BY <1>1, <2>1, <2>2, <2>3 DEF CallStep
<1>2. CASE DropHandle
  BY <1>2 DEF DropHandle
<1>3. ASSUME NEW d \in Dialers, DialOk(d) \/ DialFail(d) \/ InstallStep(d)
      PROVE  LockAtWork'
  <2>1. CASE DialOk(d) \/ DialFail(d) \/ SwapSession(d) \/ SetWriter(d)
    BY <1>3, <2>1 DEF DialOk, DialFail, SwapSession, SetWriter
  <2>2. CASE EvictWriter(d) \/ EvictDone(d)
    BY <1>3, <2>2 DEF EvictWriter, EvictDone
  <2>3. CASE SpawnReader(d)
    BY <1>3, <2>3 DEF SpawnReader, SockOwned, Installing
  <2> QED BY <1>3, <2>1, <2>2, <2>3 DEF InstallStep
<1>4. ASSUME NEW t \in Tasks,
             LoadStep(t) \/ SendText(t) \/ SendDone(t) \/ CloseStep(t)
      PROVE  LockAtWork'
  BY <1>4 DEF LoadStep, LoadPulled, LoadFellBack, SendText, SendDone,
              CloseStep, CancelSession, CloseWriter, CloseDone
<1>5. ASSUME NEW s \in Sockets, ReaderStep(s) \/ PeerCloses(s) PROVE LockAtWork'
  BY <1>5 DEF ReaderStep, ReceiveOffline, ReceiveReload, ReaderStops,
              ReaderExit, PeerCloses
<1>6. CASE HeartbeatTick \/ ReconnectTick \/ ReconnectCheck
  BY <1>6 DEF HeartbeatTick, ReconnectTick, ReconnectCheck
<1>7. ASSUME NEW l \in Loops, LoopStops(l) PROVE LockAtWork'
  BY <1>7 DEF LoopStops
<1>8. CASE UNCHANGED vars
  BY <1>8 DEF vars
<1> QED
  BY <1>1, <1>2, <1>3, <1>4, <1>5, <1>6, <1>7, <1>8 DEF Next, Terminated

\* However many tasks use the writer, its lock is held by the one at the sink and
\* by nobody else: what every wait for it rests on.
THEOREM LockIsAtWork == Spec => []LockAtWork
<1>1. Init => LockAtWork
  BY DEF Init, LockAtWork
<1>2. IInv /\ LockAtWork /\ [Next]_vars => LockAtWork'
  BY LockInductive
<1> QED BY <1>1, <1>2, Invariant, PTL DEF Spec
=============================================================================
