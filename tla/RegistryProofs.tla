---------------------------- MODULE RegistryProofs ----------------------------
(***************************************************************************)
(* Proofs about the two classes that own a collection many threads share:  *)
(* the server its sessions, the pool its connections.                      *)
(*                                                                         *)
(* WsServer: stopping it, for any number of callers, clients and io        *)
(* threads, any application and any sequence of calls.                     *)
(* ConnectionPool: for any number of threads, connections, leases and      *)
(* max_connections, and whether or not connecting may fail.                *)
(***************************************************************************)
EXTENDS WsServer, ConnectionPool, SequenceTheorems, FiniteSetTheorems, TLAPS

Places == {"idle", "run", "start_io_threads", "started", "stop_accepting", "stop_active_sessions",
           "close_live", "start_wait_timer", "wait", "tested", "asleep", "woken",
           "cancel_wait_timer", "stop_io", "join_io_threads", "stopped"}

Stages == {"none", "accepted", "handshake", "opening", "open", "closing", "unregistered", "gone",
           "lost"}

Types ==
  /\ place \in [Callers -> Places]
  /\ session \in [Clients -> Stages]
  /\ timer \in [queued : Nat, stored : Nat, closed : Nat]
  /\ m_stopWait \in BOOLEAN /\ m_idleTimer \in BOOLEAN /\ ioStopped \in BOOLEAN
  /\ m_sessions \subseteq Clients
  /\ DOMAIN posted = Clients

\* The list holds only sessions that were registered and not yet unregistered.
Listed == \A c \in m_sessions : session[c] \in {"open", "closing", "lost"}

\* The thread that tests in stop() keeps the mutex until it sleeps: the list stays, and
\* a handler of the timer that has stored m_stopWait has not yet taken the mutex.
TestHolds ==
  \A t \in Callers : place[t] = "tested" =>
    m_sessionMtx = {t} /\ m_sessions # {} /\ (m_stopWait => timer.stored > 0)

Admitted(c) ==
  /\ handle_auth(cfg.app, cfg.request[c]).accept
  /\ handle_accept(cfg.app, cfg.request[c]).accept

\* A session past its handshake was admitted, and one with a handled message too.
OpenIsAdmitted ==
  /\ \A c \in Clients : session[c] \in {"opening", "open"} => Admitted(c)
  /\ \A c \in handled : Admitted(c)

NotBusy == InHandler = {} /\ timer.stored = 0 /\ timer.closed = 0

\* The threads are joined only when the io_context was stopped, and then no handler is
\* left to run, because no new one begins.
JoinedIsQuiet ==
  /\ \A t \in Callers : place[t] \in {"join_io_threads", "stopped"} => ioStopped
  /\ ~cfg.executor => \A t \in Callers : place[t] = "stopped" => NotBusy

\* Every session in the list was told, or a handler of the timer is about to tell.
Covered ==
  \/ timer.stored > 0
  \/ \A c \in Live : c \in late \/ "close_forcefully" \in posted[c] \/ c \in draining

AfterWait == {"cancel_wait_timer", "stop_io", "join_io_threads", "stopped"}

\* The wait of stop() ends with every session told, and so does a stop() that finds the
\* server stopped by another.
WaitCovers ==
  /\ m_stopWait => \A t \in Callers : place[t] \in InWait => Covered
  /\ ~cfg.executor =>
       /\ \A t \in Callers : place[t] \in AfterWait => Covered
       /\ m_serverState = "stopped" => ioStopped /\ NotBusy /\ Covered

Inv ==
  /\ Types /\ Listed /\ TestHolds /\ OpenIsAdmitted /\ JoinedIsQuiet /\ WaitCovers
  /\ NoLostStopWake
-----------------------------------------------------------------------------
\* The invariant holds at the start.
LEMMA InitInv == ServerInit => Inv
<1> SUFFICES ASSUME ServerInit PROVE Inv
  OBVIOUS
<1>1. Types
  BY Zenon DEF ServerInit, Types, Places, Stages
<1>2. Listed /\ OpenIsAdmitted
  BY DEF ServerInit, Listed, OpenIsAdmitted
<1>3. /\ m_serverState = "init" /\ m_stopWait = FALSE
      /\ \A t \in Callers : place[t] = "idle"
  BY DEF ServerInit
<1>4. TestHolds /\ JoinedIsQuiet /\ NoLostStopWake
  BY <1>3 DEF TestHolds, JoinedIsQuiet, NoLostStopWake
<1>5. WaitCovers
  BY <1>3 DEF WaitCovers, InWait, AfterWait
<1> QED BY <1>1, <1>2, <1>4, <1>5 DEF Inv

\* A cancelled wait of the timer adds a handler to the queued ones.
LEMMA QueuedTimer ==
  ASSUME Types, NEW b \in BOOLEAN
  PROVE  /\ Queued(b) \in [queued : Nat, stored : Nat, closed : Nat]
         /\ Queued(b).stored = timer.stored /\ Queued(b).closed = timer.closed
         /\ Queued(b).queued >= timer.queued
<1>1. timer \in [queued : Nat, stored : Nat, closed : Nat]
  BY DEF Types
<1>2. CASE b = TRUE
  <2>1. Queued(b) = [timer EXCEPT !.queued = timer.queued + 1]
    BY <1>2 DEF Queued
  <2> QED BY <1>1, <2>1
<1>3. CASE b = FALSE
  <2>1. Queued(b) = [timer EXCEPT !.queued = timer.queued]
    BY <1>3 DEF Queued
  <2> QED BY <1>1, <2>1
<1> QED BY <1>2, <1>3, Zenon

\* The handler of the timer that begins is counted as one that has stored m_stopWait.
LEMMA TimeoutCounts ==
  ASSUME Types, on_wait_timer_timeout
  PROVE  /\ timer' \in [queued : Nat, stored : Nat, closed : Nat]
         /\ timer'.stored = timer.stored + 1 /\ timer'.closed = timer.closed
<1>1. timer \in [queued : Nat, stored : Nat, closed : Nat] /\ m_idleTimer \in BOOLEAN
  BY DEF Types
<1>2. CASE timer' = [timer EXCEPT !.stored = @ + 1]
  BY <1>1, <1>2
<1>3. CASE timer.queued > 0 /\ timer' = [Queued(m_idleTimer) EXCEPT !.queued = @ - 1, !.stored = @ + 1]
  <2> DEFINE r == Queued(m_idleTimer)
  <2>1. /\ r \in [queued : Nat, stored : Nat, closed : Nat]
        /\ r.stored = timer.stored /\ r.closed = timer.closed /\ r.queued >= timer.queued
    BY <1>1, QueuedTimer
  <2>2. timer' = [r EXCEPT !.queued = @ - 1, !.stored = @ + 1]
    BY <1>3
  <2> HIDE DEF r
  <2>3. r.queued \in Nat /\ r.queued > 0 /\ timer.queued \in Nat
    BY <1>1, <1>3, <2>1
  <2>4. r.queued - 1 \in Nat /\ r.stored + 1 \in Nat
    BY <2>1, <2>3
  <2> QED BY <2>1, <2>2, <2>4, Zenon
<1> QED BY <1>2, <1>3 DEF on_wait_timer_timeout

\* What a step of a caller does: it touches no session, at most drops expired ones from
\* the list, adds to what is posted, and never undoes the stop of the io_context.
LEMMA CallerEffects ==
  ASSUME Types, NEW t \in Callers, Call(t) \/ Step(t) \/ wait_spurious(t)
  PROVE  /\ Types'
         /\ UNCHANGED <<cfg, session, draining, handled, late>>
         /\ m_sessions' \in {m_sessions, Live}
         /\ timer'.stored = timer.stored /\ timer'.closed = timer.closed
         /\ \A c \in Clients : posted[c] \subseteq posted'[c]
         /\ ioStopped => ioStopped'
         /\ m_stopWait' => m_stopWait
         /\ \E p \in Places : place' = [place EXCEPT ![t] = p]
<1> USE DEF callers, registry, drain, engine, sessions
<1>1. CASE start(t)
  BY <1>1 DEF start, Goto, Returns, Types, Places, Live
<1>2. CASE broadcast_text(t)
  BY <1>2 DEF broadcast_text, Returns, Types, Places, Live
<1>3. CASE stop(t)
  BY <1>3 DEF stop, Goto, Returns, Types, Places, Live
<1>4. CASE start_accepting(t)
  BY <1>4 DEF start_accepting, Goto, Types, Places, Live
<1>5. CASE start_io_threads(t)
  BY <1>5 DEF start_io_threads, Goto, Types, Places, Live
<1>6. CASE start_return(t)
  BY <1>6 DEF start_return, Returns, Types, Places, Live
<1>7. CASE stop_accepting(t)
  BY <1>7 DEF stop_accepting, Goto, Types, Places, Live
<1>8. CASE stop_active_sessions(t)
  BY <1>8, Zenon DEF stop_active_sessions, Goto, Types, Places, Live
<1>9. CASE close_live_sessions(t)
  BY <1>9 DEF close_live_sessions, Goto, get_live_sessions, Types, Places, Live
<1>10. CASE start_wait_timer(t)
  <2>1. /\ timer' \in [queued : Nat, stored : Nat, closed : Nat]
        /\ timer'.stored = timer.stored /\ timer'.closed = timer.closed
    BY <1>10, QueuedTimer DEF start_wait_timer, Types
  <2> QED BY <1>10, <2>1, Zenon DEF start_wait_timer, Goto, Types, Places, Live
<1>11. CASE wait_for_sessions_stop(t)
  BY <1>11 DEF wait_for_sessions_stop, Goto, Types, Places, Live
<1>12. CASE wait_sleep(t)
  BY <1>12 DEF wait_sleep, Goto, Types, Places, Live
<1>13. CASE cancel_wait_timer(t)
  <2>1. /\ timer' \in [queued : Nat, stored : Nat, closed : Nat]
        /\ timer'.stored = timer.stored /\ timer'.closed = timer.closed
    BY <1>13, QueuedTimer DEF cancel_wait_timer, Types
  <2> QED BY <1>13, <2>1, Zenon DEF cancel_wait_timer, Goto, Types, Places, Live
<1>14. CASE stop_io(t)
  BY <1>14 DEF stop_io, Goto, Types, Places, Live
<1>15. CASE join_io_threads(t)
  BY <1>15 DEF join_io_threads, Goto, Types, Places, Live
<1>16. CASE stop_return(t)
  BY <1>16 DEF stop_return, Returns, Types, Places, Live
<1>17. CASE wait_spurious(t)
  BY <1>17 DEF wait_spurious, Types, Places, Live
<1> QED BY <1>1, <1>2, <1>3, <1>4, <1>5, <1>6, <1>7, <1>8, <1>9, Zenon,
        <1>10, <1>11, <1>12, <1>13, <1>14, <1>15, <1>16, <1>17 DEF Call, Step

\* The steps of the connection of client c.
SessionAction(c) ==
  \/ accept_handler(c) \/ Continue(c) \/ handshake(c) \/ close_for_shutdown(c) \/ session_closes(c)
  \/ \E text \in cfg.texts : on_message(c, text)

\* What such a step does: it changes the stage of this session only, and of the callers
\* at most wakes the sleepers.
LEMMA SessionEffects ==
  ASSUME Types, NEW c \in Clients, SessionAction(c)
  PROVE  /\ Types'
         /\ UNCHANGED <<cfg, m_serverState, m_sessionMtx, drain, ioStopped>>
         /\ place' \in {place, Woken}
         /\ \E p \in Stages : session' = [session EXCEPT ![c] = p]
<1> USE DEF callers, registry, drain, engine, sessions, SessionStep, Types
<1>1. CASE accept_handler(c)
  BY <1>1, Zenon DEF accept_handler, Stages
<1>2. CASE handler_client(c)
  BY <1>2 DEF handler_client, Stages
<1>3. CASE register_session(c)
  BY <1>3 DEF register_session, Stages
<1>4. CASE unregister_session(c)
  BY <1>4 DEF unregister_session, Stages, Live
<1>5. CASE unregister_notify(c)
  BY <1>5 DEF unregister_notify, Stages, Woken, Places
<1>6. CASE handshake(c)
  BY <1>6 DEF handshake, Stages
<1>7. CASE close_for_shutdown(c)
  BY <1>7 DEF close_for_shutdown, Stages
<1>8. CASE session_closes(c)
  BY <1>8 DEF session_closes, Stages
<1>9. CASE \E text \in cfg.texts : on_message(c, text)
  BY <1>9, Zenon DEF on_message, Stages
<1> QED BY <1>1, <1>2, <1>3, <1>4, <1>5, <1>6, <1>7, <1>8, <1>9 DEF SessionAction, Continue

\* The steps of acceptor and drain timer.
TimerAction == accept_error \/ on_wait_timer_timeout \/ close_forcefully \/ timeout_notify

\* What such a step does.
LEMMA TimerEffects ==
  ASSUME Types, TimerAction
  PROVE  /\ Types'
         /\ UNCHANGED <<cfg, m_serverState, m_sessionMtx, session, draining, handled, late, ioStopped>>
         /\ m_sessions' \in {m_sessions, Live}
         /\ \A c \in Clients : posted[c] \subseteq posted'[c]
         /\ place' \in {place, Woken}
<1> USE DEF callers, registry, drain, engine, sessions, Types
<1>1. CASE accept_error
  BY <1>1 DEF accept_error
<1>2. CASE on_wait_timer_timeout
  BY <1>2, TimeoutCounts, Zenon DEF on_wait_timer_timeout
<1>3. CASE close_forcefully
  <2>1. timer.stored - 1 \in Nat /\ timer.closed + 1 \in Nat
    BY <1>3 DEF close_forcefully
  <2>2. timer' \in [queued : Nat, stored : Nat, closed : Nat]
    BY <1>3, <2>1, Zenon DEF close_forcefully
  <2> QED BY <1>3, <2>2 DEF close_forcefully, get_live_sessions, Live
<1>4. CASE timeout_notify
  BY <1>4 DEF timeout_notify, Woken, Places
<1> QED BY <1>1, <1>2, <1>3, <1>4 DEF TimerAction

\* The steps there are.
LEMMA Steps ==
  ASSUME [ServerNext]_serverVars
  PROVE  \/ \E t \in Callers : Call(t) \/ Step(t) \/ wait_spurious(t)
         \/ \E c \in Clients : SessionAction(c)
         \/ TimerAction
         \/ UNCHANGED serverVars
BY DEF ServerNext, SessionAction, TimerAction

\* The list of sessions keeps only registered ones.
LEMMA ListedKept ==
  ASSUME Inv, [ServerNext]_serverVars
  PROVE  Listed'
<1>0. Types /\ Listed
  BY DEF Inv
<1>1. ASSUME NEW t \in Callers, Call(t) \/ Step(t) \/ wait_spurious(t) PROVE Listed'
  BY <1>0, <1>1, CallerEffects DEF Listed, Live
<1>2. CASE TimerAction
  BY <1>0, <1>2, TimerEffects DEF Listed, Live
<1>3. ASSUME NEW c \in Clients, SessionAction(c) PROVE Listed'
  <2> USE DEF callers, registry, drain, engine, sessions, SessionStep, Types, Listed
  <2>1. CASE accept_handler(c)
    BY <1>0, <2>1 DEF accept_handler
  <2>2. CASE handler_client(c)
    BY <1>0, <2>2 DEF handler_client
  <2>3. CASE register_session(c)
    BY <1>0, <2>3 DEF register_session
  <2>4. CASE unregister_session(c)
    BY <1>0, <2>4 DEF unregister_session, Live
  <2>5. CASE unregister_notify(c)
    BY <1>0, <2>5 DEF unregister_notify
  <2>6. CASE handshake(c)
    BY <1>0, <2>6 DEF handshake
  <2>7. CASE close_for_shutdown(c)
    BY <1>0, <2>7 DEF close_for_shutdown
  <2>8. CASE session_closes(c)
    BY <1>0, <2>8 DEF session_closes
  <2>9. CASE \E text \in cfg.texts : on_message(c, text)
    BY <1>0, <2>9 DEF on_message
  <2> QED BY <1>3, <2>1, <2>2, <2>3, <2>4, <2>5, <2>6, <2>7, <2>8, <2>9 DEF SessionAction, Continue
<1>4. CASE UNCHANGED serverVars
  BY <1>0, <1>4 DEF serverVars, registry, sessions, Listed
<1> QED BY <1>1, <1>2, <1>3, <1>4, Steps

\* A client is admitted before its session opens or a message of it is handled.
LEMMA AdmittedKept ==
  ASSUME Inv, [ServerNext]_serverVars
  PROVE  OpenIsAdmitted'
<1>0. Types /\ OpenIsAdmitted
  BY DEF Inv
<1>1. ASSUME UNCHANGED <<cfg, session, handled>> PROVE OpenIsAdmitted'
  BY <1>0, <1>1 DEF OpenIsAdmitted, Admitted
<1>2. ASSUME NEW c \in Clients, SessionAction(c) PROVE OpenIsAdmitted'
  <2> USE DEF callers, registry, drain, engine, sessions, SessionStep, Types
  <2>0. UNCHANGED cfg
    BY <1>0, <1>2, SessionEffects
  <2>1. ASSUME NEW d \in Clients PROVE Admitted(d)' <=> Admitted(d)
    BY <2>0 DEF Admitted
  <2>2. ASSUME NEW p \in Stages, session' = [session EXCEPT ![c] = p],
               p \in {"opening", "open"} => Admitted(c), UNCHANGED handled
        PROVE  OpenIsAdmitted'
    BY <1>0, <2>0, <2>2 DEF OpenIsAdmitted, Admitted
  <2>3. session[c] \in {"opening", "open"} => Admitted(c)
    BY <1>0 DEF OpenIsAdmitted
  <2>4. session' = session => session' = [session EXCEPT ![c] = session[c]]
    BY <1>0
  <2> USE DEF Stages
  <2>5. CASE accept_handler(c)
    BY <1>0, <2>5, <2>2, <2>3, <2>4, Zenon DEF accept_handler
  <2>6. CASE handler_client(c)
    BY <1>0, <2>6, <2>2, <2>3, <2>4 DEF handler_client
  <2>7. CASE register_session(c)
    BY <1>0, <2>7, <2>2, <2>3, <2>4 DEF register_session
  <2>8. CASE unregister_session(c)
    BY <1>0, <2>8, <2>2, <2>3, <2>4 DEF unregister_session
  <2>9. CASE unregister_notify(c)
    BY <1>0, <2>9, <2>2, <2>3, <2>4 DEF unregister_notify
  <2>10. CASE handshake(c)
    BY <1>0, <2>10, <2>2, <2>3, <2>4 DEF handshake, Admitted, Decision
  <2>11. CASE close_for_shutdown(c)
    BY <1>0, <2>11, <2>2, <2>3, <2>4 DEF close_for_shutdown
  <2>12. CASE session_closes(c)
    BY <1>0, <2>12, <2>2, <2>3, <2>4 DEF session_closes
  <2>13. CASE \E text \in cfg.texts : on_message(c, text)
    <3>1. session[c] = "open" /\ session' \in {session, [session EXCEPT ![c] = "closing"]}
          /\ handled' \in {handled, handled \cup {c}}
      BY <2>13 DEF on_message
    <3> QED BY <1>0, <2>0, <2>3, <3>1 DEF OpenIsAdmitted, Admitted
  <2> QED BY <1>2, <2>5, <2>6, <2>7, <2>8, <2>9, <2>10, <2>11, <2>12, <2>13 DEF SessionAction, Continue
<1>3. ASSUME NEW t \in Callers, Call(t) \/ Step(t) \/ wait_spurious(t) PROVE OpenIsAdmitted'
  BY <1>0, <1>1, <1>3, CallerEffects
<1>4. CASE TimerAction
  BY <1>0, <1>1, <1>4, TimerEffects
<1>5. CASE UNCHANGED serverVars
  BY <1>1, <1>5 DEF serverVars, sessions
<1> QED BY <1>2, <1>3, <1>4, <1>5, Steps

\* Nothing counts as busy exactly when no handler runs.
LEMMA BusyZero == Types => (Busy = 0 <=> NotBusy)
<1> SUFFICES ASSUME Types PROVE Busy = 0 <=> NotBusy
  OBVIOUS
<1>1. IsFiniteSet(InHandler)
  BY ServerAssumption, FS_Subset DEF InHandler
<1>2. Cardinality(InHandler) \in Nat /\ (Cardinality(InHandler) = 0 <=> InHandler = {})
  BY <1>1, FS_CardinalityType, FS_EmptySet
<1>3. timer.stored \in Nat /\ timer.closed \in Nat
  BY DEF Types
<1> DEFINE n == Cardinality(InHandler)
<1>4. Busy = n + timer.stored + timer.closed /\ n \in Nat /\ (n = 0 <=> InHandler = {})
  BY <1>2 DEF Busy
<1> HIDE DEF n
<1>5. Busy = 0 <=> n = 0 /\ timer.stored = 0 /\ timer.closed = 0
  BY <1>3, <1>4
<1> QED BY <1>4, <1>5 DEF NotBusy

\* With the io_context stopped and no handler left, no io thread does anything any more.
LEMMA QuietEnds ==
  ASSUME Types, ioStopped, NotBusy
  PROVE  ~TimerAction /\ \A c \in Clients : ~SessionAction(c)
<1>1. ~IoFree
  BY DEF IoFree
<1>2. \A c \in Clients : session[c] \notin {"accepted", "opening", "closing", "unregistered"}
  BY DEF NotBusy, InHandler
<1>3. ~TimerAction
  <2>1. ~(timer.stored > 0) /\ ~(timer.closed > 0)
    BY DEF NotBusy
  <2> QED BY <1>1, <2>1, Zenon DEF TimerAction, accept_error, on_wait_timer_timeout, close_forcefully,
          timeout_notify
<1>4. \A c \in Clients : ~SessionAction(c)
  BY <1>1, <1>2, Zenon DEF SessionAction, Continue, accept_handler, handler_client, register_session,
     unregister_session, unregister_notify, handshake, close_for_shutdown, session_closes, on_message
<1> QED BY <1>3, <1>4

\* How a caller comes to join the io threads and past it.
LEMMA JoinEffects ==
  ASSUME Types, NEW t \in Callers, Call(t) \/ Step(t) \/ wait_spurious(t)
  PROVE  /\ place'[t] = "join_io_threads" => ioStopped'
         /\ place'[t] = "stopped" => place[t] = "join_io_threads" /\ (cfg.executor \/ Busy = 0)
<1> USE DEF callers, registry, drain, engine, sessions, Types
<1>1. CASE start(t)
  BY <1>1 DEF start, Goto, Returns
<1>2. CASE broadcast_text(t)
  BY <1>2 DEF broadcast_text, Returns
<1>3. CASE stop(t)
  BY <1>3 DEF stop, Goto, Returns
<1>4. CASE start_accepting(t)
  BY <1>4 DEF start_accepting, Goto
<1>5. CASE start_io_threads(t)
  BY <1>5 DEF start_io_threads, Goto
<1>6. CASE start_return(t)
  BY <1>6 DEF start_return, Returns
<1>7. CASE stop_accepting(t)
  BY <1>7 DEF stop_accepting, Goto
<1>8. CASE stop_active_sessions(t)
  BY <1>8 DEF stop_active_sessions, Goto
<1>9. CASE close_live_sessions(t)
  BY <1>9 DEF close_live_sessions, Goto
<1>10. CASE start_wait_timer(t)
  BY <1>10 DEF start_wait_timer, Goto
<1>11. CASE wait_for_sessions_stop(t)
  BY <1>11 DEF wait_for_sessions_stop, Goto
<1>12. CASE wait_sleep(t)
  BY <1>12 DEF wait_sleep, Goto
<1>13. CASE cancel_wait_timer(t)
  BY <1>13 DEF cancel_wait_timer, Goto
<1>14. CASE stop_io(t)
  BY <1>14 DEF stop_io, Goto
<1>15. CASE join_io_threads(t)
  BY <1>15 DEF join_io_threads, Goto, ThreadsEnded
<1>16. CASE stop_return(t)
  BY <1>16 DEF stop_return, Returns
<1>17. CASE wait_spurious(t)
  BY <1>17 DEF wait_spurious
<1> QED BY <1>1, <1>2, <1>3, <1>4, <1>5, <1>6, <1>7, <1>8, <1>9,
        <1>10, <1>11, <1>12, <1>13, <1>14, <1>15, <1>16, <1>17 DEF Call, Step

\* Once joined, the io threads stay quiet.
LEMMA JoinedKept ==
  ASSUME Inv, [ServerNext]_serverVars
  PROVE  JoinedIsQuiet'
<1>0. Types /\ JoinedIsQuiet
  BY DEF Inv
<1>1. ASSUME UNCHANGED <<session, timer.stored, timer.closed>> PROVE NotBusy' <=> NotBusy
  BY <1>1 DEF NotBusy, InHandler
<1>2. ASSUME NEW t \in Callers, Call(t) \/ Step(t) \/ wait_spurious(t) PROVE JoinedIsQuiet'
  <2>1. /\ UNCHANGED <<cfg, session>> /\ timer'.stored = timer.stored /\ timer'.closed = timer.closed
        /\ ioStopped => ioStopped'
        /\ \E p \in Places : place' = [place EXCEPT ![t] = p]
    BY <1>0, <1>2, CallerEffects
  <2>2. NotBusy' <=> NotBusy
    BY <1>1, <2>1
  <2>3. /\ place'[t] = "join_io_threads" => ioStopped'
        /\ place'[t] = "stopped" => place[t] = "join_io_threads" /\ (cfg.executor \/ NotBusy)
    BY <1>0, <1>2, JoinEffects, BusyZero
  <2> QED BY <1>0, <2>1, <2>2, <2>3 DEF JoinedIsQuiet, Types
<1>3. CASE TimerAction \/ \E c \in Clients : SessionAction(c)
  <2>1. UNCHANGED <<cfg, ioStopped>> /\ place' \in {place, Woken}
    BY <1>0, <1>3, TimerEffects, SessionEffects
  <2>2. \A t \in Callers : place'[t] \in {"join_io_threads", "stopped"} => place[t] = place'[t]
    BY <1>0, <2>1 DEF Woken, Types
  <2>3. ioStopped => ~NotBusy
    BY <1>0, <1>3, QuietEnds
  <2> QED BY <1>0, <2>1, <2>2, <2>3 DEF JoinedIsQuiet
<1>4. CASE UNCHANGED serverVars
  BY <1>0, <1>1, <1>4 DEF serverVars, callers, drain, engine, sessions, JoinedIsQuiet
<1> QED BY <1>2, <1>3, <1>4, Steps

\* How a caller comes to hold the mutex while it waits, and to sleep: the list
\* changes only under the mutex, and m_stopWait is seen unset at the test.
LEMMA WaitEffects ==
  ASSUME Types, NEW t \in Callers, Call(t) \/ Step(t) \/ wait_spurious(t)
  PROVE  /\ m_sessionMtx = {} \/ place[t] = "tested" \/ UNCHANGED <<m_sessions, m_sessionMtx>>
         /\ place'[t] = "tested" => /\ m_sessionMtx = {} /\ m_sessionMtx' = {t} /\ m_sessions' # {}
                                    /\ ~m_stopWait'
         /\ place'[t] = "asleep" => place[t] = "tested" /\ UNCHANGED <<m_sessions, m_stopWait>>
<1> USE DEF callers, registry, drain, engine, sessions, Types
<1>1. CASE start(t)
  BY <1>1 DEF start, Goto, Returns
<1>2. CASE broadcast_text(t)
  BY <1>2 DEF broadcast_text, Returns
<1>3. CASE stop(t)
  BY <1>3 DEF stop, Goto, Returns
<1>4. CASE start_accepting(t)
  BY <1>4 DEF start_accepting, Goto
<1>5. CASE start_io_threads(t)
  BY <1>5 DEF start_io_threads, Goto
<1>6. CASE start_return(t)
  BY <1>6 DEF start_return, Returns
<1>7. CASE stop_accepting(t)
  BY <1>7 DEF stop_accepting, Goto
<1>8. CASE stop_active_sessions(t)
  BY <1>8 DEF stop_active_sessions, Goto
<1>9. CASE close_live_sessions(t)
  BY <1>9 DEF close_live_sessions, Goto, get_live_sessions
<1>10. CASE start_wait_timer(t)
  BY <1>10 DEF start_wait_timer, Goto
<1>11. CASE wait_for_sessions_stop(t)
  BY <1>11 DEF wait_for_sessions_stop, Goto, WaitOver
<1>12. CASE wait_sleep(t)
  BY <1>12 DEF wait_sleep, Goto
<1>13. CASE cancel_wait_timer(t)
  BY <1>13 DEF cancel_wait_timer, Goto
<1>14. CASE stop_io(t)
  BY <1>14 DEF stop_io, Goto
<1>15. CASE join_io_threads(t)
  BY <1>15 DEF join_io_threads, Goto
<1>16. CASE stop_return(t)
  BY <1>16 DEF stop_return, Returns
<1>17. CASE wait_spurious(t)
  BY <1>17 DEF wait_spurious
<1> QED BY <1>1, <1>2, <1>3, <1>4, <1>5, <1>6, <1>7, <1>8, <1>9, Zenon,
        <1>10, <1>11, <1>12, <1>13, <1>14, <1>15, <1>16, <1>17 DEF Call, Step

\* From the test to the sleep of stop() nobody else has the mutex.
LEMMA TestKept ==
  ASSUME Inv, [ServerNext]_serverVars
  PROVE  TestHolds'
<1>0. Types /\ TestHolds
  BY DEF Inv
<1>1. ASSUME NEW t \in Callers, Call(t) \/ Step(t) \/ wait_spurious(t) PROVE TestHolds'
  <2>1. /\ timer'.stored = timer.stored /\ (m_stopWait' => m_stopWait)
        /\ \E p \in Places : place' = [place EXCEPT ![t] = p]
    BY <1>0, <1>1, CallerEffects
  <2>2. /\ m_sessionMtx = {} \/ place[t] = "tested" \/ UNCHANGED <<m_sessions, m_sessionMtx>>
        /\ place'[t] = "tested" => /\ m_sessionMtx = {} /\ m_sessionMtx' = {t} /\ m_sessions' # {}
                                   /\ ~m_stopWait'
    BY <1>0, <1>1, WaitEffects
  <2>3. ASSUME NEW u \in Callers, place'[u] = "tested", u # t
        PROVE  m_sessionMtx' = {u} /\ m_sessions' # {} /\ (m_stopWait' => timer'.stored > 0)
    <3>1. place[u] = "tested"
      BY <1>0, <2>1, <2>3 DEF Types
    <3>2. m_sessionMtx = {u} /\ m_sessions # {} /\ (m_stopWait => timer.stored > 0)
      BY <1>0, <3>1 DEF TestHolds
    <3>3. place[t] # "tested"
      BY <1>0, <2>3, <3>2 DEF TestHolds
    <3> QED BY <2>1, <2>2, <3>2, <3>3
  <2> QED BY <2>2, <2>3 DEF TestHolds
<1>2. ASSUME UNCHANGED m_sessionMtx, place' \in {place, Woken},
             m_sessionMtx = {} \/ (UNCHANGED m_sessions /\ timer'.stored >= timer.stored),
             timer'.stored \in Nat,
             UNCHANGED m_stopWait \/ timer'.stored > 0
      PROVE  TestHolds'
  <2>1. ASSUME NEW u \in Callers, place'[u] = "tested" PROVE place[u] = "tested"
    BY <1>0, <1>2, <2>1 DEF Woken, Types
  <2>2. timer.stored \in Nat /\ Types
    BY <1>0 DEF Types
  <2>3. ASSUME NEW u \in Callers, place'[u] = "tested"
        PROVE  m_sessionMtx' = {u} /\ m_sessions' # {} /\ (m_stopWait' => timer'.stored > 0)
    <3>1. m_sessionMtx = {u} /\ m_sessions # {} /\ (m_stopWait => timer.stored > 0)
      BY <1>0, <2>1, <2>3 DEF TestHolds
    <3>2. UNCHANGED m_sessions /\ timer'.stored >= timer.stored /\ m_sessionMtx' = {u}
      BY <1>2, <3>1
    <3>3. m_stopWait' => timer'.stored > 0
      <4>1. CASE UNCHANGED m_stopWait
        <5>1. m_stopWait' => timer.stored > 0
          BY <3>1, <4>1, Zenon
        <5> QED BY <1>2, <2>2, <3>2, <5>1
      <4> QED BY <1>2, <4>1, Zenon
    <3> QED BY <3>1, <3>2, <3>3
  <2> QED BY <2>3 DEF TestHolds
<1>3. CASE TimerAction
  <2> USE DEF callers, registry, drain, engine, sessions
  <2>0. timer.stored \in Nat /\ timer \in [queued : Nat, stored : Nat, closed : Nat]
    BY <1>0 DEF Types
  <2>1. CASE accept_error
    BY <1>2, <2>0, <2>1 DEF accept_error
  <2>2. CASE on_wait_timer_timeout
    <3>1. timer'.stored = timer.stored + 1
      BY <1>0, <2>2, TimeoutCounts
    <3>2. timer'.stored \in Nat /\ timer'.stored > 0 /\ timer'.stored >= timer.stored
      BY <2>0, <3>1
    <3>3. UNCHANGED <<m_sessionMtx, m_sessions, place>>
      BY <2>2 DEF on_wait_timer_timeout
    <3> QED BY <1>2, <3>2, <3>3
  <2>3. CASE close_forcefully
    <3>1. m_sessionMtx = {} /\ UNCHANGED <<m_sessionMtx, place, m_stopWait>>
      BY <2>3 DEF close_forcefully, get_live_sessions
    <3> QED BY <1>0, <3>1 DEF TestHolds
  <2>4. CASE timeout_notify
    BY <1>2, <2>0, <2>4 DEF timeout_notify
  <2> QED BY <1>3, <2>1, <2>2, <2>3, <2>4 DEF TimerAction
<1>4. ASSUME NEW c \in Clients, SessionAction(c) PROVE TestHolds'
  <2>1. UNCHANGED <<m_sessionMtx, m_stopWait, timer>> /\ place' \in {place, Woken}
    BY <1>0, <1>4, SessionEffects DEF drain
  <2>2. m_sessionMtx = {} \/ UNCHANGED m_sessions
    BY <1>4, Zenon DEF SessionAction, Continue, accept_handler, handler_client, register_session,
       unregister_session, unregister_notify, handshake, close_for_shutdown, session_closes,
       on_message, registry
  <2>3. timer.stored \in Nat
    BY <1>0 DEF Types
  <2> QED BY <1>2, <2>1, <2>2, <2>3
<1>5. CASE UNCHANGED serverVars
  BY <1>0, <1>5 DEF serverVars, callers, registry, drain, TestHolds
<1> QED BY <1>1, <1>3, <1>4, <1>5, Steps

\* stop() is not left asleep: what ends its wait notifies afterwards.
LEMMA WakeKept ==
  ASSUME Inv, [ServerNext]_serverVars
  PROVE  NoLostStopWake'
<1>0. Types /\ Listed /\ TestHolds /\ NoLostStopWake
  BY DEF Inv
<1> DEFINE Due == m_stopWait \/ (m_sessions = {} /\ \A c \in Clients : session[c] # "lost")
           Coming == \/ timer.stored + timer.closed > 0
                     \/ \E c \in Clients : session[c] = "unregistered"
                     \/ ioStopped
<1>1. timer.stored \in Nat /\ timer.closed \in Nat
  BY <1>0 DEF Types
<1>2. m_sessions # {} /\ Live = {} => \E c \in Clients : session[c] = "lost"
  BY <1>0 DEF Listed, Live, Expired, Types
<1>3. ASSUME NEW t \in Callers, Call(t) \/ Step(t) \/ wait_spurious(t) PROVE NoLostStopWake'
  <2>1. /\ UNCHANGED session /\ m_sessions' \in {m_sessions, Live}
        /\ timer'.stored = timer.stored /\ timer'.closed = timer.closed
        /\ ioStopped => ioStopped'
        /\ m_stopWait' => m_stopWait
        /\ \E p \in Places : place' = [place EXCEPT ![t] = p]
    BY <1>0, <1>3, CallerEffects
  <2>2. ASSUME NEW u \in Callers, place[u] = "asleep", Due' PROVE Coming'
    <3>1. Due
      BY <1>2, <2>1, <2>2
    <3>2. Coming
      BY <1>0, <2>2, <3>1 DEF NoLostStopWake
    <3> QED BY <2>1, <3>2
  <2>3. ASSUME place'[t] = "asleep", Due' PROVE Coming'
    <3>1. place[t] = "tested" /\ UNCHANGED <<m_sessions, m_stopWait>>
      BY <1>0, <1>3, <2>3, WaitEffects
    <3>2. timer.stored > 0
      BY <1>0, <2>3, <3>1 DEF TestHolds
    <3> QED BY <1>1, <2>1, <3>2
  <2>4. \A u \in Callers : place'[u] = "asleep" => u = t \/ place[u] = "asleep"
    BY <1>0, <2>1 DEF Types
  <2> QED BY <2>2, <2>3, <2>4 DEF NoLostStopWake
<1>4. ASSUME place' = Woken PROVE NoLostStopWake'
  BY <1>0, <1>4 DEF Woken, Types, NoLostStopWake
<1>6. CASE TimerAction
  <2> USE DEF callers, registry, drain, engine, sessions
  <2>1. CASE accept_error
    BY <1>0, <2>1 DEF accept_error, NoLostStopWake
  <2>2. CASE on_wait_timer_timeout
    <3>1. timer'.stored + timer'.closed > 0
      BY <1>0, <1>1, <2>2, TimeoutCounts
    <3> QED BY <3>1 DEF NoLostStopWake
  <2>3. CASE close_forcefully
    <3>1. timer'.stored + timer'.closed > 0
      BY <1>0, <1>1, <2>3 DEF close_forcefully, Types
    <3> QED BY <3>1 DEF NoLostStopWake
  <2>4. CASE timeout_notify
    BY <1>4, <2>4 DEF timeout_notify
  <2> QED BY <1>6, <2>1, <2>2, <2>3, <2>4 DEF TimerAction
<1>7. ASSUME NEW c \in Clients, SessionAction(c) PROVE NoLostStopWake'
  <2>1. /\ UNCHANGED <<m_stopWait, timer, ioStopped>> /\ place' \in {place, Woken}
        /\ \E p \in Stages : session' = [session EXCEPT ![c] = p]
    BY <1>0, <1>7, SessionEffects DEF drain
  <2>2. CASE unregister_session(c)
    <3>1. session'[c] = "unregistered"
      BY <1>0, <2>2 DEF unregister_session, SessionStep, Types
    <3> QED BY <3>1 DEF NoLostStopWake
  <2>3. CASE unregister_notify(c)
    BY <1>4, <2>3 DEF unregister_notify
  <2>4. CASE register_session(c)
    <3>1. m_sessions' # {} /\ UNCHANGED place /\ session[c] = "opening"
      BY <2>4 DEF register_session, callers
    <3> QED BY <1>0, <2>1, <3>1 DEF NoLostStopWake, Types
  <2>5. ASSUME UNCHANGED <<m_sessions, place>>, session[c] \notin {"unregistered", "lost"}
        PROVE  NoLostStopWake'
    BY <1>0, <2>1, <2>5 DEF NoLostStopWake, Types
  <2> QED BY <1>7, <2>2, <2>3, <2>4, <2>5, Zenon DEF SessionAction, Continue, accept_handler,
          handler_client, handshake, close_for_shutdown, session_closes, on_message, registry, callers
<1>8. CASE UNCHANGED serverVars
  BY <1>0, <1>8 DEF serverVars, callers, registry, drain, engine, sessions, NoLostStopWake
<1> QED BY <1>3, <1>6, <1>7, <1>8, Steps

\* Who is told stays told, and who registers while some stop() is past its list counts
\* as late.
LEMMA CoveredStays ==
  ASSUME Inv, [ServerNext]_serverVars, Covered,
         \/ \E t \in Callers : place[t] \in InWait \cup AfterWait
         \/ ioStopped /\ NotBusy
  PROVE  Covered'
<1>0. Types
  BY DEF Inv
<1>1. ASSUME UNCHANGED <<session, draining, late>>, m_sessions' \in {m_sessions, Live},
             \A c \in Clients : posted[c] \subseteq posted'[c],
             timer'.stored = timer.stored
      PROVE  Covered'
  <2>1. Live' \subseteq Live /\ Live \subseteq Clients
    BY <1>0, <1>1 DEF Live, Expired, Types
  <2> QED BY <1>1, <2>1 DEF Covered
<1>2. ASSUME NEW t \in Callers, Call(t) \/ Step(t) \/ wait_spurious(t) PROVE Covered'
  BY <1>0, <1>1, <1>2, CallerEffects
<1>3. CASE TimerAction
  <2> USE DEF callers, registry, drain, engine, sessions
  <2>1. CASE accept_error
    BY <1>1, <2>1 DEF accept_error
  <2>2. CASE on_wait_timer_timeout
    <3>1. timer'.stored > 0
      BY <1>0, <2>2, TimeoutCounts DEF Types
    <3> QED BY <3>1 DEF Covered
  <2>3. CASE close_forcefully
    <3>1. /\ UNCHANGED session /\ m_sessions' = Live
          /\ posted' = [c \in Clients |-> IF c \in Live THEN posted[c] \cup {"close_forcefully"}
                                        ELSE posted[c]]
      BY <2>3 DEF close_forcefully, get_live_sessions
    <3>2. Live' = Live /\ Live \subseteq Clients
      BY <1>0, <3>1 DEF Live, Expired, Types
    <3> QED BY <3>1, <3>2 DEF Covered
  <2>4. CASE timeout_notify
    <3>1. timer'.stored = timer.stored
      BY <1>0, <2>4 DEF timeout_notify, Types
    <3> QED BY <1>1, <2>4, <3>1 DEF timeout_notify
  <2> QED BY <1>3, <2>1, <2>2, <2>3, <2>4 DEF TimerAction
<1>4. ASSUME NEW c \in Clients, SessionAction(c) PROVE Covered'
  <2>1. UNCHANGED timer /\ \E p \in Stages : session' = [session EXCEPT ![c] = p]
    BY <1>0, <1>4, SessionEffects DEF drain
  <2>2. PICK t \in Callers : place[t] \in InWait \cup AfterWait
    BY <1>0, <1>4, QuietEnds
  <2>3. ASSUME session[c] \notin {"gone", "lost"}, m_sessions' \subseteq m_sessions,
               draining \subseteq draining', UNCHANGED <<posted, late>>
        PROVE  Covered'
    <3>1. Live' \subseteq Live
      BY <1>0, <2>1, <2>3 DEF Live, Expired, Types
    <3> QED BY <2>1, <2>3, <3>1 DEF Covered
  <2> USE DEF callers, registry, drain, engine, sessions, SessionStep
  <2>4. CASE register_session(c)
    <3>1. m_sessions' = m_sessions \cup {c} /\ late' = late \cup {c} /\ UNCHANGED <<posted, draining>>
      BY <2>2, <2>4 DEF register_session, InWait, AfterWait
    <3>2. session[c] = "opening"
      BY <2>4 DEF register_session
    <3>3. Live' \subseteq Live \cup {c}
      BY <1>0, <2>1, <3>1, <3>2 DEF Live, Expired, Types
    <3> QED BY <2>1, <3>1, <3>3 DEF Covered
  <2>5. CASE close_for_shutdown(c)
    <3>1. /\ UNCHANGED <<m_sessions, session, late>> /\ draining' = draining \cup {c}
          /\ posted' = [posted EXCEPT ![c] = {}]
      BY <2>5 DEF close_for_shutdown
    <3>2. Live' = Live /\ Live \subseteq Clients
      BY <1>0, <3>1 DEF Live, Expired, Types
    <3>3. \A d \in Live : d # c => posted'[d] = posted[d]
      BY <1>0, <3>1, <3>2 DEF Types
    <3> QED BY <2>1, <3>1, <3>2, <3>3 DEF Covered
  <2>6. CASE unregister_session(c)
    BY <2>3, <2>6 DEF unregister_session, Live
  <2>7. CASE accept_handler(c)
    BY <2>3, <2>7 DEF accept_handler
  <2>8. CASE handler_client(c)
    BY <2>3, <2>8 DEF handler_client
  <2>9. CASE unregister_notify(c)
    BY <2>3, <2>9 DEF unregister_notify
  <2>10. CASE handshake(c)
    BY <2>3, <2>10 DEF handshake
  <2>11. CASE session_closes(c)
    BY <2>3, <2>11 DEF session_closes
  <2>12. CASE \E text \in cfg.texts : on_message(c, text)
    BY <2>3, <2>12 DEF on_message
  <2> QED BY <1>4, <2>4, <2>5, <2>6, <2>7, <2>8, <2>9, <2>10, <2>11, <2>12 DEF SessionAction, Continue
<1>5. CASE UNCHANGED serverVars
  <2>1. timer' = timer /\ posted' = posted /\ UNCHANGED <<session, draining, late, m_sessions>>
    BY <1>5 DEF serverVars, drain, sessions, registry
  <2> QED BY <1>1, <2>1
<1> QED BY <1>2, <1>3, <1>4, <1>5, Steps

\* How a caller comes to wait, and past the wait.
LEMMA LeaveEffects ==
  ASSUME Types, NEW t \in Callers, Call(t) \/ Step(t) \/ wait_spurious(t)
  PROVE  /\ place'[t] \in InWait => place[t] \in InWait \/ ~m_stopWait'
         /\ place'[t] \in AfterWait =>
              \/ place[t] \in AfterWait
              \/ place[t] \in InWait /\ (Live = {} \/ m_stopWait) /\ m_sessions' = Live
              \/ m_serverState = "stopped"
         /\ m_serverState' = "stopped" => m_serverState = "stopped" \/ place[t] = "stopped"
<1> USE DEF callers, registry, drain, engine, sessions, Types, InWait, AfterWait
<1>1. CASE start(t)
  BY <1>1 DEF start, Goto, Returns
<1>2. CASE broadcast_text(t)
  BY <1>2 DEF broadcast_text, Returns
<1>3. CASE stop(t)
  BY <1>3 DEF stop, Goto, Returns
<1>4. CASE start_accepting(t)
  BY <1>4 DEF start_accepting, Goto
<1>5. CASE start_io_threads(t)
  BY <1>5 DEF start_io_threads, Goto
<1>6. CASE start_return(t)
  BY <1>6 DEF start_return, Returns
<1>7. CASE stop_accepting(t)
  BY <1>7 DEF stop_accepting, Goto
<1>8. CASE stop_active_sessions(t)
  BY <1>8 DEF stop_active_sessions, Goto
<1>9. CASE close_live_sessions(t)
  BY <1>9 DEF close_live_sessions, Goto
<1>10. CASE start_wait_timer(t)
  BY <1>10 DEF start_wait_timer, Goto
<1>11. CASE wait_for_sessions_stop(t)
  BY <1>11 DEF wait_for_sessions_stop, Goto, WaitOver
<1>12. CASE wait_sleep(t)
  BY <1>12 DEF wait_sleep, Goto
<1>13. CASE cancel_wait_timer(t)
  BY <1>13 DEF cancel_wait_timer, Goto
<1>14. CASE stop_io(t)
  BY <1>14 DEF stop_io, Goto
<1>15. CASE join_io_threads(t)
  BY <1>15 DEF join_io_threads, Goto
<1>16. CASE stop_return(t)
  BY <1>16 DEF stop_return, Returns
<1>17. CASE wait_spurious(t)
  BY <1>17 DEF wait_spurious
<1> QED BY <1>1, <1>2, <1>3, <1>4, <1>5, <1>6, <1>7, <1>8, <1>9, Zenon,
        <1>10, <1>11, <1>12, <1>13, <1>14, <1>15, <1>16, <1>17 DEF Call, Step

\* stop() leaves its wait, or finds the server stopped, only with every session told.
LEMMA CoversKept ==
  ASSUME Inv, [ServerNext]_serverVars
  PROVE  WaitCovers'
<1>0. Types /\ JoinedIsQuiet /\ WaitCovers
  BY DEF Inv
<1>1. ASSUME NEW t \in Callers, place[t] \in InWait \cup AfterWait, Covered PROVE Covered'
  BY <1>1, CoveredStays
<1>2. ASSUME ioStopped, NotBusy, Covered PROVE Covered'
  BY <1>2, CoveredStays
<1>3. ASSUME NEW t \in Callers, Call(t) \/ Step(t) \/ wait_spurious(t) PROVE WaitCovers'
  <2>1. /\ UNCHANGED <<cfg, session>> /\ timer'.stored = timer.stored /\ timer'.closed = timer.closed
        /\ ioStopped => ioStopped'
        /\ m_stopWait' => m_stopWait
        /\ \E p \in Places : place' = [place EXCEPT ![t] = p]
    BY <1>0, <1>3, CallerEffects
  <2>2. NotBusy' <=> NotBusy
    BY <2>1 DEF NotBusy, InHandler
  <2>3. /\ place'[t] \in InWait => place[t] \in InWait \/ ~m_stopWait'
        /\ place'[t] \in AfterWait =>
              \/ place[t] \in AfterWait
              \/ place[t] \in InWait /\ (Live = {} \/ m_stopWait) /\ m_sessions' = Live
              \/ m_serverState = "stopped"
        /\ m_serverState' = "stopped" => m_serverState = "stopped" \/ place[t] = "stopped"
    BY <1>0, <1>3, LeaveEffects
  <2>4. ASSUME m_stopWait', NEW u \in Callers, place'[u] \in InWait PROVE Covered'
    <3>1. place[u] \in InWait
      BY <1>0, <2>1, <2>3, <2>4 DEF Types
    <3> QED BY <1>0, <1>1, <2>1, <2>4, <3>1 DEF WaitCovers
  <2>5. ASSUME ~cfg.executor, NEW u \in Callers, place'[u] \in AfterWait PROVE Covered'
    <3>1. \/ place[u] \in AfterWait
          \/ place[u] \in InWait /\ (Live = {} \/ m_stopWait) /\ m_sessions' = Live
          \/ m_serverState = "stopped"
      BY <1>0, <2>1, <2>3, <2>5 DEF Types
    <3>2. CASE place[u] \in AfterWait
      BY <1>0, <1>1, <2>5, <3>2 DEF WaitCovers, AfterWait
    <3>3. CASE place[u] \in InWait /\ m_stopWait
      BY <1>0, <1>1, <3>3 DEF WaitCovers
    <3>4. CASE Live = {} /\ m_sessions' = Live
      BY <2>1, <3>4 DEF Covered, Live
    <3>5. CASE m_serverState = "stopped"
      BY <1>0, <1>2, <2>5, <3>5 DEF WaitCovers
    <3> QED BY <3>1, <3>2, <3>3, <3>4, <3>5
  <2>6. ASSUME ~cfg.executor, m_serverState' = "stopped" PROVE ioStopped' /\ NotBusy' /\ Covered'
    <3>1. ioStopped /\ NotBusy /\ Covered
      <4>1. CASE m_serverState = "stopped"
        BY <1>0, <2>6, <4>1 DEF WaitCovers
      <4>2. CASE place[t] = "stopped"
        BY <1>0, <2>6, <4>2 DEF WaitCovers, JoinedIsQuiet, AfterWait
      <4> QED BY <2>3, <2>6, <4>1, <4>2
    <3> QED BY <1>2, <2>1, <2>2, <3>1
  <2> QED BY <2>1, <2>4, <2>5, <2>6 DEF WaitCovers, AfterWait
<1>4. CASE TimerAction \/ \E c \in Clients : SessionAction(c)
  <2>1. UNCHANGED <<cfg, ioStopped, m_serverState>> /\ place' \in {place, Woken}
    BY <1>0, <1>4, TimerEffects, SessionEffects
  <2>2. ~(ioStopped /\ NotBusy)
    BY <1>0, <1>4, QuietEnds
  <2>3. \A t \in Callers : (place'[t] \in InWait => place[t] \in InWait)
                         /\ (place'[t] \in AfterWait => place[t] \in AfterWait)
    BY <1>0, <2>1 DEF Woken, InWait, AfterWait, Types
  <2>4. ~cfg.executor => m_serverState # "stopped"
    BY <1>0, <2>2 DEF WaitCovers
  <2>5. ASSUME m_stopWait', NEW t \in Callers, place'[t] \in InWait PROVE Covered'
    <3>1. CASE m_stopWait
      BY <1>0, <1>1, <2>3, <2>5, <3>1 DEF WaitCovers
    <3>2. CASE ~m_stopWait
      <4>1. CASE on_wait_timer_timeout
        <5>1. timer'.stored > 0
          BY <1>0, <4>1, TimeoutCounts DEF Types
        <5> QED BY <5>1 DEF Covered
      <4>2. CASE TimerAction /\ ~on_wait_timer_timeout
        BY <2>5, <3>2, <4>2, Zenon DEF TimerAction, accept_error, close_forcefully, timeout_notify, drain
      <4>3. CASE \E c \in Clients : SessionAction(c)
        BY <1>0, <2>5, <3>2, <4>3, SessionEffects, Zenon DEF drain
      <4> QED BY <1>4, <4>1, <4>2, <4>3
    <3> QED BY <3>1, <3>2
  <2>6. ASSUME ~cfg.executor, NEW t \in Callers, place'[t] \in AfterWait PROVE Covered'
    BY <1>0, <1>1, <2>3, <2>6 DEF WaitCovers, AfterWait
  <2> QED BY <2>1, <2>4, <2>5, <2>6 DEF WaitCovers, AfterWait
<1>5. CASE UNCHANGED serverVars
  <2>1. Covered' <=> Covered
    BY <1>5 DEF serverVars, registry, drain, sessions, Covered, Live, Expired
  <2>2. NotBusy' <=> NotBusy
    BY <1>5 DEF serverVars, drain, sessions, NotBusy, InHandler
  <2> QED BY <1>0, <1>5, <2>1, <2>2 DEF serverVars, callers, registry, drain, engine, WaitCovers
<1> QED BY <1>3, <1>4, <1>5, Steps

\* The invariant behind the theorems below, for any callers, clients and io threads.
THEOREM ServerInvariant == ServerSpec => []Inv
<1>1. Inv /\ [ServerNext]_serverVars => Inv'
  <2> SUFFICES ASSUME Inv, [ServerNext]_serverVars PROVE Inv'
    OBVIOUS
  <2>1. Types'
    <3>1. Types
      BY DEF Inv
    <3>2. CASE UNCHANGED serverVars
      BY <3>1, <3>2 DEF serverVars, callers, registry, drain, engine, sessions, Types
    <3> QED BY <3>1, <3>2, Steps, CallerEffects, SessionEffects, TimerEffects
  <2> QED BY <2>1, ListedKept, TestKept, AdmittedKept, JoinedKept, CoversKept, WakeKept DEF Inv
<1> QED BY InitInv, <1>1, PTL DEF ServerSpec

\* stop() does not sleep on once its wait is over: a notification is on its way.
THEOREM StopIsWoken == ServerSpec => []NoLostStopWake
<1>1. Inv => NoLostStopWake
  BY DEF Inv
<1> QED BY <1>1, ServerInvariant, PTL

\* After the join of the engine's own threads no handler runs.
THEOREM StoppedIsQuiet == ServerSpec => []StoppedMeansQuiet
<1>1. Inv => StoppedMeansQuiet
  BY BusyZero DEF Inv, JoinedIsQuiet, StoppedMeansQuiet
<1> QED BY <1>1, ServerInvariant, PTL

\* Every session open after that join was told to close or came too late for the list.
THEOREM SessionsAreTold == ServerSpec => []StopTellsSessions
<1>1. Inv => StopTellsSessions
  BY DEF Inv, JoinedIsQuiet, WaitCovers, AfterWait, Covered, NotBusy, Live, StopTellsSessions
<1> QED BY <1>1, ServerInvariant, PTL

\* A message is handled only for a client the application admitted, which it does only
\* with a middleware, good credentials and a served endpoint.
THEOREM OnlyKnownAreHandled == ServerSpec => []HandledAreKnown
<1>1. ASSUME NEW c PROVE Admitted(c) => /\ cfg.app.m_middleware /\ cfg.request[c].credentials = "good"
                                        /\ handle_accept(cfg.app, cfg.request[c]).accept
  BY DEF Admitted, handle_auth, reject_on_auth_failure, Accepted, Rejected
<1>2. Inv => HandledAreKnown
  BY <1>1 DEF Inv, OpenIsAdmitted, Admitted, HandledAreKnown
<1> QED BY <1>2, ServerInvariant, PTL
-----------------------------------------------------------------------------
\* The inductive invariant: each of its parts needs the others, since the limit
\* is enforced on the counters, the counters count the places connections are in,
\* and a connection that breaks must be in a lease.
ConnInv == TypeOK /\ CountersExact /\ WithinLimit /\ OnePlace /\ IdleAreOpen

\* The rest of the state, on which none of these properties depend.
ConnControl ==
  /\ m_shutdown' \in BOOLEAN /\ poolAlive' \in BOOLEAN
  /\ at' \in [Threads -> {"idle", "asleep", "woken", "expired"}]
  /\ call' \in [Threads -> {"acquire", "try_acquire_for"}]

\* A sequence without its last element, and that element.
Front(s) == SubSeq(s, 1, Len(s) - 1)
Last(s)  == s[Len(s)]

\* The last element of a sequence and what precedes it.
LEMMA FrontLast ==
  ASSUME NEW S, NEW s \in Seq(S), s # <<>>
  PROVE  /\ Len(s) \in Nat \ {0} /\ Last(s) \in S /\ Last(s) = s[Len(s)]
         /\ Front(s) \in Seq(S) /\ Len(Front(s)) = Len(s) - 1
         /\ \A i \in 1..(Len(s) - 1) : Front(s)[i] = s[i]
<1>1. Len(s) \in Nat \ {0} /\ \A i \in 1..Len(s) : s[i] \in S
  BY ElementOfSeq, LenProperties, EmptySeq
<1> DEFINE f == SubSeq(s, 1, Len(s) - 1)
<1>2. 1 \in Int /\ Len(s) - 1 \in Int /\ \A i \in 1..(Len(s) - 1) : s[i] \in S
  BY <1>1
<1>3. f \in Seq(S) /\ Len(f) = Len(s) - 1
  <2>1. f \in Seq(S)
    BY <1>2, SubSeqProperties
  <2>2. Len(f) = IF 1 <= Len(s) - 1 THEN (Len(s) - 1) - 1 + 1 ELSE 0
    BY <1>2, SubSeqProperties
  <2> HIDE DEF f
  <2>3. \A n \in Nat \ {0} : (1 <= n - 1 => (n - 1) - 1 + 1 = n - 1) /\ (~(1 <= n - 1) => n - 1 = 0)
    OBVIOUS
  <2> QED
    BY <1>1, <2>1, <2>2, <2>3, Zenon
<1>4. ASSUME NEW i \in 1..(Len(s) - 1) PROVE f[i] = s[i]
  <2>1. i \in 1..((Len(s) - 1) - 1 + 1)
    BY <1>1
  <2>2. f[i] = s[1 + i - 1]
    BY <1>2, <2>1, SubSeqProperties
  <2>3. 1 + i - 1 = i
    OBVIOUS
  <2> QED
    BY <2>2, <2>3
<1>5. Front(s) = f /\ Last(s) = s[Len(s)]
  BY DEF Front, Last
<1> HIDE DEF f
<1> QED
  BY <1>1, <1>3, <1>4, <1>5

\* Counting leases: one more when a free connection is leased, one less when a
\* leased one is given back, the same when a lease moves.
LEMMA LeaseCount ==
  ASSUME TypeOK, NEW c \in Conns, NEW t \in Threads \cup {Nobody},
         owner' = [owner EXCEPT ![c] = t]
  PROVE  /\ Cardinality(Leased) \in Nat /\ IsFiniteSet(Leased)
         /\ owner[c] = Nobody /\ t # Nobody => Cardinality(Leased') = Cardinality(Leased) + 1
         /\ owner[c] # Nobody /\ t = Nobody =>
              /\ Cardinality(Leased') = Cardinality(Leased) - 1
              /\ Leased' = Leased \ {c} /\ Cardinality(Leased) > 0
         /\ owner[c] # Nobody /\ t # Nobody => Leased' = Leased
<1>1. IsFiniteSet(Leased) /\ Cardinality(Leased) \in Nat
  BY PoolAssumption, FS_Subset, FS_CardinalityType DEF PoolAssumption, Leased
<1>2. Leased' = IF t = Nobody THEN Leased \ {c} ELSE Leased \cup {c}
  BY DEF Leased, TypeOK
<1>3. c \in Leased <=> owner[c] # Nobody
  BY DEF Leased
<1>4. c \in Leased => Cardinality(Leased) > 0
  BY <1>1, FS_EmptySet
<1>5. /\ Cardinality(Leased \cup {c}) =
           IF c \in Leased THEN Cardinality(Leased) ELSE Cardinality(Leased) + 1
      /\ Cardinality(Leased \ {c}) =
           IF c \in Leased THEN Cardinality(Leased) - 1 ELSE Cardinality(Leased)
  BY <1>1, FS_AddElement, FS_RemoveElement, Zenon
<1>6. c \in Leased => Leased \cup {c} = Leased
  OBVIOUS
<1> QED
  BY <1>1, <1>2, <1>3, <1>4, <1>5, <1>6

\* take_connection_locked keeps the invariant, whether it hands out an idle
\* connection, creates one or fails to.
LEMMA TakeKeepsInv ==
  ASSUME ConnInv, NEW t \in Threads, take_connection_locked(t), ConnControl
  PROVE  ConnInv'
<1> USE PoolAssumption DEF PoolAssumption
<1>1. CASE idle_connections > 0 /\ connections' = Popped
  <2> DEFINE c == Last(connections)
             n == Len(connections)
  <2>1. connections # <<>> /\ n = idle_connections /\ n \in Nat
    BY <1>1, EmptySeq, LenProperties DEF ConnInv, TypeOK, CountersExact
  <2>2. /\ c \in Conns /\ c = connections[n] /\ connections' \in Seq(Conns)
        /\ Len(connections') = n - 1
        /\ \A i \in 1..(n - 1) : connections'[i] = connections[i]
    BY <1>1, <2>1, FrontLast DEF ConnInv, TypeOK, Popped, Front
  <2>3. /\ idle_connections' = idle_connections - 1
        /\ active_connections' = active_connections + 1
        /\ owner' = [owner EXCEPT ![c] = t] /\ open' = open
    BY <1>1 DEF take_connection_locked, ConnInv, TypeOK, Last
  <2> HIDE DEF c
  <2>4. owner[c] = Nobody
    BY <2>1, <2>2, LenProperties DEF ConnInv, OnePlace, TypeOK
  <2>5. TypeOK'
    BY <1>1, <2>2, <2>3 DEF ConnInv, TypeOK, ConnControl
  <2>6. CountersExact'
    BY <2>1, <2>2, <2>3, <2>4, LeaseCount, Zenon DEF ConnInv, CountersExact
  <2>7. WithinLimit'
    BY <2>3 DEF ConnInv, WithinLimit, TypeOK
  <2>8. DOMAIN connections = 1..n /\ DOMAIN connections' = 1..(n - 1)
    BY <2>2, <2>5, LenProperties DEF ConnInv, TypeOK
  <2>9. OnePlace'
    <3>1. \A i \in 1..(n - 1) : connections[i] # c /\ connections[i] \in Conns
      BY <2>1, <2>2, <2>8, ElementOfSeq DEF ConnInv, OnePlace, TypeOK
    <3>2. \A i \in 1..(n - 1) : i \in 1..n
      BY <2>1
    <3>3. ASSUME NEW i \in 1..(n - 1), NEW j \in 1..(n - 1), connections'[i] = connections'[j]
          PROVE  i = j
      BY <2>2, <2>8, <3>2, <3>3, Zenon DEF ConnInv, OnePlace
    <3>4. ASSUME NEW i \in 1..(n - 1) PROVE owner'[connections'[i]] = Nobody
      <4>1. connections'[i] = connections[i] /\ owner[connections[i]] = Nobody
        BY <2>2, <2>8, <3>2 DEF ConnInv, OnePlace
      <4> QED
        BY <2>3, <3>1, <4>1 DEF ConnInv, TypeOK
    <3> QED
      BY <2>8, <3>3, <3>4 DEF OnePlace
  <2>10. IdleAreOpen'
    BY <2>1, <2>2, <2>3, <2>8 DEF ConnInv, IdleAreOpen
  <2> QED
    BY <2>5, <2>6, <2>7, <2>9, <2>10 DEF ConnInv
<1>2. CASE init_new_connection_locked(t)
  <2>1. CASE UNCHANGED <<connections, idle_connections, owner, open, active_connections>>
    BY <2>1 DEF ConnInv, TypeOK, CountersExact, WithinLimit, OnePlace, IdleAreOpen, Leased, ConnControl
  <2>2. ASSUME NEW c \in Conns,
               owner[c] = Nobody /\ c \notin Range(connections),
               owner' = [owner EXCEPT ![c] = t],
               open' = open \cup {c},
               active_connections' = active_connections + 1
        PROVE  ConnInv'
    <3>1. UNCHANGED <<connections, idle_connections>> /\ can_create_connection_locked
      BY <1>2 DEF init_new_connection_locked
    <3>2. TypeOK'
      BY <2>2, <3>1 DEF ConnInv, TypeOK, ConnControl
    <3>3. CountersExact'
      BY <2>2, <3>1, LeaseCount, Zenon DEF ConnInv, CountersExact
    <3>4. WithinLimit'
      BY <2>2, <3>1 DEF ConnInv, WithinLimit, TypeOK, can_create_connection_locked
    <3>5. \A i \in DOMAIN connections : connections[i] # c /\ connections[i] \in Conns
      BY <2>2, ElementOfSeq, LenProperties DEF Range, ConnInv, TypeOK
    <3>6. OnePlace'
      BY <2>2, <3>1, <3>5 DEF ConnInv, OnePlace, TypeOK
    <3>7. IdleAreOpen'
      BY <2>2, <3>1 DEF ConnInv, IdleAreOpen
    <3> QED
      BY <3>2, <3>3, <3>4, <3>6, <3>7 DEF ConnInv
  <2> QED
    BY <1>2, <2>1, <2>2 DEF init_new_connection_locked
<1> QED
  BY <1>1, <1>2 DEF take_connection_locked

\* So does return_connection, whether the connection goes back to the idle list
\* or is dropped because it is no longer open.
LEMMA ReturnKeepsInv ==
  ASSUME ConnInv, NEW t \in Threads, NEW c \in Conns, return_connection(t, c), ConnControl
  PROVE  ConnInv'
<1> DEFINE n == Len(connections)
<1> USE PoolAssumption DEF PoolAssumption
<1>1. /\ owner[c] = t /\ owner[c] # Nobody /\ owner' = [owner EXCEPT ![c] = Nobody]
      /\ active_connections' = active_connections - 1 /\ open' = open
  BY DEF return_connection, ActiveAfter
<1>2. /\ active_connections > 0 /\ active_connections' = Cardinality(Leased')
      /\ active_connections' \in Nat
  <2>1. /\ Cardinality(Leased') = Cardinality(Leased) - 1 /\ Cardinality(Leased) > 0
        /\ Cardinality(Leased) \in Nat
    <3>1. TypeOK /\ Nobody \in Threads \cup {Nobody}
      BY DEF ConnInv
    <3> QED
      BY <1>1, <3>1, LeaseCount, Zenon
  <2> QED
    BY <1>1, <2>1 DEF ConnInv, CountersExact
<1>3. CASE /\ c \in open /\ connections' = Append(connections, c)
           /\ idle_connections' = idle_connections + 1
  <2>1. /\ connections' \in Seq(Conns) /\ Len(connections') = n + 1
        /\ \A i \in 1..n : connections'[i] = connections[i]
        /\ connections'[n + 1] = c /\ n \in Nat
    BY <1>3, AppendProperties, LenProperties, SMTT(30) DEF ConnInv, TypeOK
  <2>2. DOMAIN connections = 1..n /\ DOMAIN connections' = 1..(n + 1)
    BY <2>1, LenProperties DEF ConnInv, TypeOK
  <2>3. \A i \in 1..n : connections[i] # c /\ connections[i] \in Conns
    BY <1>1, <2>2, ElementOfSeq, SMTT(30) DEF ConnInv, OnePlace, TypeOK
  <2>4. TypeOK'
    <3>1. idle_connections' \in Nat /\ open' \subseteq Conns
      BY <1>1, <1>3 DEF ConnInv, TypeOK
    <3>2. owner' \in [Conns -> Threads \cup {Nobody}]
      BY <1>1 DEF ConnInv, TypeOK
    <3> QED
      BY <1>2, <2>1, <3>1, <3>2, Zenon DEF TypeOK, ConnControl
  <2>5. CountersExact' /\ WithinLimit'
    BY <1>1, <1>2, <1>3, <2>1, SMTT(30) DEF ConnInv, CountersExact, WithinLimit, TypeOK
  <2>6. OnePlace'
    <3>1. \A i \in 1..(n + 1) : i = n + 1 \/ i \in 1..n
      BY <2>1
    <3>2. \A i \in 1..(n + 1) : owner'[connections'[i]] = Nobody
      <4>1. /\ owner'[c] = Nobody /\ \A d \in Conns : d # c => owner'[d] = owner[d]
            /\ \A i \in 1..n : owner[connections[i]] = Nobody
        BY <1>1, <2>2 DEF ConnInv, OnePlace, TypeOK
      <4>2. \A i \in 1..n : owner'[connections'[i]] = Nobody
        BY <2>1, <2>3, <4>1
      <4> QED BY <2>1, <3>1, <4>1, <4>2
    <3>3. \A i, j \in 1..(n + 1) : connections'[i] = connections'[j] => i = j
      BY <2>1, <2>2, <2>3, <3>1 DEF ConnInv, OnePlace
    <3> QED
      BY <2>2, <3>2, <3>3 DEF OnePlace
  <2>7. IdleAreOpen'
    BY <1>1, <1>3, <2>1, <2>2 DEF ConnInv, IdleAreOpen
  <2> QED
    BY <2>4, <2>5, <2>6, <2>7 DEF ConnInv
<1>4. CASE UNCHANGED <<connections, idle_connections>>
  <2>1. TypeOK'
    BY <1>1, <1>2, <1>4 DEF ConnInv, TypeOK, ConnControl
  <2>2. CountersExact' /\ WithinLimit'
    BY <1>1, <1>2, <1>4 DEF ConnInv, CountersExact, WithinLimit, TypeOK
  <2>3. OnePlace'
    BY <1>1, <1>4, ElementOfSeq, LenProperties DEF ConnInv, OnePlace, TypeOK
  <2>4. IdleAreOpen'
    BY <1>1, <1>4 DEF ConnInv, IdleAreOpen
  <2> QED
    BY <2>1, <2>2, <2>3, <2>4 DEF ConnInv
<1> QED
  BY <1>3, <1>4 DEF return_connection, Reusable

\* Every step leaves the threads at points of their calls.
LEMMA ControlStep ==
  ASSUME TypeOK, [Next \/ Ended]_vars PROVE ConnControl
<1> USE DEF ConnControl, TypeOK
<1>1. CASE UNCHANGED vars
  BY <1>1 DEF vars
<1>2. ASSUME NEW t \in Threads, NEW k \in {"acquire", "try_acquire_for"}, acquire(t, k)
      PROVE  ConnControl
  BY <1>2 DEF acquire, take_connection_locked, init_new_connection_locked, Wait
<1>3. ASSUME NEW t \in Threads, acquire_resume(t) PROVE ConnControl
  BY <1>3 DEF acquire_resume, take_connection_locked, init_new_connection_locked, Wait
<1>4. ASSUME NEW t \in Threads, wake_spurious(t) \/ wake_expired(t) PROVE ConnControl
  BY <1>4 DEF wake_spurious, wake_expired
<1>5. ASSUME NEW t \in Threads, NEW c \in Conns, return_connection(t, c) PROVE ConnControl
  BY <1>5 DEF return_connection, notify_one, Sleepers, LastReference
<1>6. ASSUME NEW t \in Threads, NEW c \in Conns, NEW u \in Threads,
             mark_broken(t, c) \/ move_lease(t, c, u)
      PROVE  ConnControl
  BY <1>6 DEF mark_broken, move_lease
<1>7. ASSUME destroy_pool PROVE ConnControl
  BY <1>7, Zenon DEF destroy_pool, LastReference
<1> QED
  BY <1>1, <1>2, <1>3, <1>4, <1>5, <1>6, <1>7 DEF Next, Ended

\* Every step keeps the invariant.
LEMMA ConnInvStep ==
  ASSUME ConnInv, [Next \/ Ended]_vars PROVE ConnInv'
<1>1. ConnControl
  BY ControlStep DEF ConnInv
<1>2. ASSUME UNCHANGED <<connections, idle_connections, owner, open, active_connections>>
      PROVE  ConnInv'
  BY <1>1, <1>2
  DEF ConnInv, TypeOK, CountersExact, WithinLimit, OnePlace, IdleAreOpen, Leased, ConnControl
<1>3. CASE UNCHANGED vars
  BY <1>2, <1>3 DEF vars
<1>4. ASSUME NEW t \in Threads, NEW k \in {"acquire", "try_acquire_for"}, acquire(t, k)
      PROVE  ConnInv'
  BY <1>1, <1>2, <1>4, TakeKeepsInv DEF acquire, Wait
<1>5. ASSUME NEW t \in Threads, acquire_resume(t) PROVE ConnInv'
  BY <1>1, <1>2, <1>5, TakeKeepsInv DEF acquire_resume, Wait
<1>6. ASSUME NEW t \in Threads, wake_spurious(t) \/ wake_expired(t) PROVE ConnInv'
  BY <1>2, <1>6 DEF wake_spurious, wake_expired
<1>7. ASSUME NEW t \in Threads, NEW c \in Conns, return_connection(t, c) PROVE ConnInv'
  BY <1>1, <1>7, ReturnKeepsInv
<1>8. ASSUME NEW t \in Threads, NEW c \in Conns, mark_broken(t, c) PROVE ConnInv'
  <2>1. /\ UNCHANGED <<connections, idle_connections, owner, active_connections>>
        /\ open' = open \ {c} /\ owner[c] # Nobody
    BY <1>8, PoolAssumption DEF mark_broken, PoolAssumption
  <2>2. TypeOK' /\ CountersExact' /\ WithinLimit' /\ OnePlace'
    BY <1>1, <2>1 DEF ConnInv, TypeOK, CountersExact, WithinLimit, OnePlace, Leased, ConnControl
  <2>3. IdleAreOpen'
    BY <2>1 DEF ConnInv, IdleAreOpen, OnePlace
  <2> QED
    BY <2>2, <2>3 DEF ConnInv
<1>9. ASSUME NEW t \in Threads, NEW c \in Conns, NEW u \in Threads, move_lease(t, c, u)
      PROVE  ConnInv'
  <2>1. /\ UNCHANGED <<connections, idle_connections, active_connections, open>>
        /\ owner[c] # Nobody /\ u # Nobody /\ owner' = [owner EXCEPT ![c] = u]
    BY <1>9, PoolAssumption DEF move_lease, PoolAssumption
  <2>2. Leased' = Leased
    BY <2>1, LeaseCount, Zenon DEF ConnInv
  <2>3. TypeOK' /\ CountersExact' /\ WithinLimit' /\ IdleAreOpen'
    BY <1>1, <2>1, <2>2 DEF ConnInv, TypeOK, CountersExact, WithinLimit, IdleAreOpen, ConnControl
  <2>4. \A i \in DOMAIN connections : connections[i] # c /\ connections[i] \in Conns
    BY <2>1, ElementOfSeq, LenProperties DEF ConnInv, OnePlace, TypeOK
  <2>5. OnePlace'
    BY <2>1, <2>4 DEF ConnInv, OnePlace, TypeOK
  <2> QED
    BY <2>3, <2>5 DEF ConnInv
<1>10. CASE destroy_pool
  BY <1>2, <1>10 DEF destroy_pool
<1> QED
  BY <1>3, <1>4, <1>5, <1>6, <1>7, <1>8, <1>9, <1>10 DEF Next, Ended

\* The invariant holds in every reachable state.
THEOREM ConnInvariant == Spec => []ConnInv
<1>1. Init => ConnInv
  <2> SUFFICES ASSUME Init PROVE ConnInv
    OBVIOUS
  <2> USE PoolAssumption DEF PoolAssumption
  <2>1. Leased = {} /\ Cardinality({}) = 0
    BY FS_EmptySet DEF Init, Leased
  <2>2. connections = <<>> /\ Len(connections) = 0 /\ DOMAIN connections = {}
    BY EmptySeq DEF Init
  <2>3. connections \in Seq(Conns)
    BY <2>2, EmptySeq
  <2>4. TypeOK
    BY <2>3, Zenon DEF Init, TypeOK
  <2>5. CountersExact /\ WithinLimit
    BY <2>1, <2>2 DEF Init, CountersExact, WithinLimit
  <2>6. OnePlace /\ IdleAreOpen
    BY <2>2 DEF OnePlace, IdleAreOpen
  <2> QED
    BY <2>4, <2>5, <2>6 DEF ConnInv
<1> QED
  BY <1>1, ConnInvStep, PTL DEF Spec

\* PoolState's variables keep their types; in particular the unsigned counters,
\* which return_connection decrements unconditionally, do not wrap.
THEOREM ConnTypeCorrect == Spec => []TypeOK
BY ConnInvariant, PTL DEF ConnInv

\* active_count() and idle_count() are exact.
THEOREM CountersCorrect == Spec => []CountersExact
BY ConnInvariant, PTL DEF ConnInv

\* max_connections is never exceeded.
THEOREM LimitRespected == Spec => []WithinLimit
BY ConnInvariant, PTL DEF ConnInv

\* No connection is leased twice, or leased while it is idle.
THEOREM LeasesExclusive == Spec => []OnePlace
BY ConnInvariant, PTL DEF ConnInv

\* No connection that was marked broken is ever idle again.
THEOREM BrokenNotReused == Spec => []IdleAreOpen
BY ConnInvariant, PTL DEF ConnInv
-----------------------------------------------------------------------------
\* With the ConnectionPool object gone nobody is in acquire, and m_shutdown needs
\* every lease to be gone as well.
ConnLifetime ==
  /\ ~poolAlive => \A t \in Threads : at[t] = "idle"
  /\ m_shutdown => ~poolAlive /\ Leased = {}

\* No step changes that.
LEMMA ConnLifetimeStep ==
  ASSUME TypeOK, ConnLifetime, [Next \/ Ended]_vars PROVE ConnLifetime'
<1> USE PoolAssumption DEF PoolAssumption, ConnLifetime, TypeOK
<1>1. CASE UNCHANGED vars
  BY <1>1 DEF vars, Leased
<1>2. ASSUME NEW t \in Threads, NEW k, acquire(t, k) \/ acquire_resume(t) PROVE ConnLifetime'
  <2>1. poolAlive /\ poolAlive' /\ ~m_shutdown'
    BY <1>2 DEF acquire, acquire_resume
  <2> QED
    BY <2>1
<1>3. ASSUME NEW t \in Threads, wake_spurious(t) \/ wake_expired(t) PROVE ConnLifetime'
  <2>1. poolAlive /\ poolAlive' /\ ~m_shutdown'
    BY <1>3 DEF wake_spurious, wake_expired
  <2> QED
    BY <2>1
<1>4. ASSUME NEW t \in Threads, NEW c \in Conns, return_connection(t, c) PROVE ConnLifetime'
  <2>1. Leased' = Leased \ {c}
    BY <1>4 DEF return_connection, Leased
  <2>2. ~poolAlive => Sleepers = {}
    BY DEF Sleepers
  <2> QED
    BY <1>4, <2>1, <2>2 DEF return_connection, LastReference, notify_one
<1>5. ASSUME NEW t \in Threads, NEW c \in Conns, mark_broken(t, c) PROVE ConnLifetime'
  BY <1>5 DEF mark_broken, Leased
<1>6. ASSUME NEW t \in Threads, NEW c \in Conns, NEW u \in Threads, move_lease(t, c, u)
      PROVE  ConnLifetime'
  <2>1. c \in Leased
    BY <1>6 DEF move_lease, Leased
  <2> QED
    BY <1>6, <2>1 DEF move_lease
<1>7. CASE destroy_pool
  BY <1>7 DEF destroy_pool, LastReference, Leased
<1> QED
  BY <1>1, <1>2, <1>3, <1>4, <1>5, <1>6, <1>7, Zenon DEF Next, Ended

\* The branches of PoolState that test m_shutdown are never taken: no thread can
\* be in acquire, and no lease can be returned, once it is set.
THEOREM ShutdownNeverSeen == Spec => []ShutdownUnobserved
<1>1. Init => ConnLifetime
  BY DEF Init, ConnLifetime
<1>2. ConnLifetime => ShutdownUnobserved
  BY DEF ConnLifetime, ShutdownUnobserved, Sleepers, Waking
<1> QED
  BY <1>1, <1>2, ConnLifetimeStep, ConnTypeCorrect, PTL DEF Spec
-----------------------------------------------------------------------------
\* What a step does to the waiting threads when creating a connection succeeds:
\* every slot is taken, nobody sleeps, or each slot freed adds a waking thread and
\* each waking thread that stops being one has taken a slot.
WakeStep ==
  \/ active_connections' = MaxConnections
  \/ Sleepers' = {}
  \/ /\ Sleepers' \subseteq Sleepers
     /\ \/ active_connections' >= active_connections /\ Waking \subseteq Waking'
        \/ active_connections' = active_connections + 1
           /\ \E t \in Threads : Waking \ {t} \subseteq Waking'
        \/ active_connections' = active_connections - 1
           /\ \E u \in Sleepers : Waking \cup {u} \subseteq Waking'

\* Every step is such a step.
LEMMA WakeEffects ==
  ASSUME CreateMayFail = FALSE, ConnInv, [Next \/ Ended]_vars PROVE WakeStep
<1> USE DEF Sleepers, Waking
<1>1. TypeOK /\ active_connections \in Nat /\ (connections = <<>> <=> idle_connections = 0)
  BY EmptySeq, LenProperties DEF ConnInv, TypeOK, CountersExact
<1>2. CASE UNCHANGED vars
  BY <1>1, <1>2 DEF WakeStep, vars
<1>3. ASSUME NEW t \in Threads, take_connection_locked(t), at[t] # "asleep" PROVE WakeStep
  <2>1. active_connections' = active_connections + 1 /\ at' = [at EXCEPT ![t] = "idle"]
    BY <1>3 DEF take_connection_locked, init_new_connection_locked
  <2>2. Sleepers' \subseteq Sleepers /\ Waking \ {t} \subseteq Waking'
    BY <1>1, <2>1 DEF TypeOK
  <2> QED
    BY <2>1, <2>2 DEF WakeStep
<1>4. ASSUME idle_connections = 0, ~can_create_connection_locked,
             UNCHANGED active_connections
      PROVE  active_connections' = MaxConnections
  BY <1>1, <1>4, PoolAssumption
  DEF can_create_connection_locked, PoolAssumption, ConnInv, WithinLimit, TypeOK
<1>5. ASSUME NEW t \in Threads, NEW k, acquire(t, k) PROVE WakeStep
  BY <1>3, <1>4, <1>5 DEF acquire, Wait, WakeStep
<1>6. ASSUME NEW t \in Threads, acquire_resume(t) PROVE WakeStep
  BY <1>1, <1>3, <1>4, <1>6 DEF acquire_resume, Available, Wait, WakeStep
<1>7. ASSUME NEW t \in Threads, wake_spurious(t) \/ wake_expired(t) PROVE WakeStep
  BY <1>1, <1>7 DEF wake_spurious, wake_expired, WakeStep, TypeOK
<1>8. ASSUME NEW t \in Threads, NEW c \in Conns, return_connection(t, c) PROVE WakeStep
  <2>1. active_connections' = active_connections - 1 /\ notify_one(at)
    BY <1>8 DEF return_connection, ActiveAfter
  <2>2. CASE Sleepers = {}
    BY <2>1, <2>2 DEF notify_one, WakeStep
  <2>3. CASE Sleepers # {}
    <3>1. PICK u \in Sleepers : at' = [at EXCEPT ![u] = "woken"]
      BY <2>1, <2>3 DEF notify_one
    <3>2. Sleepers' \subseteq Sleepers /\ Waking \cup {u} \subseteq Waking'
      BY <1>1, <3>1 DEF TypeOK
    <3> QED
      BY <2>1, <3>2 DEF WakeStep
  <2> QED
    BY <2>2, <2>3
<1>9. ASSUME UNCHANGED <<active_connections, at>> PROVE WakeStep
  BY <1>1, <1>9 DEF WakeStep
<1>10. ASSUME NEW t \in Threads, NEW c \in Conns,
              mark_broken(t, c) \/ \E u \in Threads : move_lease(t, c, u)
       PROVE  WakeStep
  BY <1>9, <1>10 DEF mark_broken, move_lease
<1>11. CASE destroy_pool
  BY <1>9, <1>11 DEF destroy_pool
<1> QED
  BY <1>2, <1>5, <1>6, <1>7, <1>8, <1>10, <1>11 DEF Next, Ended

\* notify_one, sent once for each returned connection, is enough: as long as the
\* Connection constructor does not throw, no free slot is left without a thread
\* on its way to it while another sleeps.
THEOREM NoWakeupLost ==
  ASSUME CreateMayFail = FALSE
  PROVE  Spec => []NoLostWakeup
<1>1. Init => NoLostWakeup
  BY DEF Init, NoLostWakeup, Sleepers
<1>2. ASSUME ConnInv, ConnInv', [Next \/ Ended]_vars, NoLostWakeup PROVE NoLostWakeup'
  <2> DEFINE W == Waking
             a == active_connections
  <2> SUFFICES ASSUME Sleepers' # {} PROVE MaxConnections - a' <= Cardinality(W')
    BY DEF NoLostWakeup
  <2>1. IsFiniteSet(W) /\ IsFiniteSet(W')
    BY FS_Subset, PoolAssumption DEF Waking, PoolAssumption
  <2>2. /\ a \in Nat /\ a' \in Nat /\ MaxConnections \in Nat
        /\ Cardinality(W) \in Nat /\ Cardinality(W') \in Nat
    BY <1>2, <2>1, FS_CardinalityType, PoolAssumption DEF ConnInv, TypeOK, PoolAssumption
  <2>3. WakeStep
    BY <1>2, WakeEffects, Zenon
  <2>4. CASE a' = MaxConnections
    BY <2>2, <2>4
  <2>5. CASE Sleepers' \subseteq Sleepers
    <3>1. MaxConnections - a <= Cardinality(W)
      BY <1>2, <2>5 DEF NoLostWakeup
    <3>2. CASE a' >= a /\ W \subseteq W'
      <4>1. Cardinality(W) <= Cardinality(W')
        BY <2>1, <3>2, FS_Subset
      <4> QED
        BY <2>2, <3>1, <3>2, <4>1
    <3>3. CASE a' = a + 1 /\ \E t \in Threads : W \ {t} \subseteq W'
      <4>1. PICK t \in Threads : W \ {t} \subseteq W'
        BY <3>3
      <4>2. Cardinality(W \ {t}) <= Cardinality(W') /\ Cardinality(W) - 1 <= Cardinality(W \ {t})
        BY <2>1, <2>2, <4>1, FS_Subset, FS_RemoveElement
      <4>3. Cardinality(W \ {t}) \in Nat
        BY <2>1, FS_RemoveElement, FS_CardinalityType, Zenon
      <4> QED
        BY <2>2, <3>1, <3>3, <4>2, <4>3
    <3>4. CASE a' = a - 1 /\ \E u \in Sleepers : W \cup {u} \subseteq W'
      <4>1. PICK u \in Sleepers : W \cup {u} \subseteq W'
        BY <3>4
      <4>2. u \notin W
        BY DEF Sleepers, Waking
      <4>3. Cardinality(W \cup {u}) = Cardinality(W) + 1
        BY <2>1, <4>2, FS_AddElement, Zenon
      <4>4. Cardinality(W \cup {u}) <= Cardinality(W')
        BY <2>1, <4>1, FS_Subset
      <4> QED
        BY <2>2, <3>1, <3>4, <4>3, <4>4
    <3> QED
      BY <2>3, <2>4, <3>2, <3>3, <3>4 DEF WakeStep
  <2> QED
    BY <2>3, <2>4, <2>5 DEF WakeStep
<1> QED
  BY <1>1, <1>2, ConnInvariant, PTL DEF Spec

\* All of the pool's bookkeeping invariants, for any threads, connections and limit,
\* and also when connecting fails.
THEOREM PoolIsSafe == Spec => []PoolSafe
BY ConnTypeCorrect, CountersCorrect, LimitRespected, LeasesExclusive, BrokenNotReused,
   ShutdownNeverSeen, PTL DEF PoolSafe
=============================================================================
