------------------------------- MODULE WsServer -------------------------------
(***************************************************************************)
(* ws/server/WsServer.hpp with its engine (WsEngine.hpp) and the           *)
(* application it serves (WsApp): starting, accepting, the list of         *)
(* sessions, and stopping.                                                 *)
(*                                                                         *)
(* The callers run start(), stop() and broadcasts; the io threads run the  *)
(* handlers of acceptor, sessions and timer, at most IoThreads at a time.  *)
(* A critical section of m_sessionMtx is one step, except that the thread  *)
(* that waits in stop() holds the mutex from its test to its sleep.        *)
(*                                                                         *)
(* session[c] is how far the connection of client c has come.  What a      *)
(* session does by itself is the module WsSession's; here it may close at  *)
(* any time, or end without a notice once it was told to shut down.        *)
(***************************************************************************)
EXTENDS WsApp, Sequences

CONSTANTS Callers, Clients,
          MaxSpurious,    \* how often a wait ends spuriously
          IoThreads,      \* compute_io_thread_count()
          Configs         \* the application, whether io runs on an executor, what the
                          \* clients that connect ask for and send, the callers' calls

ASSUME ServerAssumption ==
  IoThreads \in Nat \ {0} /\ MaxSpurious \in Nat /\ IsFiniteSet(Clients)

VARIABLES
  cfg,
  m_serverState, m_sessions, m_stopWait,
  m_sessionMtx,     \* the owner of the mutex, as a set of at most one caller
  m_idleTimer,      \* the drain timer is armed
  spurious,         \* spurious wake-ups so far
  place, calls,     \* place[t]: where in the call t is; calls[t]: the calls left to make
  m_stopRequested, acceptor, ioThreads, ioStopped,
  accepts,          \* async_accept operations that wait
  session,
  posted,           \* posted[c]: the closing handlers posted to the session
  draining,         \* sessions whose close_for_shutdown has run
  timer,            \* drain timer handlers: queued, stored and closed ones
  handled,          \* history: clients whose messages reached a handler
  late              \* history: sessions registered after stop() listed them

callers == <<place, calls, spurious>>
registry == <<m_serverState, m_sessions, m_sessionMtx>>
drain == <<m_stopWait, m_idleTimer, timer>>
engine == <<m_stopRequested, acceptor, ioThreads, ioStopped, accepts>>
sessions == <<session, posted, draining, handled, late>>
serverVars == <<cfg, callers, registry, drain, engine, sessions>>

ServerInit ==
  /\ cfg \in Configs
  /\ m_serverState = "init" /\ m_sessions = {} /\ m_sessionMtx = {}
  /\ m_stopWait = FALSE /\ m_idleTimer = FALSE
  /\ timer = [queued |-> 0, stored |-> 0, closed |-> 0]
  /\ place = [t \in Callers |-> "idle"] /\ calls = cfg.calls /\ spurious = 0
  /\ m_stopRequested = FALSE /\ acceptor = "open" /\ ioThreads = FALSE /\ ioStopped = FALSE
  /\ accepts = 0
  /\ session = [c \in Clients |-> "none"]
  /\ posted = [c \in Clients |-> {}] /\ draining = {} /\ handled = {} /\ late = {}
-----------------------------------------------------------------------------
Calls(t, name) == place[t] = "idle" /\ calls[t] # <<>> /\ Head(calls[t]) = name

Goto(t, p) == place' = [place EXCEPT ![t] = p] /\ UNCHANGED <<calls, spurious>>

Returns(t) ==
  /\ place' = [place EXCEPT ![t] = "idle"]
  /\ calls' = [calls EXCEPT ![t] = Tail(@)]
  /\ UNCHANGED spurious

Expired == {c \in Clients : session[c] \in {"gone", "lost"}}

\* The sessions remove_invalid_sessions_unlocked leaves.
Live == m_sessions \ Expired

\* Everybody who sleeps on m_cv, woken.
Woken == [t \in Callers |-> IF place[t] = "asleep" THEN "woken" ELSE place[t]]

\* The sessions whose handler an io thread is in, and all the handlers io threads are in.
InHandler == {c \in Clients : session[c] \in {"accepted", "opening", "closing", "unregistered"}}
Busy == Cardinality(InHandler) + timer.stored + timer.closed

\* An io thread is free to begin a handler.
IoFree == ioThreads /\ ~ioStopped /\ Busy < IoThreads
-----------------------------------------------------------------------------
\* start, and the engine's run
start(t) ==
  /\ Calls(t, "start") /\ m_sessionMtx = {}
  /\ IF m_serverState = "running" THEN Returns(t) ELSE Goto(t, "run")
  /\ UNCHANGED <<cfg, registry, drain, engine, sessions>>

start_accepting(t) ==
  /\ place[t] = "run"
  /\ m_stopRequested' = FALSE /\ accepts' = accepts + 1
  /\ Goto(t, "start_io_threads")
  /\ UNCHANGED <<cfg, registry, drain, acceptor, ioThreads, ioStopped, sessions>>

\* On threads of its own or on the executor's, they run until the io_context stops.
start_io_threads(t) ==
  /\ place[t] = "start_io_threads"
  /\ ioThreads' = TRUE
  /\ Goto(t, "started")
  /\ UNCHANGED <<cfg, registry, drain, m_stopRequested, acceptor, ioStopped, accepts,
                 sessions>>

start_return(t) ==
  /\ place[t] = "started" /\ m_sessionMtx = {}
  /\ m_serverState' = "running"
  /\ Returns(t)
  /\ UNCHANGED <<cfg, m_sessions, m_sessionMtx, drain, engine, sessions>>

\* broadcast_text and broadcast_binary; a session's send only posts.
broadcast_text(t) ==
  /\ Calls(t, "broadcast") /\ m_sessionMtx = {}
  /\ m_sessions' = IF m_serverState = "running" THEN Live ELSE m_sessions
  /\ Returns(t)
  /\ UNCHANGED <<cfg, m_serverState, m_sessionMtx, drain, engine, sessions>>
-----------------------------------------------------------------------------
\* stop
stop(t) ==
  /\ Calls(t, "stop") /\ m_sessionMtx = {}
  /\ IF m_serverState \in {"stopping", "stopped"}
     THEN Returns(t) /\ UNCHANGED m_serverState
     ELSE Goto(t, "stop_accepting") /\ m_serverState' = "stopping"
  /\ UNCHANGED <<cfg, m_sessions, m_sessionMtx, drain, engine, sessions>>

stop_accepting(t) ==
  /\ place[t] = "stop_accepting"
  /\ m_stopRequested' = TRUE /\ acceptor' = "closed"
  /\ Goto(t, "stop_active_sessions")
  /\ UNCHANGED <<cfg, registry, drain, ioThreads, ioStopped, accepts, sessions>>

stop_active_sessions(t) ==
  /\ place[t] = "stop_active_sessions" /\ m_sessionMtx = {}
  /\ Goto(t, IF m_serverState = "stopped" THEN "stop_io" ELSE "close_live")
  /\ UNCHANGED <<cfg, registry, drain, engine, sessions>>

\* get_live_sessions, and the close method named k posted to those in told.
get_live_sessions(k, told) ==
  /\ m_sessionMtx = {}
  /\ m_sessions' = Live
  /\ posted' = [c \in Clients |-> IF c \in told THEN posted[c] \cup {k} ELSE posted[c]]

\* close_for_shutdown returns early on a session that is closing already: one that is
\* being unregistered, one that drains, or any that has begun to close by itself.
close_live_sessions(t) ==
  /\ place[t] = "close_live"
  /\ \E closing \in SUBSET Live :
       /\ \A c \in Live : session[c] = "closing" \/ c \in draining => c \in closing
       /\ get_live_sessions("close_for_shutdown", Live \ closing)
  /\ Goto(t, "start_wait_timer")
  /\ UNCHANGED <<cfg, m_serverState, m_sessionMtx, drain, engine, session, draining, handled, late>>

\* The handler of a cancelled wait runs like that of one that expired: it does not
\* look at the error code.
Queued(aborted) == [timer EXCEPT !.queued = IF aborted THEN @ + 1 ELSE @]

start_wait_timer(t) ==
  /\ place[t] = "start_wait_timer"
  /\ m_stopWait' = FALSE /\ m_idleTimer' = TRUE /\ timer' = Queued(m_idleTimer)
  /\ Goto(t, "wait")
  /\ UNCHANGED <<cfg, registry, engine, sessions>>

\* The test of m_cv.wait, on entry and after each wake-up.
WaitOver_Inverted == Live = {} \/ ~m_stopWait

WaitOver == Live = {} \/ m_stopWait

wait_for_sessions_stop(t) ==
  /\ place[t] \in {"wait", "woken"} /\ m_sessionMtx = {}
  /\ m_sessions' = Live
  /\ IF WaitOver THEN Goto(t, "cancel_wait_timer") /\ UNCHANGED m_sessionMtx
     ELSE Goto(t, "tested") /\ m_sessionMtx' = {t}
  /\ UNCHANGED <<cfg, m_serverState, drain, engine, sessions>>

wait_sleep(t) ==
  /\ place[t] = "tested"
  /\ m_sessionMtx' = {}
  /\ Goto(t, "asleep")
  /\ UNCHANGED <<cfg, m_serverState, m_sessions, drain, engine, sessions>>

wait_spurious(t) ==
  /\ place[t] = "asleep" /\ spurious < MaxSpurious
  /\ spurious' = spurious + 1
  /\ place' = [place EXCEPT ![t] = "woken"]
  /\ UNCHANGED <<cfg, calls, registry, drain, engine, sessions>>

cancel_wait_timer(t) ==
  /\ place[t] = "cancel_wait_timer"
  /\ m_idleTimer' = FALSE /\ timer' = Queued(m_idleTimer)
  /\ Goto(t, "stop_io")
  /\ UNCHANGED <<cfg, registry, m_stopWait, engine, sessions>>

stop_io(t) ==
  /\ place[t] = "stop_io"
  /\ ioStopped' = TRUE
  /\ Goto(t, "join_io_threads")
  /\ UNCHANGED <<cfg, registry, drain, m_stopRequested, acceptor, ioThreads, accepts,
                 sessions>>

\* The engine's own threads end when their handlers have; threads of an executor
\* are not joined.
ThreadsEnded_Assumed == TRUE

ThreadsEnded == cfg.executor \/ Busy = 0

join_io_threads(t) ==
  /\ place[t] = "join_io_threads" /\ ThreadsEnded
  /\ Goto(t, "stopped")
  /\ UNCHANGED <<cfg, registry, drain, engine, sessions>>

stop_return(t) ==
  /\ place[t] = "stopped" /\ m_sessionMtx = {}
  /\ m_serverState' = "stopped"
  /\ Returns(t)
  /\ UNCHANGED <<cfg, m_sessions, m_sessionMtx, drain, engine, sessions>>
-----------------------------------------------------------------------------
\* The acceptor's handler: the connection of c, or an error, after which it accepts
\* again unless it is to stop.
accept_handler(c) ==
  /\ IoFree /\ accepts > 0 /\ acceptor = "open"
  /\ session[c] = "none" /\ c \in DOMAIN cfg.request
  /\ accepts' = accepts - 1
  /\ session' = IF m_stopRequested THEN session ELSE [session EXCEPT ![c] = "accepted"]
  /\ UNCHANGED <<cfg, callers, registry, drain, m_stopRequested, acceptor, ioThreads, ioStopped,
                 posted, draining, handled, late>>

accept_error ==
  /\ IoFree /\ accepts > 0
  /\ accepts' = IF m_stopRequested THEN accepts - 1 ELSE accepts
  /\ UNCHANGED <<cfg, callers, registry, drain, m_stopRequested, acceptor, ioThreads, ioStopped,
                 sessions>>

handler_client(c) ==
  /\ session[c] = "accepted"
  /\ session' = [session EXCEPT ![c] = "handshake"]
  /\ accepts' = IF m_stopRequested THEN accepts ELSE accepts + 1
  /\ UNCHANGED <<cfg, callers, registry, drain, m_stopRequested, acceptor, ioThreads, ioStopped,
                 posted, draining, handled, late>>
-----------------------------------------------------------------------------
SessionStep(c, p) == session' = [session EXCEPT ![c] = p]

\* The handshake ends: the application rejects the request, the upgrade fails, or
\* the session opens, which calls register_session.
handshake(c) ==
  /\ IoFree /\ session[c] = "handshake"
  /\ \/ SessionStep(c, "gone")
     \/ Decision(cfg.app, cfg.request[c]).accept /\ SessionStep(c, "opening")
  /\ UNCHANGED <<cfg, callers, registry, drain, engine, posted, draining, handled, late>>

register_session(c) ==
  /\ session[c] = "opening" /\ m_sessionMtx = {}
  /\ m_sessions' = m_sessions \cup {c}
  /\ SessionStep(c, "open")
  /\ late' = IF \E t \in Callers : place[t] \notin {"idle", "run", "start_io_threads", "started",
                                                 "stop_accepting", "stop_active_sessions", "close_live"}
             THEN late \cup {c} ELSE late
  /\ UNCHANGED <<cfg, callers, m_serverState, m_sessionMtx, drain, engine, posted, draining, handled>>

\* A message; the application may close the session.
on_message(c, text) ==
  /\ IoFree /\ session[c] = "open"
  /\ LET result == handle_message(cfg.app, cfg.request[c].endpoint, text)
     IN /\ handled' = IF result = "handled" THEN handled \cup {c} ELSE handled
        /\ session' = IF result = "close" THEN [session EXCEPT ![c] = "closing"] ELSE session
  /\ UNCHANGED <<cfg, callers, registry, drain, engine, posted, draining, late>>

\* The handlers posted to a session run.
close_for_shutdown(c) ==
  /\ IoFree /\ session[c] = "open" /\ posted[c] # {}
  /\ posted' = [posted EXCEPT ![c] = {}]
  /\ draining' = draining \cup {c}
  /\ UNCHANGED <<cfg, callers, registry, drain, engine, session, handled, late>>

\* The session closes: mark_closed_and_notify_once calls unregister_session, which
\* notifies when it has released the mutex.  Or it ends without.
session_closes(c) ==
  /\ IoFree /\ session[c] = "open"
  /\ \/ SessionStep(c, "closing")
     \/ c \in draining /\ SessionStep(c, "lost")
  /\ UNCHANGED <<cfg, callers, registry, drain, engine, posted, draining, handled, late>>

unregister_session(c) ==
  /\ session[c] = "closing" /\ m_sessionMtx = {}
  /\ m_sessions' = Live \ {c}
  /\ SessionStep(c, "unregistered")
  /\ UNCHANGED <<cfg, callers, m_serverState, m_sessionMtx, drain, engine, posted, draining,
                 handled, late>>

unregister_notify(c) ==
  /\ session[c] = "unregistered"
  /\ SessionStep(c, "gone")
  /\ place' = Woken
  /\ UNCHANGED <<cfg, calls, spurious, registry, drain, engine, posted, draining, handled, late>>
-----------------------------------------------------------------------------
\* on_wait_timer_timeout: cancel and store, close the live sessions, notify.
on_wait_timer_timeout ==
  /\ IoFree
  /\ \/ m_idleTimer /\ timer' = [timer EXCEPT !.stored = @ + 1]
     \/ /\ timer.queued > 0
        /\ timer' = [Queued(m_idleTimer) EXCEPT !.queued = @ - 1, !.stored = @ + 1]
  /\ m_idleTimer' = FALSE /\ m_stopWait' = TRUE
  /\ UNCHANGED <<cfg, callers, registry, engine, sessions>>

close_forcefully_Unlocked ==
  /\ timer.stored > 0
  /\ timer' = [timer EXCEPT !.stored = @ - 1, !.closed = @ + 1]
  /\ posted' = [c \in Clients |-> IF c \in Live THEN posted[c] \cup {"close_forcefully"} ELSE posted[c]]
  /\ UNCHANGED <<cfg, callers, registry, m_stopWait, m_idleTimer, engine, session, draining, handled, late>>

close_forcefully ==
  /\ timer.stored > 0
  /\ timer' = [timer EXCEPT !.stored = @ - 1, !.closed = @ + 1]
  /\ get_live_sessions("close_forcefully", Live)
  /\ UNCHANGED <<cfg, callers, m_serverState, m_sessionMtx, m_stopWait, m_idleTimer, engine,
                 session, draining, handled, late>>

timeout_notify_Nobody ==
  /\ timer.closed > 0
  /\ timer' = [timer EXCEPT !.closed = @ - 1]
  /\ UNCHANGED <<cfg, callers, registry, m_stopWait, m_idleTimer, engine, sessions>>

timeout_notify ==
  /\ timer.closed > 0
  /\ timer' = [timer EXCEPT !.closed = @ - 1]
  /\ place' = Woken
  /\ UNCHANGED <<cfg, calls, spurious, registry, m_stopWait, m_idleTimer, engine, sessions>>
-----------------------------------------------------------------------------
Call(t) ==
  \/ start(t) \/ broadcast_text(t) \/ stop(t)

Step(t) ==
  \/ start_accepting(t) \/ start_io_threads(t) \/ start_return(t)
  \/ stop_accepting(t) \/ stop_active_sessions(t) \/ close_live_sessions(t)
  \/ start_wait_timer(t) \/ wait_for_sessions_stop(t) \/ wait_sleep(t)
  \/ cancel_wait_timer(t) \/ stop_io(t) \/ join_io_threads(t) \/ stop_return(t)

\* What handlers that have begun go on to do.
Continue(c) ==
  handler_client(c) \/ register_session(c) \/ unregister_session(c) \/ unregister_notify(c)

ServerNext ==
  \/ \E t \in Callers : Call(t) \/ Step(t) \/ wait_spurious(t)
  \/ \E c \in Clients :
       \/ accept_handler(c) \/ Continue(c) \/ handshake(c) \/ close_for_shutdown(c) \/ session_closes(c)
       \/ \E text \in cfg.texts : on_message(c, text)
  \/ accept_error
  \/ on_wait_timer_timeout \/ close_forcefully \/ timeout_notify

ServerSpec == ServerInit /\ [][ServerNext]_serverVars

\* The threads in a call and the io threads run, and the drain time passes.  No
\* client needs to do anything.
ServerFairSpec ==
  /\ ServerSpec
  /\ \A t \in Callers : WF_serverVars(Step(t))
  /\ \A c \in Clients : WF_serverVars(Continue(c))
  /\ WF_serverVars(on_wait_timer_timeout) /\ WF_serverVars(close_forcefully) /\ WF_serverVars(timeout_notify)
-----------------------------------------------------------------------------
InWait == {"wait", "tested", "asleep", "woken"}

\* stop() never sleeps on when it need not: when the last session is unregistered
\* or the time has passed, a notification is on its way, from unregister_session or
\* from the timer, whose handler stores m_stopWait without the mutex.  Only for a
\* session that ended without a notice it waits until the time has passed.
NoLostStopWake ==
  \A t \in Callers :
    place[t] = "asleep" /\ (m_stopWait \/ (m_sessions = {} /\ \A c \in Clients : session[c] # "lost"))
      => \/ timer.stored + timer.closed > 0
         \/ \E c \in Clients : session[c] = "unregistered"
         \/ ioStopped

\* When stop() has joined the engine's own threads no handler runs any more, so
\* that the server may be destroyed.
StoppedMeansQuiet ==
  ~cfg.executor => \A t \in Callers : place[t] = "stopped" => Busy = 0

\* Every session still open when stop() has joined the engine's own threads was
\* told to close for good, or registered itself after stop() had listed them.
StopTellsSessions ==
  ~cfg.executor => \A t \in Callers : place[t] = "stopped" =>
    \A c \in m_sessions \ Expired : c \in late \/ "close_forcefully" \in posted[c] \/ c \in draining

\* A message reaches a handler only on an endpoint the application serves and, if it
\* has a middleware, from a client whose credentials that found good: the messages
\* are routed by the endpoint alone, long after the handshake.
HandledAreKnown ==
  \A c \in handled :
    /\ handle_accept(cfg.app, cfg.request[c]).accept
    /\ cfg.app.m_middleware => cfg.request[c].credentials = "good"

\* stop() returns, whatever the clients do, unless another call of stop() has
\* stopped the io threads it waits for.
StopReturns ==
  \A t \in Callers :
    (place[t] \in InWait /\ ~ioStopped) ~> (place[t] = "idle" \/ (ioStopped /\ place[t] \in InWait))
=============================================================================
