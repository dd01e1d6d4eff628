---------------------------- MODULE WsClientProofs ----------------------------
(***************************************************************************)
(* Connecting, reconnecting and closing in WsClient, for any number of     *)
(* users, reconnect threads, connections and calls.                        *)
(***************************************************************************)
EXTENDS WsClient, TLAPS

Places == {"idle", "delay", "forget", "unschedule", "connect", "cas", "stop", "join_io", "join_heartbeat", "init",
           "spawn", "post_close", "stop_close", "close_join_io", "close_join_heartbeat"}

Phases == {"none", "new", "resolving", "connecting", "handshaking", "open", "dead"}

Types ==
  /\ m_started \in BOOLEAN /\ m_alive \in BOOLEAN /\ m_closing \in BOOLEAN
  /\ m_heartbeatStop \in BOOLEAN /\ failed \in BOOLEAN /\ raced \in BOOLEAN
  /\ ioStopped \in BOOLEAN
  /\ at \in [Threads -> Places]
  /\ gen \in Nat /\ phase \in Phases
  /\ m_ioThread \in {"none", "running", "exited"}
  /\ m_heartbeatThread \in {"none", "running", "exited"}

\* The places from the decision to make a connection until its io thread runs.
Starting == {"delay", "forget", "stop", "join_io", "join_heartbeat", "init", "spawn"}

\* What holds while thread t is about to make a connection: nobody else is, and the
\* connection it replaces is over.
SoleStarter(t) ==
  /\ m_started
  /\ \A u \in Threads : at[u] \in Starting => u = t
  /\ at[t] = "spawn" => phase \in {"new", "dead"}
  /\ at[t] # "spawn" => phase \in {"none", "dead"} /\ (gen > 0 => failed)
  /\ at[t] = "init" => m_heartbeatThread # "running"

\* Until close(), the right to make the next connection is in one place: in m_started
\* being false, in one thread, or in the connection that may yet fail.
OneStarter ==
  m_alive =>
    /\ ~m_heartbeatStop
    /\ \A t \in Threads : at[t] \in Starting => SoleStarter(t)
    /\ ~m_started => phase \in {"none", "dead"} /\ (gen > 0 => failed)

\* A close() that raced no connect() finds no connect() later either, and takes down
\* first the io thread and then the heartbeat, which only the io thread starts.
CloseTakesDown ==
  /\ m_alive => Closing = {} /\ ~raced
  /\ ~m_alive /\ ~raced =>
       /\ m_closing /\ Connecting = {}
       /\ \A t \in Threads : at[t] = "close_join_heartbeat" => m_ioThread = "none"
       /\ CloseIsFinal

Inv == Types /\ OneStarter /\ CloseTakesDown

\* What the steps of a connection may do to the threads: nothing, or start one.
LEMMA ScheduleEffects ==
  ASSUME Types, NEW ec, maybe_schedule_reconnect(ec)
  PROVE  /\ at' \in [Threads -> Places]
         /\ UNCHANGED m_started
         /\ \/ UNCHANGED at
            \/ /\ m_alive /\ ~m_closing /\ ec \notin {"closed", "aborted"}
               /\ \E r : at' = [at EXCEPT ![r] = "delay"]
BY Zenon DEF Types, maybe_schedule_reconnect, MayReconnect, Goto, Places, restart

\* The invariant holds at the start.
LEMMA InitInv == Init => Inv
<1> SUFFICES ASSUME Init PROVE Inv
  OBVIOUS
<1>1. Types
  BY Zenon DEF Init, Types, Places, Phases
<1>2. OneStarter /\ CloseTakesDown
  BY DEF Init, OneStarter, CloseTakesDown, Starting, Closing
<1> QED BY <1>1, <1>2 DEF Inv

\* Every step keeps the types.
LEMMA TypesKept == Types /\ [Next]_vars => Types'
<1> SUFFICES ASSUME Types, [Next]_vars PROVE Types'
  OBVIOUS
<1> USE DEF Types, flags, restart, stream, threads, history
<1>1. ASSUME NEW t \in Threads, ThreadStep(t) \/ connect(t) \/ close(t) PROVE Types'
  <2>1. CASE connect_started(t)
    BY <2>1 DEF connect_started, Goto, Returns, Places
  <2>2. CASE init_stop(t)
    BY <2>2 DEF init_stop, Goto, Places
  <2>3. CASE init_join_io(t)
    BY <2>3 DEF init_join_io, Goto, Places
  <2>4. CASE init_join_heartbeat(t)
    BY <2>4 DEF init_join_heartbeat, Goto, Places
  <2>5. CASE init_io(t)
    <3>1. at' \in [Threads -> Places]
      BY <2>5 DEF init_io, Goto, Places
    <3>2. gen' \in Nat /\ phase' \in Phases
      BY <2>5 DEF init_io, Phases
    <3> QED BY <2>5, <3>1, <3>2, Zenon DEF init_io
  <2>6. CASE connect_spawn(t)
    BY <2>6 DEF connect_spawn, Returns, Phases, Places
  <2>7. CASE close_post(t)
    BY <2>7 DEF close_post, Goto, Places
  <2>8. CASE close_stop(t)
    BY <2>8 DEF close_stop, Goto, Places
  <2>9. CASE close_join_io(t)
    BY <2>9 DEF close_join_io, Goto, Places
  <2>10. CASE close_return(t)
    BY <2>10 DEF close_return, Returns, Places
  <2>11. CASE reconnect(t) \/ reconnect_forget(t) \/ reconnect_unschedule(t)
    <3>1. \E p \in Places : at' = [at EXCEPT ![t] = p]
      BY <2>11, Zenon DEF reconnect, reconnect_forget, reconnect_unschedule, Goto, Returns, Places
    <3>2. m_started' \in BOOLEAN
      BY <2>11, Zenon DEF reconnect, reconnect_forget, reconnect_unschedule
    <3> QED BY <2>11, <3>1, <3>2 DEF reconnect, reconnect_forget, reconnect_unschedule
  <2>12. CASE connect(t)
    BY <2>12 DEF connect, Goto, Returns, Places
  <2>13. CASE close(t)
    BY <2>13, Zenon DEF close, Goto, Returns, Places
  <2> QED BY <1>1, <2>1, <2>2, <2>3, <2>4, <2>5, <2>6, <2>7,
          <2>8, <2>9, <2>10, <2>11, <2>12, <2>13 DEF ThreadStep
<1>2. CASE \E m \in 1..cfg.messages : send_text(m)
  BY <1>2 DEF send_text
<1>3. CASE heartbeat_ends
  BY <1>3 DEF heartbeat_ends
<1>4. CASE send_ping
  BY <1>4 DEF send_ping
<1>5. CASE io_exit
  BY <1>5 DEF io_exit
<1>6. CASE establish
  BY <1>6 DEF establish, NextPhase, Phases
<1>7. CASE handshake
  BY <1>7 DEF handshake, Phases
<1>8. CASE on_write
  BY <1>8 DEF on_write
<1>9. CASE on_send
  BY <1>9 DEF on_send
<1>10. CASE on_ping
  BY <1>10 DEF on_ping
<1>11. CASE on_close_posted
  BY <1>11 DEF on_close_posted, Phases
<1>12. CASE on_read
  BY <1>12 DEF on_read
<1>13. CASE establish_fails \/ on_write_error \/ on_ping_error
           \/ \E ec \in {"aborted", "error", "closed"} : on_read_error(ec)
  <2>1. \E ec : maybe_schedule_reconnect(ec)
    BY <1>13 DEF establish_fails, on_write_error, on_ping_error, on_read_error
  <2>2. at' \in [Threads -> Places] /\ UNCHANGED m_started
    BY <2>1, ScheduleEffects
  <2>3. CASE establish_fails
    BY <2>3, <2>2 DEF establish_fails, Phases
  <2>4. CASE on_write_error
    BY <2>4, <2>2 DEF on_write_error, Meets, Phases
  <2>5. CASE on_ping_error
    BY <2>5, <2>2 DEF on_ping_error, Meets, Phases
  <2>6. CASE \E ec \in {"aborted", "error", "closed"} : on_read_error(ec)
    BY <2>6, <2>2 DEF on_read_error, Meets, Phases
  <2> QED BY <1>13, <2>3, <2>4, <2>5, <2>6
<1>14. CASE UNCHANGED vars
  BY <1>14 DEF vars
<1> QED BY <1>1, <1>2, <1>3, <1>4, <1>5, <1>6, <1>7, <1>8, <1>9, <1>10, <1>11, <1>12,
        <1>13, <1>14 DEF Next, IoStep, Threads

\* A step of the connection, the heartbeat or a sender that moves no thread leaves
\* OneStarter alone: an established connection excludes a thread that makes one.
LEMMA QuietKeepsStarter ==
  ASSUME Inv, UNCHANGED <<at, m_started, gen, m_alive, m_heartbeatStop>>,
         failed => failed',
         phase' \in {phase, "dead"} \/ phase \in {"resolving", "connecting", "handshaking"},
         \/ m_heartbeatThread' = m_heartbeatThread
         \/ m_heartbeatThread' # "running"
         \/ phase = "handshaking"
  PROVE  OneStarter'
<1> SUFFICES ASSUME m_alive'
             PROVE  /\ ~m_heartbeatStop'
                    /\ \A t \in Threads : at'[t] \in Starting => SoleStarter(t)'
                    /\ ~m_started' => phase' \in {"none", "dead"} /\ (gen' > 0 => failed')
  BY DEF OneStarter
<1>1. /\ ~m_heartbeatStop
      /\ \A t \in Threads : at[t] \in Starting => SoleStarter(t)
      /\ ~m_started => phase \in {"none", "dead"} /\ (gen > 0 => failed)
  BY DEF Inv, OneStarter
<1>2. ASSUME NEW t \in Threads, at'[t] \in Starting PROVE SoleStarter(t)'
  <2>1. SoleStarter(t)
    BY <1>1, <1>2
  <2> QED BY <2>1, <1>2 DEF SoleStarter, Starting
<1> QED BY <1>1, <1>2

\* A connection fails: no thread was making one, so the one that starts is alone.
LEMMA FailureKeepsStarter ==
  ASSUME Inv, NEW ec \in {"error", "closed", "aborted"}, maybe_schedule_reconnect(ec),
         UNCHANGED <<gen, m_alive, m_heartbeatStop, m_heartbeatThread>>,
         phase' = "dead", failed' = (failed \/ ec = "error"),
         ec = "error" => phase \in {"resolving", "connecting", "handshaking", "open"}
  PROVE  OneStarter'
<1>1. CASE UNCHANGED at
  <2>1. UNCHANGED m_started
    BY ScheduleEffects DEF Inv
  <2>2. failed => failed'
    BY Zenon
  <2> QED BY <1>1, <2>1, <2>2, QuietKeepsStarter
<1>2. CASE m_alive /\ ec \notin {"closed", "aborted"} /\ \E r : at' = [at EXCEPT ![r] = "delay"]
  <2>1. PICK r : at' = [at EXCEPT ![r] = "delay"]
    BY <1>2, Zenon
  <2>2. phase \in {"resolving", "connecting", "handshaking", "open"} /\ failed'
    BY <1>2, Zenon
  <2>3. m_started /\ \A t \in Threads : at[t] \notin Starting
    BY <1>2, <2>2 DEF Inv, OneStarter, SoleStarter
  <2>4. m_started' /\ ~m_heartbeatStop'
    BY <1>2, <2>3, ScheduleEffects, Zenon DEF Inv, OneStarter
  <2>5. \A t \in Threads : at'[t] \in Starting => t = r /\ at'[t] = "delay"
    BY <2>1, <2>3 DEF Inv, Types
  <2> QED BY <2>2, <2>4, <2>5 DEF OneStarter, SoleStarter
<1> QED BY <1>1, <1>2, ScheduleEffects DEF Inv

\* A thread's step in connect() or in a reconnect, while the client is not closed.
LEMMA ThreadKeepsStarter ==
  ASSUME Inv, NEW t \in Threads, ThreadStep(t) \/ connect(t) \/ close(t)
  PROVE  OneStarter'
<1> SUFFICES ASSUME m_alive' PROVE OneStarter'
  BY DEF OneStarter
<1> USE DEF flags, restart, stream, threads, history
<1>1. m_alive
  <2>1. CASE connect_started(t)
    BY <2>1 DEF connect_started
  <2>2. CASE init_stop(t)
    BY <2>2 DEF init_stop
  <2>3. CASE init_join_io(t)
    BY <2>3 DEF init_join_io
  <2>4. CASE init_join_heartbeat(t)
    BY <2>4 DEF init_join_heartbeat
  <2>5. CASE init_io(t)
    BY <2>5 DEF init_io
  <2>6. CASE connect_spawn(t)
    BY <2>6 DEF connect_spawn
  <2>7. CASE close_post(t)
    BY <2>7 DEF close_post
  <2>8. CASE close_stop(t)
    BY <2>8 DEF close_stop
  <2>9. CASE close_join_io(t)
    BY <2>9 DEF close_join_io
  <2>10. CASE close_return(t)
    BY <2>10 DEF close_return
  <2>11. CASE reconnect(t) \/ reconnect_forget(t) \/ reconnect_unschedule(t)
    BY <2>11, Zenon DEF reconnect, reconnect_forget, reconnect_unschedule
  <2>12. CASE connect(t)
    BY <2>12 DEF connect
  <2>13. CASE close(t)
    BY <2>13, Zenon DEF close
  <2> QED BY <2>1, <2>2, <2>3, <2>4, <2>5, <2>6, <2>7,
          <2>8, <2>9, <2>10, <2>11, <2>12, <2>13 DEF ThreadStep
<1>2. /\ ~m_heartbeatStop
      /\ \A u \in Threads : at[u] \in Starting => SoleStarter(u)
      /\ ~m_started => phase \in {"none", "dead"} /\ (gen > 0 => failed)
      /\ at \in [Threads -> Places] /\ gen \in Nat
  BY <1>1 DEF Inv, OneStarter, Types
<1>3. CASE connect_started(t)
  BY <1>1, <1>2, <1>3 DEF connect_started, Goto, Returns, OneStarter, SoleStarter, Starting
<1>4. CASE init_stop(t)
  BY <1>1, <1>2, <1>4 DEF init_stop, Goto, OneStarter, SoleStarter, Starting
<1>5. CASE init_join_io(t)
  BY <1>1, <1>2, <1>5 DEF init_join_io, Goto, OneStarter, SoleStarter, Starting
<1>6. CASE init_join_heartbeat(t)
  BY <1>1, <1>2, <1>6 DEF init_join_heartbeat, Goto, OneStarter, SoleStarter, Starting
<1>7. CASE init_io(t)
  BY <1>1, <1>2, <1>7 DEF init_io, Goto, OneStarter, SoleStarter, Starting
<1>8. CASE connect_spawn(t)
  BY <1>1, <1>2, <1>8 DEF connect_spawn, Returns, OneStarter, SoleStarter, Starting
<1>9. CASE close_post(t)
  BY <1>1, <1>2, <1>9 DEF close_post, Goto, OneStarter, SoleStarter, Starting
<1>10. CASE close_stop(t)
  BY <1>1, <1>2, <1>10 DEF close_stop, Goto, OneStarter, SoleStarter, Starting
<1>11. CASE close_join_io(t)
  BY <1>1, <1>2, <1>11 DEF close_join_io, Goto, OneStarter, SoleStarter, Starting
<1>12. CASE close_return(t)
  BY <1>1, <1>2, <1>12 DEF close_return, Returns, OneStarter, SoleStarter, Starting
<1>13. CASE reconnect(t) \/ reconnect_forget(t) \/ reconnect_unschedule(t)
  BY <1>1, <1>2, <1>13 DEF reconnect, reconnect_forget, reconnect_unschedule, Goto, Returns,
     OneStarter, SoleStarter, Starting
<1>14. CASE connect(t)
  BY <1>1, <1>2, <1>14 DEF connect, Calls, Goto, Returns, OneStarter, SoleStarter, Starting
<1>15. CASE close(t)
  BY <1>1, <1>2, <1>15 DEF close, Goto, Returns, OneStarter, SoleStarter, Starting
<1> QED BY <1>3, <1>4, <1>5, <1>6, <1>7, <1>8, <1>9,
        <1>10, <1>11, <1>12, <1>13, <1>14, <1>15 DEF ThreadStep

\* A step that moves no thread leaves CloseTakesDown alone: it starts no io thread,
\* and only an io thread starts the heartbeat.
LEMMA QuietKeepsClosed ==
  ASSUME Inv, UNCHANGED <<at, m_alive, raced, m_closing>>,
         m_ioThread = "none" => m_ioThread' = "none",
         m_ioThread = "none" /\ m_heartbeatThread = "none" => m_heartbeatThread' = "none"
  PROVE  CloseTakesDown'
<1>1. Closing' = Closing /\ Connecting' = Connecting
  BY DEF Closing, Connecting
<1> QED BY <1>1 DEF Inv, CloseTakesDown, CloseIsFinal

\* A failure moves a thread only while the client is not closed.
LEMMA FailureKeepsClosed ==
  ASSUME Inv, NEW ec, maybe_schedule_reconnect(ec),
         UNCHANGED <<m_alive, raced, m_closing, threads>>
  PROVE  CloseTakesDown'
<1>1. CASE UNCHANGED at
  BY <1>1, QuietKeepsClosed DEF threads
<1>2. CASE m_alive /\ \E r : at' = [at EXCEPT ![r] = "delay"]
  BY <1>2 DEF Inv, Types, CloseTakesDown, Closing
<1> QED BY <1>1, <1>2, ScheduleEffects DEF Inv

ClosingPlaces == {"post_close", "stop_close", "close_join_io", "close_join_heartbeat"}

ConnectingPlaces == {"cas", "stop", "join_io", "join_heartbeat", "init", "spawn"}

\* CloseTakesDown, thread by thread.
TakenDown ==
  /\ m_alive => ~raced /\ \A t \in Threads : at[t] \notin ClosingPlaces
  /\ ~m_alive /\ ~raced =>
       /\ m_closing /\ \A t \in Threads : at[t] \notin ConnectingPlaces
       /\ \A t \in Threads : at[t] = "close_join_heartbeat" => m_ioThread = "none"
       /\ \/ \E t \in Threads : at[t] \in ClosingPlaces
          \/ m_ioThread = "none" /\ m_heartbeatThread = "none"

\* The two forms say the same.
LEMMA ClosedByThread == CloseTakesDown <=> TakenDown
BY DEF TakenDown, CloseTakesDown, CloseIsFinal, Closing, Connecting, ClosingPlaces, ConnectingPlaces

\* A thread's step in connect(), close() or a reconnect.
LEMMA ThreadKeepsClosed ==
  ASSUME Inv, NEW t \in Threads, ThreadStep(t) \/ connect(t) \/ close(t)
  PROVE  CloseTakesDown'
<1>1. TakenDown /\ at \in [Threads -> Places]
  BY ClosedByThread DEF Inv, Types
<1>2. CloseTakesDown' <=> TakenDown'
  BY ClosedByThread, PTL
<1> USE DEF TakenDown, flags, restart, stream, threads, history
<1>3. ASSUME connect_started(t) PROVE TakenDown'
  BY <1>1, <1>3 DEF connect_started, Goto, Returns, ClosingPlaces, ConnectingPlaces
<1>4. ASSUME init_stop(t) PROVE TakenDown'
  BY <1>1, <1>4 DEF init_stop, Goto, ClosingPlaces, ConnectingPlaces
<1>5. ASSUME init_join_io(t) PROVE TakenDown'
  BY <1>1, <1>5 DEF init_join_io, Goto, ClosingPlaces, ConnectingPlaces
<1>6. ASSUME init_join_heartbeat(t) PROVE TakenDown'
  BY <1>1, <1>6 DEF init_join_heartbeat, Goto, ClosingPlaces, ConnectingPlaces
<1>7. ASSUME init_io(t) PROVE TakenDown'
  BY <1>1, <1>7 DEF init_io, Goto, ClosingPlaces, ConnectingPlaces
<1>8. ASSUME connect_spawn(t) PROVE TakenDown'
  BY <1>1, <1>8 DEF connect_spawn, Returns, ClosingPlaces, ConnectingPlaces
<1>9. ASSUME close_post(t) PROVE TakenDown'
  BY <1>1, <1>9 DEF close_post, Goto, ClosingPlaces, ConnectingPlaces
<1>10. ASSUME close_stop(t) PROVE TakenDown'
  BY <1>1, <1>10 DEF close_stop, Goto, ClosingPlaces, ConnectingPlaces
<1>11. ASSUME close_join_io(t) PROVE TakenDown'
  BY <1>1, <1>11 DEF close_join_io, Goto, ClosingPlaces, ConnectingPlaces
<1>12. ASSUME close_return(t) PROVE TakenDown'
  BY <1>1, <1>12 DEF close_return, Returns, ClosingPlaces, ConnectingPlaces
<1>13. ASSUME reconnect(t) \/ reconnect_forget(t) \/ reconnect_unschedule(t) PROVE TakenDown'
  BY <1>1, <1>13 DEF reconnect, reconnect_forget, reconnect_unschedule, Goto, Returns,
     ClosingPlaces, ConnectingPlaces
<1>14. ASSUME connect(t) PROVE TakenDown'
  BY <1>1, <1>14 DEF connect, Calls, Goto, Returns, ClosingPlaces, ConnectingPlaces
<1>15. ASSUME close(t) PROVE TakenDown'
  <2>1. Connecting = {} <=> \A u \in Threads : at[u] \notin ConnectingPlaces
    BY DEF Connecting, ConnectingPlaces
  <2> QED BY <1>1, <1>15, <2>1, Zenon DEF close, Calls, Goto, Returns, ClosingPlaces, ConnectingPlaces
<1> QED BY <1>2, <1>3, <1>4, <1>5, <1>6, <1>7, <1>8, <1>9, Zenon,
        <1>10, <1>11, <1>12, <1>13, <1>14, <1>15 DEF ThreadStep

\* The invariant behind the theorems below, for any users and reconnect threads.
THEOREM ClientInvariant == Spec => []Inv
<1>1. Inv /\ [Next]_vars => Inv'
  <2> SUFFICES ASSUME Inv, [Next]_vars PROVE OneStarter' /\ CloseTakesDown'
    BY TypesKept DEF Inv
  <2> USE DEF flags, restart, stream, threads, history
  <2>1. ASSUME NEW t \in Threads, ThreadStep(t) \/ connect(t) \/ close(t)
        PROVE  OneStarter' /\ CloseTakesDown'
    BY <2>1, ThreadKeepsStarter, ThreadKeepsClosed
  <2>2. CASE \E m \in 1..cfg.messages : send_text(m)
    BY <2>2, QuietKeepsStarter, QuietKeepsClosed DEF send_text
  <2>3. CASE heartbeat_ends
    BY <2>3, QuietKeepsStarter, QuietKeepsClosed DEF heartbeat_ends
  <2>4. CASE send_ping
    BY <2>4, QuietKeepsStarter, QuietKeepsClosed DEF send_ping
  <2>5. CASE io_exit
    BY <2>5, QuietKeepsStarter, QuietKeepsClosed DEF io_exit
  <2>6. CASE establish
    BY <2>6, QuietKeepsStarter, QuietKeepsClosed DEF establish, NextPhase
  <2>7. CASE handshake
    BY <2>7, QuietKeepsStarter, QuietKeepsClosed DEF handshake, IoRuns
  <2>8. CASE on_write
    BY <2>8, QuietKeepsStarter, QuietKeepsClosed DEF on_write
  <2>9. CASE on_send
    BY <2>9, QuietKeepsStarter, QuietKeepsClosed DEF on_send
  <2>10. CASE on_ping
    BY <2>10, QuietKeepsStarter, QuietKeepsClosed DEF on_ping
  <2>11. CASE on_close_posted
    BY <2>11, QuietKeepsStarter, QuietKeepsClosed DEF on_close_posted
  <2>12. CASE on_read
    BY <2>12, QuietKeepsStarter, QuietKeepsClosed DEF on_read
  <2>13. CASE establish_fails
    <3>1. maybe_schedule_reconnect("error")
      BY <2>13 DEF establish_fails
    <3> QED BY <2>13, <3>1, FailureKeepsStarter, FailureKeepsClosed, Zenon DEF establish_fails, Inv, Types
  <2>14. CASE on_write_error
    <3>1. maybe_schedule_reconnect("error")
      BY <2>14 DEF on_write_error
    <3> QED BY <2>14, <3>1, FailureKeepsStarter, FailureKeepsClosed DEF on_write_error, Meets, Inv, Types
  <2>15. CASE on_ping_error
    <3>1. maybe_schedule_reconnect("error")
      BY <2>15 DEF on_ping_error
    <3> QED BY <2>15, <3>1, FailureKeepsStarter, FailureKeepsClosed DEF on_ping_error, Meets, Inv, Types
  <2>16. ASSUME NEW ec \in {"aborted", "error", "closed"}, on_read_error(ec)
        PROVE  OneStarter' /\ CloseTakesDown'
    <3>1. maybe_schedule_reconnect(ec)
      BY <2>16 DEF on_read_error
    <3>2. phase' = "dead" /\ failed' = (failed \/ ec = "error") /\ (ec = "error" => phase = "open")
      BY <2>16 DEF on_read_error, Meets, Errors
    <3> QED BY <2>16, <3>1, <3>2, FailureKeepsStarter, FailureKeepsClosed DEF on_read_error
  <2>17. CASE UNCHANGED vars
    BY <2>17, QuietKeepsStarter, QuietKeepsClosed DEF vars
  <2> QED BY <2>1, <2>2, <2>3, <2>4, <2>5, <2>6, <2>7, <2>8, <2>9, <2>10, <2>11, <2>12,
          <2>13, <2>14, <2>15, <2>16, <2>17 DEF Next, IoStep, Threads
<1> QED BY InitInv, <1>1, PTL DEF Spec

\* After close() has returned nothing of the client runs, unless it raced a connect().
THEOREM CloseEndsAll == Spec => []CloseIsFinal
<1>1. Inv => CloseIsFinal
  BY DEF Inv, CloseTakesDown, CloseIsFinal
<1> QED BY <1>1, ClientInvariant, PTL

\* Only init_io replaces the connection.
LEMMA WhoReplaces ==
  ASSUME Inv, Next, gen' # gen
  PROVE  \E t \in Threads : init_io(t)
<1> USE DEF flags, restart, stream, threads, history
<1>1. ASSUME NEW t \in Threads, ThreadStep(t) \/ connect(t) \/ close(t) PROVE init_io(t)
  BY <1>1, Zenon DEF ThreadStep, connect_started, init_stop, init_join_io, init_join_heartbeat,
     connect_spawn, close_post, close_stop, close_join_io, close_return, reconnect,
     reconnect_forget, reconnect_unschedule, connect, close
<1> QED BY <1>1, Zenon DEF Next, IoStep, Threads, send_text, heartbeat_ends, send_ping, io_exit,
        establish, handshake, on_write, on_send, on_ping, on_close_posted, on_read,
        establish_fails, on_read_error, on_write_error, on_ping_error

\* A connection is replaced only when it has failed or the client is closed: no two
\* threads, and no thread beside a working connection, get to init_io.
THEOREM HealthyIsKept == Spec => HealthyStays
<1>1. Inv /\ [Next]_vars => [gen' # gen /\ gen > 0 => failed \/ ~m_alive]_vars
  <2> SUFFICES ASSUME Inv, Next, gen' # gen, gen > 0, m_alive PROVE failed
    BY DEF vars, Inv, Types
  <2>1. PICK t \in Threads : init_io(t)
    BY WhoReplaces
  <2> QED BY <2>1 DEF init_io, Inv, OneStarter, SoleStarter, Starting
<1> QED BY <1>1, ClientInvariant, PTL DEF Spec, HealthyStays

\* A running heartbeat ends only through close(), and no connection is replaced before.
THEOREM HeartbeatBlocksReconnect == Spec => ReconnectWaitsForClose
<1>1. Inv /\ [Next]_vars
      => [m_heartbeatThread = "running" /\ m_alive
            => m_heartbeatThread' = "running" /\ gen' = gen]_vars
  <2> SUFFICES ASSUME Inv, Next, m_heartbeatThread = "running", m_alive
               PROVE  m_heartbeatThread' = "running" /\ gen' = gen
    BY DEF vars
  <2>1. gen' = gen
    <3>1. ASSUME NEW t \in Threads, init_io(t) PROVE FALSE
      BY <3>1 DEF init_io, Inv, OneStarter, SoleStarter, Starting
    <3> QED BY <3>1, WhoReplaces
  <2>2. m_heartbeatThread' = "running"
    <3> USE DEF flags, restart, stream, threads, history
    <3>1. ~m_heartbeatStop
      BY DEF Inv, OneStarter
    <3>2. ASSUME NEW t \in Threads, ThreadStep(t) \/ connect(t) \/ close(t)
          PROVE  m_heartbeatThread' = "running"
      BY <3>2, Zenon DEF ThreadStep, connect_started, init_stop, init_join_io, init_join_heartbeat,
         init_io, connect_spawn, close_post, close_stop, close_join_io, close_return, reconnect,
     reconnect_forget, reconnect_unschedule,
         connect, close
    <3> QED BY <3>1, <3>2, Zenon DEF Next, IoStep, Threads, send_text, heartbeat_ends, send_ping, io_exit,
            establish, handshake, on_write, on_send, on_ping, on_close_posted, on_read,
            establish_fails, on_read_error, on_write_error, on_ping_error
  <2> QED BY <2>1, <2>2
<1> QED BY <1>1, ClientInvariant, PTL DEF Spec, ReconnectWaitsForClose
-----------------------------------------------------------------------------
(***************************************************************************)
(* The write queue of WsClient: one write at a time, of the queue's front, *)
(* and the messages in the order of the send_text calls, for any number of *)
(* messages, users and connections.                                        *)
(***************************************************************************)

Handlers == [kind : {"close", "ping"}] \cup [kind : {"send"}, msg : Nat]

WriteTypes ==
  /\ m_connected \in BOOLEAN /\ m_writeInProgress \in BOOLEAN
  /\ m_writeQueue \in Seq(Nat) /\ writes \in Seq(Nat)
  /\ sent \in Seq(Nat) /\ wire \in Seq(Nat)
  /\ posted \in Seq(Handlers)

\* The places from winning m_started until the io thread runs, and before giving it up.
Building == {"forget", "stop", "join_io", "join_heartbeat", "init", "spawn"}

\* One thread at a time makes a connection, close() or not, and no io thread runs while
\* it replaces the stream.
OneBuilder ==
  /\ \A t, u \in Threads : at[t] \in Building /\ at[u] \in Building => t = u
  /\ ~m_started => \A t \in Threads : at[t] \notin Building
  /\ \A t \in Threads :
       /\ at[t] \in {"join_heartbeat", "init", "spawn"} => m_ioThread # "running"
       /\ at[t] = "spawn" => phase = "new"

Sends(p) == {i \in DOMAIN p : p[i].kind = "send"}

\* Before the handshake nothing was sent.
FreshIsEmpty ==
  phase \notin {"open", "dead"} =>
    /\ ~m_connected /\ ~m_writeInProgress
    /\ sent = <<>> /\ wire = <<>> /\ m_writeQueue = <<>> /\ writes = <<>>
    /\ Sends(posted) = {}

\* Messages are numbered as they are sent, and written in that order.
Numbered ==
  /\ \A i \in DOMAIN sent : sent[i] = i
  /\ \A i \in DOMAIN wire : wire[i] = i
  /\ Len(wire) <= Len(sent)

\* The messages after the k-th up to the n-th are in p, in order.
Carries(p, k, n) ==
  /\ \A i \in Sends(p) : p[i].msg \in (k + 1)..n
  /\ \A i, j \in Sends(p) : i < j => p[i].msg < p[j].msg
  /\ \A m \in (k + 1)..n : \E i \in Sends(p) : p[i].msg = m

\* On an open connection every message is on the wire, in the queue or, until close(),
\* in posted, in this order, and a write is of the queue's front.
Flow ==
  phase = "open" =>
    /\ \A i \in DOMAIN m_writeQueue : m_writeQueue[i] = Len(wire) + i
    /\ Len(wire) + Len(m_writeQueue) <= Len(sent)
    /\ writes # <<>> => /\ Len(writes) = 1 /\ m_writeQueue # <<>>
                        /\ writes[1] = m_writeQueue[1] /\ m_writeInProgress
    /\ ~m_closing => Carries(posted, Len(wire) + Len(m_writeQueue), Len(sent))

WriteInv == WriteTypes /\ OneBuilder /\ FreshIsEmpty /\ Numbered /\ Flow
-----------------------------------------------------------------------------
\* A message joins the end of a queue.
LEMMA AppendNat ==
  ASSUME NEW s \in Seq(Nat), NEW m \in Nat
  PROVE  /\ Append(s, m) \in Seq(Nat) /\ Append(s, m) # <<>>
         /\ Len(Append(s, m)) = Len(s) + 1 /\ Append(s, m)[Len(s) + 1] = m
         /\ \A i \in DOMAIN s : i \in DOMAIN Append(s, m) /\ Append(s, m)[i] = s[i]
         /\ \A i \in DOMAIN Append(s, m) : i \in Nat /\ (i \in DOMAIN s \/ i = Len(s) + 1)
<1>1. Append(s, m) \in Seq(Nat) /\ Len(Append(s, m)) = Len(s) + 1 /\ Len(s) \in Nat
  OBVIOUS
<1>2. Append(s, m) # <<>>
  BY <1>1
<1>3. Append(s, m)[Len(s) + 1] = m
  OBVIOUS
<1>4. \A i \in DOMAIN s : i \in DOMAIN Append(s, m) /\ Append(s, m)[i] = s[i]
  OBVIOUS
<1>5. \A i \in DOMAIN Append(s, m) : i \in Nat /\ (i \in DOMAIN s \/ i = Len(s) + 1)
  OBVIOUS
<1> QED BY <1>1, <1>2, <1>3, <1>4, <1>5

\* The front of a queue is taken.
LEMMA TailNat ==
  ASSUME NEW s \in Seq(Nat), s # <<>>
  PROVE  /\ Head(s) = s[1] /\ Head(s) \in Nat /\ 1 \in DOMAIN s
         /\ Tail(s) \in Seq(Nat) /\ Len(Tail(s)) = Len(s) - 1
         /\ Len(s) = 1 => Tail(s) = <<>>
         /\ \A i \in DOMAIN Tail(s) : i \in Nat /\ i + 1 \in DOMAIN s /\ Tail(s)[i] = s[i + 1]
<1>1. Head(s) = s[1] /\ Head(s) \in Nat /\ 1 \in DOMAIN s
  OBVIOUS
<1>2. Tail(s) \in Seq(Nat) /\ Len(Tail(s)) = Len(s) - 1
  OBVIOUS
<1>3. Len(s) = 1 => Tail(s) = <<>>
  <2>1. ASSUME NEW r \in Seq(Nat), Len(r) = 0 PROVE r = <<>>
    BY <2>1
  <2>2. Len(s) = 1 => Len(Tail(s)) = 0
    BY <1>2
  <2>3. \A r \in Seq(Nat) : Len(r) = 0 => r = <<>>
    BY <2>1
  <2> QED BY <1>2, <2>2, <2>3, Zenon
<1>4. \A i \in DOMAIN Tail(s) : i \in Nat /\ i + 1 \in DOMAIN s /\ Tail(s)[i] = s[i + 1]
  OBVIOUS
<1> QED BY <1>1, <1>2, <1>3, <1>4

\* Another handler posted leaves the messages in order.
LEMMA AppendOther ==
  ASSUME NEW p \in Seq(Handlers), NEW h \in Handlers, h.kind # "send",
         NEW k \in Nat, NEW n \in Nat
  PROVE  /\ Sends(Append(p, h)) = Sends(p)
         /\ Carries(p, k, n) => Carries(Append(p, h), k, n)
<1>1. Sends(Append(p, h)) = Sends(p) /\ \A i \in Sends(p) : Append(p, h)[i] = p[i]
  BY DEF Sends
<1> QED BY <1>1, Zenon DEF Carries

\* A message posted is the next one.
LEMMA AppendSend ==
  ASSUME NEW p \in Seq(Handlers), NEW k \in Nat, NEW n \in Nat, k <= n, Carries(p, k, n)
  PROVE  Carries(Append(p, [kind |-> "send", msg |-> n + 1]), k, n + 1)
<1> DEFINE h == [kind |-> "send", msg |-> n + 1]
           q == Append(p, h)
<1>1. h \in Handlers /\ h.kind = "send" /\ h.msg = n + 1
  BY DEF Handlers
<1> HIDE DEF h
<1>2. /\ Sends(q) = Sends(p) \cup {Len(p) + 1} /\ q[Len(p) + 1] = h
      /\ \A i \in Sends(p) : q[i] = p[i] /\ i <= Len(p) /\ i \in Nat
  BY <1>1 DEF Sends
<1> HIDE DEF q
<1>3. \A i \in Sends(q) : q[i].msg \in (k + 1)..(n + 1)
  BY <1>1, <1>2 DEF Carries
<1>4. ASSUME NEW i \in Sends(q), NEW j \in Sends(q), i < j PROVE q[i].msg < q[j].msg
  <2>1. i \in Sends(p) /\ q[i] = p[i] /\ p[i].msg \in (k + 1)..n
    BY <1>2, <1>4 DEF Carries
  <2>2. CASE j = Len(p) + 1
    BY <1>1, <1>2, <2>1, <2>2
  <2>3. CASE j \in Sends(p)
    BY <1>2, <1>4, <2>1, <2>3 DEF Carries
  <2> QED BY <1>2, <2>2, <2>3
<1>5. \A m \in (k + 1)..(n + 1) : \E i \in Sends(q) : q[i].msg = m
  BY <1>1, <1>2 DEF Carries
<1>6. Carries(q, k, n + 1)
  BY <1>3, <1>4, <1>5 DEF Carries
<1> QED BY <1>6 DEF q, h

\* Taking the first handler shifts the others.
LEMMA TailSends ==
  ASSUME NEW p \in Seq(Handlers), p # <<>>
  PROVE  /\ \A i \in Sends(Tail(p)) : i + 1 \in Sends(p) /\ Tail(p)[i] = p[i + 1] /\ i \in Nat
         /\ \A i \in Sends(p) : i \in Nat /\ (i # 1 => i - 1 \in Sends(Tail(p)) /\ i > 1)
         /\ Head(p) = p[1] /\ (1 \in Sends(p) <=> Head(p).kind = "send")
BY DEF Sends

\* A handler that is not a message is taken.
LEMMA TailOther ==
  ASSUME NEW p \in Seq(Handlers), p # <<>>, Head(p).kind # "send", NEW k \in Nat, NEW n \in Nat
  PROVE  /\ Sends(p) = {} => Sends(Tail(p)) = {}
         /\ Carries(p, k, n) => Carries(Tail(p), k, n)
<1> DEFINE q == Tail(p)
<1>1. /\ \A i \in Sends(q) : i + 1 \in Sends(p) /\ q[i] = p[i + 1] /\ i \in Nat
      /\ \A i \in Sends(p) : i \in Nat /\ i - 1 \in Sends(q)
  BY TailSends, Zenon
<1>2. ASSUME Carries(p, k, n) PROVE Carries(q, k, n)
  <2> HIDE DEF q
  <2>1. \A i \in Sends(q) : q[i].msg \in (k + 1)..n
    BY <1>1, <1>2 DEF Carries
  <2>2. ASSUME NEW i \in Sends(q), NEW j \in Sends(q), i < j PROVE q[i].msg < q[j].msg
    <3>1. i + 1 \in Sends(p) /\ j + 1 \in Sends(p) /\ i + 1 < j + 1
      BY <1>1, <2>2
    <3>2. p[i + 1].msg < p[j + 1].msg
      BY <1>2, <3>1 DEF Carries
    <3> QED BY <1>1, <3>2, Zenon
  <2>3. ASSUME NEW m \in (k + 1)..n PROVE \E i \in Sends(q) : q[i].msg = m
    <3>1. PICK i \in Sends(p) : p[i].msg = m
      BY <1>2 DEF Carries
    <3>2. i - 1 \in Sends(q) /\ (i - 1) + 1 = i
      BY <1>1
    <3>3. q[i - 1] = p[i]
      BY <1>1, <3>2
    <3> QED BY <3>1, <3>2, <3>3
  <2> QED BY <2>1, <2>2, <2>3 DEF Carries
<1> QED BY <1>1, <1>2

\* The first message taken is the next one, and the rest follows it.
LEMMA TailSend ==
  ASSUME NEW p \in Seq(Handlers), p # <<>>, Head(p).kind = "send",
         NEW k \in Nat, NEW n \in Nat, Carries(p, k, n)
  PROVE  Head(p).msg = k + 1 /\ k + 1 <= n /\ Carries(Tail(p), k + 1, n)
<1> DEFINE q == Tail(p)
<1>1. /\ 1 \in Sends(p) /\ Head(p) = p[1]
      /\ \A i \in Sends(q) : i + 1 \in Sends(p) /\ q[i] = p[i + 1] /\ i \in Nat
      /\ \A i \in Sends(p) : i \in Nat /\ (i # 1 => i - 1 \in Sends(q) /\ i > 1)
  BY TailSends, Zenon
<1>2. \A i \in Sends(q) : i > 0
  BY DEF Sends
<1> HIDE DEF q
<1>3. p[1].msg \in (k + 1)..n /\ p[1].msg \in Int
  BY <1>1 DEF Carries
<1>4. p[1].msg = k + 1
  <2>1. PICK i \in Sends(p) : p[i].msg = k + 1
    BY <1>3 DEF Carries
  <2>2. CASE i # 1
    <3>1. 1 < i
      BY <1>1, <2>2
    <3>2. p[1].msg < p[i].msg
      BY <3>1, <1>1 DEF Carries
    <3> QED BY <3>2, <2>1, <1>3
  <2> QED BY <2>1, <2>2
<1>5. ASSUME NEW i \in Sends(q) PROVE q[i].msg \in ((k + 1) + 1)..n
  <2>1. i + 1 \in Sends(p) /\ q[i] = p[i + 1] /\ 1 < i + 1
    BY <1>1, <1>2
  <2>2. p[i + 1].msg \in (k + 1)..n /\ p[1].msg < p[i + 1].msg
    BY <2>1, <1>1 DEF Carries
  <2>3. k + 1 < p[i + 1].msg /\ p[i + 1].msg \in Int /\ p[i + 1].msg <= n
    BY <2>2, <1>4
  <2> QED BY <2>1, <2>3
<1>6. ASSUME NEW i \in Sends(q), NEW j \in Sends(q), i < j PROVE q[i].msg < q[j].msg
  <2>1. i + 1 \in Sends(p) /\ j + 1 \in Sends(p) /\ i + 1 < j + 1
    BY <1>1, <1>6
  <2>2. p[i + 1].msg < p[j + 1].msg
    BY <2>1 DEF Carries
  <2> QED BY <1>1, <2>2
<1>7. ASSUME NEW m \in ((k + 1) + 1)..n PROVE \E i \in Sends(q) : q[i].msg = m
  <2>1. m \in (k + 1)..n /\ m # k + 1
    OBVIOUS
  <2>2. PICK i \in Sends(p) : p[i].msg = m
    BY <2>1 DEF Carries
  <2>3. i # 1
    BY <2>1, <2>2, <1>4
  <2>4. i - 1 \in Sends(q) /\ (i - 1) + 1 = i
    BY <2>3, <1>1
  <2>5. q[i - 1] = p[i]
    BY <2>4, <1>1
  <2> QED BY <2>2, <2>4, <2>5
<1>8. Carries(q, k + 1, n)
  BY <1>5, <1>6, <1>7 DEF Carries
<1> QED BY <1>1, <1>3, <1>4, <1>8 DEF q

\* Nothing is sent at the start.
LEMMA InitWrites == Init => WriteInv
<1> SUFFICES ASSUME Init PROVE WriteInv
  OBVIOUS
<1>1. <<>> \in Seq(Nat) /\ <<>> \in Seq(Handlers) /\ Sends(<<>>) = {}
  BY DEF Sends
<1>2. WriteTypes /\ FreshIsEmpty /\ Flow
  BY <1>1, Zenon DEF Init, WriteTypes, FreshIsEmpty, Flow
<1>3. Numbered
  BY DEF Init, Numbered
<1>4. OneBuilder
  BY DEF Init, OneBuilder, Building
<1> QED BY <1>2, <1>3, <1>4 DEF WriteInv

\* Every step keeps the types of the queue and of what was posted, sent and written.
LEMMA WriteTypesKept == Inv /\ WriteTypes /\ [Next]_vars => WriteTypes'
<1> SUFFICES ASSUME Inv, WriteTypes, [Next]_vars PROVE WriteTypes'
  OBVIOUS
<1> USE DEF WriteTypes, flags, queue, restart, stream, threads, history
<1>1. ASSUME NEW t \in Threads, ThreadStep(t) \/ connect(t) \/ close(t) PROVE WriteTypes'
  <2>1. CASE connect_started(t)
    BY <2>1 DEF connect_started
  <2>2. CASE init_stop(t)
    BY <2>2 DEF init_stop
  <2>3. CASE init_join_io(t)
    BY <2>3 DEF init_join_io
  <2>4. CASE init_join_heartbeat(t)
    BY <2>4 DEF init_join_heartbeat
  <2>5. CASE init_io(t)
    <3>1. <<>> \in Seq(Nat) /\ <<>> \in Seq(Handlers)
      OBVIOUS
    <3> QED BY <2>5, <3>1, Zenon DEF init_io, QueueCleared
  <2>6. CASE connect_spawn(t)
    BY <2>6 DEF connect_spawn
  <2>7. CASE close_post(t)
    BY <2>7 DEF close_post, Handlers
  <2>8. CASE close_stop(t)
    BY <2>8 DEF close_stop
  <2>9. CASE close_join_io(t)
    BY <2>9 DEF close_join_io
  <2>10. CASE close_return(t)
    BY <2>10 DEF close_return
  <2>11. CASE reconnect(t) \/ reconnect_forget(t) \/ reconnect_unschedule(t)
    BY <2>11, Zenon DEF reconnect, reconnect_forget, reconnect_unschedule
  <2>12. CASE connect(t)
    BY <2>12 DEF connect
  <2>13. CASE close(t)
    BY <2>13, Zenon DEF close
  <2> QED BY <1>1, <2>1, <2>2, <2>3, <2>4, <2>5, <2>6, <2>7,
          <2>8, <2>9, <2>10, <2>11, <2>12, <2>13 DEF ThreadStep
<1>2. CASE heartbeat_ends
  BY <1>2 DEF heartbeat_ends
<1>3. CASE io_exit
  BY <1>3 DEF io_exit
<1>4. CASE establish
  BY <1>4 DEF establish
<1>5. CASE handshake
  BY <1>5 DEF handshake
<1>6. CASE on_read
  BY <1>6 DEF on_read
<1>7. CASE establish_fails
  BY <1>7 DEF establish_fails
<1>8. CASE \E ec \in {"aborted", "error", "closed"} : on_read_error(ec)
  BY <1>8, Zenon DEF on_read_error
<1>9. CASE send_ping
  BY <1>9 DEF send_ping, Handlers
<1>10. CASE on_ping
  BY <1>10 DEF on_ping, NextPosted
<1>11. CASE on_ping_error
  BY <1>11 DEF on_ping_error, NextPosted
<1>12. CASE on_close_posted
  BY <1>12 DEF on_close_posted, NextPosted
<1>13. ASSUME NEW m \in 1..cfg.messages, send_text(m) PROVE WriteTypes'
  <2>1. m \in Nat
    BY <1>13 DEF send_text
  <2>2. [kind |-> "send", msg |-> m] \in Handlers
    BY <2>1 DEF Handlers
  <2> QED BY <1>13, <2>1, <2>2 DEF send_text
<1>14. CASE on_write
  <2>1. Rest(m_writeQueue) \in Seq(Nat) /\ Tail(writes) \in Seq(Nat) /\ Head(writes) \in Nat
    <3>1. writes # <<>> /\ <<>> \in Seq(Nat)
      BY <1>14 DEF on_write
    <3>2. Rest(m_writeQueue) \in Seq(Nat)
      BY <3>1, TailNat, Zenon DEF Rest
    <3> QED BY <3>1, <3>2, TailNat, Zenon
  <2>2. Rest(m_writeQueue) # <<>> => Head(Rest(m_writeQueue)) \in Nat
    BY <2>1
  <2>3. wire' \in Seq(Nat)
    BY <1>14, <2>1 DEF on_write
  <2>4. m_writeQueue' \in Seq(Nat) /\ writes' \in Seq(Nat) /\ m_writeInProgress' \in BOOLEAN
    BY <1>14, <2>1, <2>2 DEF on_write, do_write
  <2> QED BY <1>14, <2>3, <2>4 DEF on_write
<1>15. CASE on_write_error
  <2>1. Rest(m_writeQueue) \in Seq(Nat) /\ Tail(writes) \in Seq(Nat)
    BY <1>15 DEF on_write_error, Rest
  <2> QED BY <1>15, <2>1, Zenon DEF on_write_error
<1>16. CASE on_send
  <2> DEFINE q == Append(m_writeQueue, Head(posted).msg)
  <2>1. posted # <<>> /\ Head(posted).kind = "send" /\ posted' = Tail(posted)
    BY <1>16 DEF on_send, NextPosted
  <2>2. Head(posted) \in Handlers
    BY <2>1
  <2>3. Head(posted).msg \in Nat
    BY <2>1, <2>2 DEF Handlers
  <2>4. q \in Seq(Nat) /\ q # <<>> /\ Head(q) \in Nat
    <3>1. q \in Seq(Nat) /\ q # <<>>
      BY <2>3, AppendNat
    <3> QED BY <3>1, TailNat
  <2>5. Append(writes, Head(q)) \in Seq(Nat)
    BY <2>4
  <2>6. \/ UNCHANGED <<queue, writes>>
        \/ m_writeQueue' = q /\ UNCHANGED <<m_writeInProgress, writes>>
        \/ do_write(q, writes, TRUE)
    BY <1>16, Zenon DEF on_send
  <2>7. m_writeQueue' \in Seq(Nat) /\ writes' \in Seq(Nat) /\ m_writeInProgress' \in BOOLEAN
    BY <2>4, <2>5, <2>6, Zenon DEF do_write, Inv, Types
  <2> QED BY <1>16, <2>1, <2>7 DEF on_send
<1>17. CASE UNCHANGED vars
  BY <1>17 DEF vars
<1> QED BY <1>1, <1>2, <1>3, <1>4, <1>5, <1>6, <1>7, <1>8, <1>9, <1>10, <1>11, <1>12,
        <1>13, <1>14, <1>15, <1>16, <1>17 DEF Next, IoStep, Threads

\* One thread at a time makes a connection: the io thread's steps need a running
\* io thread, which excludes a thread about to spawn one.
LEMMA BuilderKept == Inv /\ OneBuilder /\ [Next]_vars => OneBuilder'
<1> SUFFICES ASSUME Inv, OneBuilder, [Next]_vars PROVE OneBuilder'
  OBVIOUS
<1> USE DEF flags, restart, stream, threads, history
<1>0. at \in [Threads -> Places] /\ m_started \in BOOLEAN
  BY DEF Inv, Types
<1>1. ASSUME NEW t \in Threads, ThreadStep(t) \/ connect(t) \/ close(t) PROVE OneBuilder'
  <2>1. CASE connect_started(t)
    BY <1>0, <2>1 DEF connect_started, Goto, Returns, OneBuilder, Building
  <2>2. CASE init_stop(t)
    BY <1>0, <2>2 DEF init_stop, Goto, OneBuilder, Building
  <2>3. CASE init_join_io(t)
    BY <1>0, <2>3 DEF init_join_io, Goto, OneBuilder, Building
  <2>4. CASE init_join_heartbeat(t)
    BY <1>0, <2>4 DEF init_join_heartbeat, Goto, OneBuilder, Building
  <2>5. CASE init_io(t)
    BY <1>0, <2>5 DEF init_io, Goto, OneBuilder, Building
  <2>6. CASE connect_spawn(t)
    BY <1>0, <2>6 DEF connect_spawn, Returns, OneBuilder, Building
  <2>7. CASE close_post(t)
    BY <1>0, <2>7 DEF close_post, Goto, OneBuilder, Building
  <2>8. CASE close_stop(t)
    BY <1>0, <2>8 DEF close_stop, Goto, OneBuilder, Building
  <2>9. CASE close_join_io(t)
    BY <1>0, <2>9 DEF close_join_io, Goto, OneBuilder, Building
  <2>10. CASE close_return(t)
    BY <1>0, <2>10 DEF close_return, Returns, OneBuilder, Building
  <2>11. CASE reconnect(t) \/ reconnect_forget(t) \/ reconnect_unschedule(t)
    <3>1. CASE reconnect(t)
      <4>1. m_alive => m_started /\ \A u \in Threads : at[u] \in Building => u = t
        BY <3>1 DEF reconnect, Inv, OneStarter, SoleStarter, Starting, Building
      <4> QED BY <1>0, <3>1, <4>1 DEF reconnect, Goto, Returns, OneBuilder, Building
    <3>2. CASE reconnect_forget(t)
      BY <1>0, <3>2 DEF reconnect_forget, Goto, OneBuilder, Building
    <3>3. CASE reconnect_unschedule(t)
      BY <1>0, <3>3 DEF reconnect_unschedule, Goto, OneBuilder, Building
    <3> QED BY <2>11, <3>1, <3>2, <3>3
  <2>12. CASE connect(t)
    BY <1>0, <2>12 DEF connect, Goto, Returns, OneBuilder, Building
  <2>13. CASE close(t)
    BY <1>0, <2>13 DEF close, Goto, Returns, OneBuilder, Building
  <2> QED BY <1>1, <2>1, <2>2, <2>3, <2>4, <2>5, <2>6, <2>7,
          <2>8, <2>9, <2>10, <2>11, <2>12, <2>13 DEF ThreadStep
<1>2. ASSUME UNCHANGED <<at, m_started>>, m_ioThread # "running" => m_ioThread' # "running",
             UNCHANGED phase \/ m_ioThread = "running"
      PROVE  OneBuilder'
  BY <1>2 DEF OneBuilder
<1>3. CASE \E m \in 1..cfg.messages : send_text(m)
  BY <1>3, <1>2 DEF send_text
<1>4. CASE heartbeat_ends
  BY <1>4, <1>2 DEF heartbeat_ends
<1>5. CASE send_ping
  BY <1>5, <1>2 DEF send_ping
<1>6. CASE io_exit
  BY <1>6, <1>2 DEF io_exit
<1>7. CASE establish
  BY <1>7, <1>2 DEF establish, IoRuns
<1>8. CASE handshake
  BY <1>8, <1>2 DEF handshake, IoRuns
<1>9. CASE on_write
  BY <1>9, <1>2 DEF on_write
<1>10. CASE on_send
  BY <1>10, <1>2 DEF on_send
<1>11. CASE on_ping
  BY <1>11, <1>2 DEF on_ping
<1>12. CASE on_close_posted
  BY <1>12, <1>2 DEF on_close_posted, NextPosted, IoRuns
<1>13. CASE on_read
  BY <1>13, <1>2 DEF on_read
<1>14. CASE establish_fails \/ on_write_error \/ on_ping_error
           \/ \E ec \in {"aborted", "error", "closed"} : on_read_error(ec)
  <2>1. m_ioThread = "running" /\ UNCHANGED m_ioThread
    BY <1>14 DEF establish_fails, on_write_error, on_ping_error, on_read_error, NextPosted, IoRuns
  <2>2. \E ec : maybe_schedule_reconnect(ec)
    BY <1>14 DEF establish_fails, on_write_error, on_ping_error, on_read_error
  <2>3. UNCHANGED m_started /\ (UNCHANGED at \/ \E r : at' = [at EXCEPT ![r] = "delay"])
    BY <2>2, ScheduleEffects DEF Inv
  <2> QED BY <1>0, <2>1, <2>3 DEF OneBuilder, Building
<1>15. CASE UNCHANGED vars
  BY <1>15, <1>2 DEF vars
<1> QED BY <1>1, <1>3, <1>4, <1>5, <1>6, <1>7, <1>8, <1>9, <1>10, <1>11, <1>12, <1>13,
        <1>14, <1>15 DEF Next, IoStep, Threads

\* A step that neither sends nor writes leaves the flow of messages alone, whether the
\* connection goes on, ends or is being established.
LEMMA QuietKeepsFlow ==
  ASSUME WriteInv, UNCHANGED <<m_writeQueue, m_writeInProgress, writes, posted, sent, wire>>,
         m_connected' => m_connected, m_closing => m_closing',
         \/ phase' \in {phase, "dead"}
         \/ phase \notin {"open", "dead"} /\ phase' \notin {"open", "dead"}
  PROVE  FreshIsEmpty' /\ Numbered' /\ Flow'
BY DEF WriteInv, FreshIsEmpty, Numbered, Flow

\* On a connection that ended only the numbering counts.
LEMMA DeadKeepsFlow ==
  ASSUME WriteInv, phase' = "dead", UNCHANGED <<sent, wire>>
  PROVE  FreshIsEmpty' /\ Numbered' /\ Flow'
BY DEF WriteInv, FreshIsEmpty, Numbered, Flow

\* Posting or running a handler that is not a message.
LEMMA OtherKeepsFlow ==
  ASSUME WriteInv, UNCHANGED <<m_writeQueue, m_writeInProgress, writes, sent, wire, phase>>,
         UNCHANGED <<m_connected, m_closing>>,
         \/ \E h \in Handlers : h.kind # "send" /\ posted' = Append(posted, h)
         \/ posted # <<>> /\ Head(posted).kind # "send" /\ posted' = Tail(posted)
  PROVE  FreshIsEmpty' /\ Numbered' /\ Flow'
<1> DEFINE k == Len(wire) + Len(m_writeQueue)
<1>1. k \in Nat /\ Len(sent) \in Nat /\ posted \in Seq(Handlers)
  BY DEF WriteInv, WriteTypes
<1> HIDE DEF k
<1>2. /\ Sends(posted) = {} => Sends(posted') = {}
      /\ Carries(posted, k, Len(sent)) => Carries(posted', k, Len(sent))
  BY <1>1, AppendOther, TailOther, ZenonT(30)
<1> QED BY <1>2 DEF k, WriteInv, FreshIsEmpty, Numbered, Flow

\* send_text numbers the message and posts it last.
LEMMA SendKeepsFlow ==
  ASSUME WriteInv, NEW m \in 1..cfg.messages, send_text(m)
  PROVE  FreshIsEmpty' /\ Numbered' /\ Flow'
<1> DEFINE k == Len(wire) + Len(m_writeQueue)
           n == Len(sent)
<1>1. /\ m = n + 1 /\ m_connected /\ ~m_closing
      /\ posted' = Append(posted, [kind |-> "send", msg |-> n + 1])
      /\ sent' = Append(sent, n + 1)
      /\ UNCHANGED <<m_connected, m_closing, m_writeQueue, m_writeInProgress, writes, wire, phase>>
  BY DEF send_text, flags, queue
<1>2. k \in Nat /\ n \in Nat /\ posted \in Seq(Handlers) /\ sent \in Seq(Nat) /\ wire \in Seq(Nat)
  BY DEF WriteInv, WriteTypes
<1>3. phase \in {"open", "dead"}
  BY <1>1 DEF WriteInv, FreshIsEmpty
<1>4. Len(sent') = n + 1 /\ Numbered'
  <2> DEFINE r == Append(sent, n + 1)
  <2>1. n + 1 \in Nat /\ sent' = r /\ wire' = wire
    BY <1>1, <1>2
  <2>2. /\ Len(r) = n + 1 /\ r[n + 1] = n + 1
        /\ \A i \in DOMAIN sent : r[i] = sent[i]
        /\ \A i \in DOMAIN r : i \in DOMAIN sent \/ i = n + 1
    BY <1>2, <2>1, AppendNat
  <2> HIDE DEF r
  <2>3. /\ \A i \in DOMAIN sent : sent[i] = i
        /\ \A i \in DOMAIN wire : wire[i] = i
        /\ Len(wire) <= n
    BY DEF WriteInv, Numbered
  <2>4. \A i \in DOMAIN r : r[i] = i
    BY <2>2, <2>3, Zenon
  <2>5. Len(wire) <= n + 1
    BY <1>2, <2>3
  <2> QED BY <2>1, <2>2, <2>3, <2>4, <2>5 DEF Numbered
<1>5. CASE phase = "open"
  <2>1. k <= n /\ Carries(posted, k, n)
    BY <1>1, <1>5 DEF WriteInv, Flow
  <2> HIDE DEF k, n
  <2>2. Carries(posted', k, n + 1)
    BY <2>1, <1>1, <1>2, AppendSend
  <2>3. k <= n + 1
    BY <1>2, <2>1
  <2> QED BY <1>1, <1>4, <1>5, <2>2, <2>3 DEF k, WriteInv, FreshIsEmpty, Flow
<1> QED BY <1>1, <1>3, <1>4, <1>5 DEF FreshIsEmpty, Flow

\* The connection opens with nothing sent.
LEMMA HandshakeKeepsFlow ==
  ASSUME WriteInv, handshake
  PROVE  FreshIsEmpty' /\ Numbered' /\ Flow'
<1>1. /\ phase = "handshaking" /\ phase' = "open"
      /\ UNCHANGED <<m_writeQueue, m_writeInProgress, writes, posted, sent, wire>>
  BY DEF handshake, queue, history
<1>2. sent = <<>> /\ wire = <<>> /\ m_writeQueue = <<>> /\ writes = <<>> /\ Sends(posted) = {}
  BY <1>1 DEF WriteInv, FreshIsEmpty
<1>3. Len(sent) = 0 /\ Len(wire) + Len(m_writeQueue) = 0
  BY <1>2
<1>4. Carries(posted, 0, 0)
  BY <1>2 DEF Carries
<1> QED BY <1>1, <1>2, <1>3, <1>4 DEF WriteInv, FreshIsEmpty, Numbered, Flow

\* A write that ends was of the front, which is the message next to go out.
LEMMA WriteKeepsFlow ==
  ASSUME Inv, WriteInv, on_write
  PROVE  FreshIsEmpty' /\ Numbered' /\ Flow'
<1>1. /\ writes # <<>> /\ UNCHANGED <<m_connected, m_closing, posted, sent, phase>>
      /\ phase # "open" => UNCHANGED wire
  BY DEF on_write, flags
<1>2. phase \in {"open", "dead"}
  BY <1>1 DEF WriteInv, FreshIsEmpty
<1>3. CASE phase # "open"
  BY <1>1, <1>2, <1>3 DEF WriteInv, FreshIsEmpty, Numbered, Flow
<1>4. CASE phase = "open"
  <2> DEFINE q == Tail(m_writeQueue)
  <2>1. /\ m_writeQueue \in Seq(Nat) /\ wire \in Seq(Nat) /\ sent \in Seq(Nat) /\ writes \in Seq(Nat)
        /\ m_writeQueue # <<>> /\ Len(writes) = 1 /\ writes[1] = m_writeQueue[1]
        /\ m_writeInProgress
        /\ \A i \in DOMAIN m_writeQueue : m_writeQueue[i] = Len(wire) + i
        /\ Len(wire) + Len(m_writeQueue) <= Len(sent)
    BY <1>1, <1>4 DEF WriteInv, WriteTypes, Flow
  <2>2. Rest(m_writeQueue) = q /\ Tail(writes) = <<>> /\ Head(writes) = Len(wire) + 1
    <3>1. Rest(m_writeQueue) = q
      BY <2>1 DEF Rest
    <3>2. Tail(writes) = <<>> /\ Head(writes) = writes[1]
      BY <2>1, <1>1, TailNat, Zenon
    <3>3. m_writeQueue[1] = Len(wire) + 1
      <4>1. 1 \in DOMAIN m_writeQueue
        BY <2>1, TailNat, Zenon
      <4> QED BY <2>1, <4>1, Zenon
    <3> QED BY <2>1, <3>1, <3>2, <3>3, Zenon
  <2>3. /\ wire' = Append(wire, Len(wire) + 1) /\ m_writeQueue' = q
        /\ writes' = IF m_closing \/ q = <<>> THEN <<>> ELSE Append(<<>>, Head(q))
        /\ m_writeInProgress' = (q # <<>>)
    <3>1. wire' = Append(wire, Len(wire) + 1)
      BY <1>4, <2>2 DEF on_write
    <3>2. do_write(q, <<>>, m_writeInProgress /\ phase = "open" /\ q # <<>>)
      BY <2>2, Zenon DEF on_write
    <3> HIDE DEF q
    <3>3. /\ m_writeQueue' = q
          /\ writes' = IF m_closing \/ q = <<>> THEN <<>> ELSE Append(<<>>, Head(q))
      BY <3>2 DEF do_write
    <3>4. m_writeInProgress' = (q # <<>>)
      BY <3>2, <1>4, <2>1 DEF do_write
    <3> QED BY <3>1, <3>3, <3>4
  <2>4. /\ q \in Seq(Nat) /\ Len(q) = Len(m_writeQueue) - 1
        /\ \A i \in DOMAIN q : q[i] = m_writeQueue[i + 1] /\ i + 1 \in DOMAIN m_writeQueue /\ i \in Nat
    BY <2>1, TailNat
  <2> HIDE DEF q
  <2>n. Len(wire) \in Nat /\ Len(m_writeQueue) \in Nat /\ Len(sent) \in Nat /\ Len(m_writeQueue) >= 1
    BY <2>1
  <2>5. \A i \in DOMAIN q : q[i] = (Len(wire) + 1) + i
    BY <2>1, <2>4, <2>n
  <2>6. /\ Len(wire') = Len(wire) + 1
        /\ Len(wire') + Len(q) = Len(wire) + Len(m_writeQueue)
    <3>1. Len(wire') = Len(wire) + 1
      BY <2>1, <2>3, <2>n, AppendNat
    <3> QED BY <3>1, <2>4, <2>n
  <2>7. Numbered'
    <3>1. \A i \in DOMAIN wire : wire[i] = i
      BY DEF WriteInv, Numbered
    <3>2. ASSUME NEW i \in DOMAIN wire' PROVE wire'[i] = i
      <4> DEFINE w == Append(wire, Len(wire) + 1)
      <4>1. wire \in Seq(Nat) /\ Len(wire) + 1 \in Nat /\ wire' = w
        BY <2>1, <2>3, <2>n
      <4>2. /\ i \in DOMAIN wire \/ i = Len(wire) + 1
            /\ w[Len(wire) + 1] = Len(wire) + 1
            /\ i \in DOMAIN wire => w[i] = wire[i]
        BY <4>1, AppendNat
      <4> QED BY <3>1, <4>1, <4>2, Zenon
    <3>3. Len(wire') <= Len(sent)
      BY <2>1, <2>6, <2>n
    <3> QED BY <1>1, <3>2, <3>3 DEF WriteInv, Numbered
  <2>8. writes' # <<>> => Len(writes') = 1 /\ q # <<>> /\ writes'[1] = q[1] /\ m_writeInProgress'
    <3>1. CASE m_closing \/ q = <<>>
      BY <2>3, <3>1
    <3>2. CASE ~m_closing /\ q # <<>>
      <4>1. Head(q) = q[1] /\ Head(q) \in Nat
        BY <2>4, <3>2, TailNat
      <4>2. writes' = Append(<<>>, Head(q)) /\ m_writeInProgress'
        BY <2>3, <3>2, Zenon
      <4>3. Len(writes') = 1 /\ writes'[1] = Head(q)
        BY <4>1, <4>2
      <4> QED BY <4>1, <4>2, <4>3, <3>2
    <3> QED BY <3>1, <3>2
  <2>9. Flow'
    BY <1>1, <1>4, <2>1, <2>3, <2>5, <2>6, <2>8 DEF WriteInv, Flow
  <2> QED BY <1>1, <1>4, <2>7, <2>9 DEF FreshIsEmpty
<1> QED BY <1>3, <1>4

\* A message taken from posted joins the end of the queue, and is written at once only
\* if no write is under way.
LEMMA QueueKeepsFlow ==
  ASSUME Inv, WriteInv, on_send
  PROVE  FreshIsEmpty' /\ Numbered' /\ Flow'
<1>1. /\ posted # <<>> /\ Head(posted).kind = "send" /\ posted' = Tail(posted)
      /\ UNCHANGED <<m_connected, m_closing, sent, wire, phase>>
  BY DEF on_send, NextPosted, flags, history
<1>2. /\ posted \in Seq(Handlers) /\ m_writeQueue \in Seq(Nat) /\ wire \in Seq(Nat)
      /\ sent \in Seq(Nat) /\ writes \in Seq(Nat)
  BY DEF WriteInv, WriteTypes
<1>3. phase \in {"open", "dead"}
  <2>1. 1 \in Sends(posted)
    BY <1>1, <1>2, TailSends
  <2> QED BY <2>1 DEF WriteInv, FreshIsEmpty
<1>4. Numbered' /\ FreshIsEmpty'
  BY <1>1, <1>3 DEF WriteInv, Numbered, FreshIsEmpty
<1>5. CASE phase # "open"
  BY <1>1, <1>4, <1>5 DEF Flow
<1>6. CASE phase = "open" /\ m_closing
  <2>1. UNCHANGED <<m_writeQueue, m_writeInProgress, writes>>
    BY <1>6 DEF on_send, queue
  <2> QED BY <1>1, <1>4, <1>6, <2>1 DEF WriteInv, Flow
<1>7. CASE phase = "open" /\ ~m_closing
  <2> DEFINE k == Len(wire) + Len(m_writeQueue)
             q == Append(m_writeQueue, Head(posted).msg)
  <2>1. /\ k \in Nat /\ Len(sent) \in Nat /\ Carries(posted, k, Len(sent))
        /\ \A i \in DOMAIN m_writeQueue : m_writeQueue[i] = Len(wire) + i
    <3>1. k \in Nat /\ Len(sent) \in Nat
      BY <1>2
    <3>2. /\ Carries(posted, Len(wire) + Len(m_writeQueue), Len(sent))
          /\ \A i \in DOMAIN m_writeQueue : m_writeQueue[i] = Len(wire) + i
      BY <1>7 DEF WriteInv, Flow
    <3> QED BY <3>1, <3>2
  <2>2. Head(posted).msg = k + 1 /\ k + 1 <= Len(sent) /\ Carries(posted', k + 1, Len(sent))
    <3> HIDE DEF k
    <3> QED BY <2>1, <1>1, <1>2, TailSend
  <2>3. /\ q \in Seq(Nat) /\ Len(q) = Len(m_writeQueue) + 1 /\ Len(wire) + Len(q) = k + 1
        /\ \A i \in DOMAIN q : q[i] = Len(wire) + i
        /\ m_writeQueue # <<>> => q[1] = m_writeQueue[1]
    <3>1. q = Append(m_writeQueue, k + 1) /\ k + 1 \in Nat /\ k = Len(wire) + Len(m_writeQueue)
      BY <2>1, <2>2
    <3>2. Len(wire) \in Nat /\ Len(m_writeQueue) \in Nat
      BY <1>2
    <3> HIDE DEF q, k
    <3>3. /\ q \in Seq(Nat) /\ Len(q) = Len(m_writeQueue) + 1
          /\ q[Len(m_writeQueue) + 1] = k + 1
          /\ \A i \in DOMAIN m_writeQueue : q[i] = m_writeQueue[i]
          /\ \A i \in DOMAIN q : i \in DOMAIN m_writeQueue \/ i = Len(m_writeQueue) + 1
      BY <3>1, <1>2, AppendNat
    <3>4. Len(wire) + Len(q) = k + 1
      BY <3>1, <3>2, <3>3
    <3>5. ASSUME NEW i \in DOMAIN q PROVE q[i] = Len(wire) + i
      <4>1. CASE i \in DOMAIN m_writeQueue
        BY <4>1, <2>1, <3>3
      <4>2. CASE i = Len(m_writeQueue) + 1
        BY <4>2, <3>1, <3>2, <3>3
      <4> QED BY <4>1, <4>2, <3>3
    <3>6. m_writeQueue # <<>> => q[1] = m_writeQueue[1]
      BY <1>2, <3>3, TailNat, Zenon
    <3> QED BY <3>3, <3>4, <3>5, <3>6
  <2>4. /\ m_writeQueue' = q
        /\ m_writeInProgress => UNCHANGED <<m_writeInProgress, writes>>
        /\ ~m_writeInProgress => do_write(q, writes, TRUE)
    <3> HIDE DEF q
    <3>1. IF m_writeInProgress
          THEN m_writeQueue' = q /\ UNCHANGED <<m_writeInProgress, writes>>
          ELSE do_write(q, writes, TRUE)
      BY <1>7, Zenon DEF on_send, q
    <3> QED BY <3>1 DEF do_write
  <2>5. writes' # <<>> => Len(writes') = 1 /\ q # <<>> /\ writes'[1] = q[1] /\ m_writeInProgress'
    <3>1. CASE m_writeInProgress
      BY <3>1, <1>7, <2>3, <2>4 DEF WriteInv, Flow
    <3>2. CASE ~m_writeInProgress
      <4>1. writes = <<>> /\ q # <<>>
        BY <3>2, <1>7, <2>3 DEF WriteInv, Flow
      <4> HIDE DEF q
      <4>2. writes' = Append(<<>>, Head(q)) /\ m_writeInProgress'
        BY <3>2, <4>1, <1>7, <2>4, Zenon DEF do_write
      <4> QED BY <4>1, <4>2, <2>3
    <3> QED BY <3>1, <3>2
  <2> HIDE DEF q, k
  <2>6. Flow'
    BY <1>1, <1>7, <2>2, <2>3, <2>4, <2>5, Zenon DEF Flow
  <2> QED BY <1>4, <2>6
<1> QED BY <1>3, <1>5, <1>6, <1>7

\* The flow of messages is kept by every step.
LEMMA FlowKept ==
  ASSUME Inv, WriteInv, [Next]_vars
  PROVE  FreshIsEmpty' /\ Numbered' /\ Flow'
<1> USE DEF flags, queue, restart, stream, threads, history
<1>1. ASSUME NEW t \in Threads, ThreadStep(t) \/ connect(t) \/ close(t)
      PROVE  FreshIsEmpty' /\ Numbered' /\ Flow'
  <2>1. CASE connect_started(t)
    BY <2>1, QuietKeepsFlow DEF connect_started
  <2>2. CASE init_stop(t)
    BY <2>2, QuietKeepsFlow DEF init_stop
  <2>3. CASE init_join_io(t)
    BY <2>3, QuietKeepsFlow DEF init_join_io
  <2>4. CASE init_join_heartbeat(t)
    BY <2>4, QuietKeepsFlow DEF init_join_heartbeat
  <2>5. CASE init_io(t)
    BY <2>5 DEF init_io, QueueCleared, FreshIsEmpty, Numbered, Flow, Sends
  <2>6. CASE connect_spawn(t)
    <3>1. phase = "new" /\ phase' = "resolving"
      BY <2>6 DEF connect_spawn, WriteInv, OneBuilder
    <3> QED BY <2>6, <3>1, QuietKeepsFlow DEF connect_spawn
  <2>7. CASE close_post(t)
    <3>1. [kind |-> "close"] \in Handlers
      BY DEF Handlers
    <3> QED BY <2>7, <3>1, OtherKeepsFlow, QuietKeepsFlow DEF close_post
  <2>8. CASE close_stop(t)
    BY <2>8, QuietKeepsFlow DEF close_stop
  <2>9. CASE close_join_io(t)
    BY <2>9, QuietKeepsFlow DEF close_join_io
  <2>10. CASE close_return(t)
    BY <2>10, QuietKeepsFlow DEF close_return
  <2>11. CASE reconnect(t) \/ reconnect_forget(t) \/ reconnect_unschedule(t)
    BY <2>11, QuietKeepsFlow DEF reconnect, reconnect_forget, reconnect_unschedule
  <2>12. CASE connect(t)
    BY <2>12, QuietKeepsFlow DEF connect
  <2>13. CASE close(t)
    BY <2>13, QuietKeepsFlow DEF close, Inv, Types, WriteInv, WriteTypes
  <2> QED BY <1>1, <2>1, <2>2, <2>3, <2>4, <2>5, <2>6, <2>7,
          <2>8, <2>9, <2>10, <2>11, <2>12, <2>13 DEF ThreadStep
<1>2. CASE heartbeat_ends
  BY <1>2, QuietKeepsFlow DEF heartbeat_ends
<1>3. CASE io_exit
  BY <1>3, QuietKeepsFlow DEF io_exit
<1>4. CASE establish
  BY <1>4, QuietKeepsFlow DEF establish, NextPhase
<1>5. CASE on_read
  BY <1>5, QuietKeepsFlow DEF on_read
<1>6. CASE establish_fails
  BY <1>6, DeadKeepsFlow DEF establish_fails
<1>7. CASE on_write_error
  BY <1>7, DeadKeepsFlow DEF on_write_error, Meets
<1>8. CASE on_ping_error
  BY <1>8, DeadKeepsFlow DEF on_ping_error, Meets
<1>9. CASE on_close_posted
  BY <1>9, DeadKeepsFlow DEF on_close_posted
<1>10. CASE \E ec \in {"aborted", "error", "closed"} : on_read_error(ec)
  BY <1>10, DeadKeepsFlow DEF on_read_error, Meets
<1>11. CASE send_ping
  <2>1. [kind |-> "ping"] \in Handlers
    BY DEF Handlers
  <2> QED BY <1>11, <2>1, OtherKeepsFlow DEF send_ping
<1>12. CASE on_ping
  BY <1>12, OtherKeepsFlow DEF on_ping, NextPosted
<1>13. CASE (\E m \in 1..cfg.messages : send_text(m)) \/ handshake \/ on_write \/ on_send
  BY <1>13, SendKeepsFlow, HandshakeKeepsFlow, WriteKeepsFlow, QueueKeepsFlow
<1>14. CASE UNCHANGED vars
  BY <1>14, QuietKeepsFlow DEF vars
<1> QED BY <1>1, <1>2, <1>3, <1>4, <1>5, <1>6, <1>7, <1>8, <1>9, <1>10, <1>11, <1>12,
        <1>13, <1>14 DEF Next, IoStep, Threads

\* At most one async_write is under way on an open connection, of the queue's front,
\* and what is written is a prefix of what was sent.
THEOREM WritesInOrder == Spec => []OneWriteInOrder
<1>1. Inv /\ WriteInv /\ [Next]_vars => WriteInv'
  BY WriteTypesKept, BuilderKept, FlowKept DEF WriteInv
<1>2. WriteInv => OneWriteInOrder
  <2> SUFFICES ASSUME WriteInv PROVE OneWriteInOrder
    OBVIOUS
  <2>1. /\ wire \in Seq(Nat) /\ sent \in Seq(Nat) /\ writes \in Seq(Nat) /\ m_writeQueue \in Seq(Nat)
        /\ Len(wire) <= Len(sent)
        /\ \A i \in DOMAIN wire : wire[i] = i
        /\ \A i \in DOMAIN sent : sent[i] = i
    BY DEF WriteInv, WriteTypes, Numbered
  <2>2. wire = SubSeq(sent, 1, Len(wire))
    BY <2>1
  <2>3. Len(wire) <= Len(sent) /\ wire = SubSeq(sent, 1, Len(wire))
    BY <2>1, <2>2
  <2>4. ASSUME phase = "open"
        PROVE  Len(writes) <= 1 /\ \A i \in DOMAIN writes : writes[i] = Head(m_writeQueue)
    <3>1. CASE writes = <<>>
      BY <3>1
    <3>2. CASE writes # <<>>
      <4>1. Len(writes) = 1 /\ m_writeQueue # <<>> /\ writes[1] = m_writeQueue[1]
        BY <2>4, <3>2 DEF WriteInv, Flow
      <4> QED BY <4>1, <2>1
    <3> QED BY <3>1, <3>2
  <2> QED BY <2>3, <2>4 DEF OneWriteInOrder
<1> QED BY InitWrites, ClientInvariant, <1>1, <1>2, PTL DEF Spec
=============================================================================
