------------------------------- MODULE WsClient -------------------------------
(***************************************************************************)
(* ws/server/WsClient.hpp: a client that connects, writes one message at a *)
(* time, pings, reconnects after a failure and closes.                     *)
(*                                                                         *)
(* The threads are the users, who call connect, send_text and close, the   *)
(* detached reconnect threads, which call connect, the heartbeat thread,   *)
(* and the one thread of the current io_context, whose handlers are one    *)
(* step each.  connect() and close() change the members without a lock;    *)
(* at[t] is a thread's place in them.  The stores of close()'s flags share *)
(* a step, and so do those of init_io: who finds only some of them done is *)
(* a connect() that a close() overtakes (raced), or a send_text() that     *)
(* reads m_ws while init_io replaces it, which is undefined.  The handlers *)
(* given to on_open, on_close, on_message and on_error do not call the     *)
(* client.                                                                 *)
(*                                                                         *)
(* gen counts the connections; phase, reading, writes and posted belong to *)
(* the current one.  Resolver, stream and peer are external.  As Beast     *)
(* does, a stream reports a failure to one operation, and operation_aborted*)
(* to every other one.                                                     *)
(***************************************************************************)
EXTENDS Naturals, FiniteSets, Sequences, Functions

CONSTANTS Users,
          Reconnectors,   \* the threads that reconnects run on
          MaxConnections, \* bounds the connections that are made
          MaxPosted,      \* bounds the handlers queued while the heartbeat posts
          Configs         \* [autoReconnect, heartbeat, messages, calls of each user]

ASSUME ClientAssumption ==
  Users \cap Reconnectors = {} /\ MaxConnections \in Nat /\ MaxPosted \in Nat

VARIABLES
  cfg,
  m_started, m_connected, m_closing, m_alive, m_heartbeatStop,
  m_autoReconnect, m_reconnectScheduled,
  m_writeQueue, m_writeInProgress,
  at, calls,          \* places in connect and close; the calls each user has left
  gen, phase, reading, writes, posted,
  ioStopped,          \* the current io_context was stopped
  m_ioThread, m_heartbeatThread,  \* none, running, or exited and not yet joined
  sent, wire,         \* history: messages sent and written on this connection
  failed,             \* history: this connection met an error
  raced,              \* history: a close() began during a connect()
  overlooked          \* history: this connection's error found m_reconnectScheduled still
                      \* set by a thread that had already stored m_started

flags == <<m_connected, m_closing, m_alive, m_heartbeatStop, m_autoReconnect>>
queue == <<m_writeQueue, m_writeInProgress>>
restart == <<m_started, m_reconnectScheduled, at, calls>>
stream == <<gen, phase, reading, writes, posted, ioStopped>>
threads == <<m_ioThread, m_heartbeatThread>>
history == <<sent, wire, failed, raced, overlooked>>
vars == <<cfg, flags, queue, restart, stream, threads, history>>

Threads == Users \cup Reconnectors

Init ==
  /\ cfg \in Configs
  /\ m_started = FALSE /\ m_connected = FALSE /\ m_closing = FALSE /\ m_alive = TRUE
  /\ m_heartbeatStop = FALSE /\ m_autoReconnect = cfg.autoReconnect
  /\ m_reconnectScheduled = FALSE
  /\ m_writeQueue = <<>> /\ m_writeInProgress = FALSE
  /\ at = [t \in Threads |-> "idle"] /\ calls = cfg.calls
  /\ gen = 0 /\ phase = "none" /\ reading = FALSE /\ writes = <<>> /\ posted = <<>>
  /\ ioStopped = FALSE /\ m_ioThread = "none" /\ m_heartbeatThread = "none"
  /\ sent = <<>> /\ wire = <<>> /\ failed = FALSE /\ raced = FALSE
  /\ overlooked = FALSE
-----------------------------------------------------------------------------
Calls(t, name) ==
  /\ t \in Users /\ at[t] = "idle"
  /\ calls[t] # <<>> /\ Head(calls[t]) = name

Goto(t, p) == at' = [at EXCEPT ![t] = p] /\ UNCHANGED calls

\* A user's call returns; a reconnect thread ends.
Returns(t) ==
  /\ at' = [at EXCEPT ![t] = "idle"]
  /\ calls' = IF t \in Users THEN [calls EXCEPT ![t] = Tail(@)] ELSE calls

Connecting == {t \in Threads : at[t] \in {"cas", "stop", "join_io", "join_heartbeat", "init", "spawn"}}
Closing    == {t \in Threads : at[t] \in {"post_close", "stop_close", "close_join_io", "close_join_heartbeat"}}
-----------------------------------------------------------------------------
\* connect: return unless alive, and unless this call is the one that starts.
connect(t) ==
  /\ Calls(t, "connect") \/ at[t] = "connect"
  /\ IF ~m_alive \/ m_closing THEN Returns(t) ELSE Goto(t, "cas")
  /\ UNCHANGED <<cfg, flags, queue, m_started, m_reconnectScheduled, stream, threads, history>>

connect_started(t) ==
  /\ at[t] = "cas"
  /\ IF m_started THEN Returns(t) ELSE Goto(t, "stop")
  /\ m_started' = TRUE
  /\ UNCHANGED <<cfg, flags, queue, m_reconnectScheduled, stream, threads, history>>

\* init_io: stop the old io_context, join its thread and the heartbeat, start anew.
init_stop(t) ==
  /\ at[t] = "stop"
  /\ ioStopped' = (gen > 0)
  /\ Goto(t, "join_io")
  /\ UNCHANGED <<cfg, flags, queue, m_started, m_reconnectScheduled, gen, phase, reading, writes,
                 posted, threads, history>>

init_join_io(t) ==
  /\ at[t] = "join_io" /\ m_ioThread # "running"
  /\ m_ioThread' = "none"
  /\ Goto(t, "join_heartbeat")
  /\ UNCHANGED <<cfg, flags, queue, m_started, m_reconnectScheduled, stream, m_heartbeatThread,
                 history>>

init_join_heartbeat_Detaches(t) ==
  /\ at[t] = "join_heartbeat"
  /\ m_heartbeatThread' = "none"
  /\ Goto(t, "init")
  /\ UNCHANGED <<cfg, flags, queue, m_started, m_reconnectScheduled, stream, m_ioThread, history>>

init_join_heartbeat(t) ==
  /\ at[t] = "join_heartbeat" /\ m_heartbeatThread # "running"
  /\ m_heartbeatThread' = "none"
  /\ Goto(t, "init")
  /\ UNCHANGED <<cfg, flags, queue, m_started, m_reconnectScheduled, stream, m_ioThread, history>>

QueueCleared == m_writeQueue' = <<>> /\ m_writeInProgress' = FALSE

init_io(t) ==
  /\ at[t] = "init" /\ gen < MaxConnections
  /\ gen' = gen + 1 /\ phase' = "new" /\ reading' = FALSE /\ writes' = <<>> /\ posted' = <<>>
  /\ ioStopped' = FALSE
  /\ m_connected' = FALSE /\ m_closing' = FALSE /\ m_heartbeatStop' = FALSE
  /\ QueueCleared
  /\ sent' = <<>> /\ wire' = <<>> /\ failed' = FALSE /\ overlooked' = FALSE
  /\ Goto(t, "spawn")
  /\ UNCHANGED <<cfg, m_alive, m_autoReconnect, m_started, m_reconnectScheduled, threads, raced>>

\* The io thread starts, and do_resolve is posted to it.
connect_spawn(t) ==
  /\ at[t] = "spawn"
  /\ m_ioThread' = "running" /\ phase' = "resolving"
  /\ Returns(t)
  /\ UNCHANGED <<cfg, flags, queue, m_started, m_reconnectScheduled, gen, reading, writes, posted,
                 ioStopped, m_heartbeatThread, history>>
-----------------------------------------------------------------------------
\* close: only the first call does anything.
close(t) ==
  /\ Calls(t, "close")
  /\ IF m_closing
     THEN Returns(t) /\ UNCHANGED <<flags, m_reconnectScheduled, raced>>
     ELSE /\ m_closing' = TRUE /\ m_alive' = FALSE /\ m_connected' = FALSE
          /\ m_heartbeatStop' = TRUE /\ m_autoReconnect' = FALSE
          /\ m_reconnectScheduled' = FALSE
          /\ raced' = (raced \/ Connecting # {})
          /\ Goto(t, "post_close")
  /\ UNCHANGED <<cfg, queue, m_started, stream, threads, sent, wire, failed, overlooked>>

close_post(t) ==
  /\ at[t] = "post_close"
  /\ posted' = IF gen > 0 THEN Append(posted, [kind |-> "close"]) ELSE posted
  /\ Goto(t, "stop_close")
  /\ UNCHANGED <<cfg, flags, queue, m_started, m_reconnectScheduled, gen, phase, reading, writes,
                 ioStopped, threads, history>>

close_stop(t) ==
  /\ at[t] = "stop_close"
  /\ ioStopped' = (gen > 0)
  /\ Goto(t, "close_join_io")
  /\ UNCHANGED <<cfg, flags, queue, m_started, m_reconnectScheduled, gen, phase, reading, writes,
                 posted, threads, history>>

close_join_io_Skipped(t) ==
  /\ at[t] = "close_join_io"
  /\ Goto(t, "close_join_heartbeat")
  /\ UNCHANGED <<cfg, flags, queue, m_started, m_reconnectScheduled, stream, threads, history>>

close_join_io(t) ==
  /\ at[t] = "close_join_io" /\ m_ioThread # "running"
  /\ m_ioThread' = "none"
  /\ Goto(t, "close_join_heartbeat")
  /\ UNCHANGED <<cfg, flags, queue, m_started, m_reconnectScheduled, stream, m_heartbeatThread,
                 history>>

close_return(t) ==
  /\ at[t] = "close_join_heartbeat" /\ m_heartbeatThread # "running"
  /\ m_heartbeatThread' = "none"
  /\ Returns(t)
  /\ UNCHANGED <<cfg, flags, queue, m_started, m_reconnectScheduled, stream, m_ioThread, history>>
-----------------------------------------------------------------------------
\* send_text drops a message unless the client is connected, and posts it otherwise.
send_text(m) ==
  /\ m = Len(sent) + 1 /\ m <= cfg.messages
  /\ m_connected /\ ~m_closing
  /\ posted' = Append(posted, [kind |-> "send", msg |-> m])
  /\ sent' = Append(sent, m)
  /\ UNCHANGED <<cfg, flags, queue, restart, gen, phase, reading, writes, ioStopped, threads, wire,
                 failed, raced, overlooked>>

\* The heartbeat thread ends once told to, and pings while connected.
heartbeat_ends ==
  /\ m_heartbeatThread = "running" /\ (m_heartbeatStop \/ ~m_alive)
  /\ m_heartbeatThread' = "exited"
  /\ UNCHANGED <<cfg, flags, queue, restart, stream, m_ioThread, history>>

send_ping ==
  /\ m_heartbeatThread = "running" /\ ~m_heartbeatStop
  /\ m_connected /\ ~m_closing /\ Len(posted) < MaxPosted
  /\ posted' = Append(posted, [kind |-> "ping"])
  /\ UNCHANGED <<cfg, flags, queue, restart, gen, phase, reading, writes, ioStopped, threads, history>>
-----------------------------------------------------------------------------
\* maybe_schedule_reconnect: not for an orderly close or an aborted operation.
MayReconnect_AnyError(ec) == m_autoReconnect /\ ~m_closing /\ m_alive

MayReconnect(ec) == m_autoReconnect /\ ~m_closing /\ m_alive /\ ec \notin {"closed", "aborted"}

maybe_schedule_reconnect(ec) ==
  /\ IF MayReconnect(ec) /\ ~m_reconnectScheduled
     THEN /\ m_reconnectScheduled' = TRUE
          /\ Goto(CHOOSE r \in Reconnectors : at[r] = "idle", "delay")
          /\ UNCHANGED m_started
     ELSE UNCHANGED restart
  /\ overlooked' = (overlooked \/ (MayReconnect(ec) /\ \E r \in Reconnectors : at[r] = "unschedule"))

\* The reconnect thread after its delay.  It forgets that the client was started and
\* then, in a second store, that it is scheduled itself, before it connects.
reconnect(r) ==
  /\ at[r] = "delay"
  /\ IF ~m_alive \/ m_closing
     THEN Returns(r) /\ m_reconnectScheduled' = FALSE
     ELSE Goto(r, "forget") /\ UNCHANGED m_reconnectScheduled
  /\ UNCHANGED <<cfg, flags, queue, m_started, stream, threads, history>>

reconnect_forget_Restarted(r) ==
  /\ at[r] = "forget"
  /\ Goto(r, "unschedule")
  /\ UNCHANGED <<cfg, flags, queue, m_started, m_reconnectScheduled, stream, threads, history>>

reconnect_forget(r) ==
  /\ at[r] = "forget"
  /\ m_started' = FALSE
  /\ Goto(r, "unschedule")
  /\ UNCHANGED <<cfg, flags, queue, m_reconnectScheduled, stream, threads, history>>

reconnect_unschedule(r) ==
  /\ at[r] = "unschedule"
  /\ m_reconnectScheduled' = FALSE
  /\ Goto(r, "connect")
  /\ UNCHANGED <<cfg, flags, queue, m_started, stream, threads, history>>
-----------------------------------------------------------------------------
\* The io thread: it runs handlers until its io_context is stopped.
IoRuns == m_ioThread = "running" /\ ~ioStopped

io_exit ==
  /\ m_ioThread = "running" /\ ioStopped
  /\ m_ioThread' = "exited"
  /\ UNCHANGED <<cfg, flags, queue, restart, stream, m_heartbeatThread, history>>

\* do_resolve, do_connect: the next step of the connection, or an error.
NextPhase == [resolving |-> "connecting", connecting |-> "handshaking"]

establish ==
  /\ IoRuns /\ phase \in DOMAIN NextPhase
  /\ phase' = NextPhase[phase]
  /\ UNCHANGED <<cfg, flags, queue, restart, gen, reading, writes, posted, ioStopped, threads, history>>

\* do_handshake: the client is connected; start_heartbeat unless there is one.
handshake ==
  /\ IoRuns /\ phase = "handshaking"
  /\ phase' = "open" /\ reading' = TRUE
  /\ m_connected' = TRUE
  /\ m_heartbeatThread' = IF cfg.heartbeat /\ m_heartbeatThread = "none" THEN "running"
                          ELSE m_heartbeatThread
  /\ UNCHANGED <<cfg, m_closing, m_alive, m_heartbeatStop, m_autoReconnect, queue, restart, gen,
                 writes, posted, ioStopped, m_ioThread, history>>

establish_fails ==
  /\ IoRuns /\ phase \in {"resolving", "connecting", "handshaking"}
  /\ phase' = "dead" /\ failed' = TRUE
  /\ maybe_schedule_reconnect("error")
  /\ UNCHANGED <<cfg, flags, queue, gen, reading, writes, posted, ioStopped, threads, sent, wire, raced>>

\* do_read: a message, after which it reads on unless closing, or an error.
on_read ==
  /\ IoRuns /\ reading /\ phase = "open"
  /\ reading' = ~m_closing
  /\ UNCHANGED <<cfg, flags, queue, restart, gen, phase, writes, posted, ioStopped, threads, history>>

\* What an operation of the stream may report when it does not succeed.
Errors == IF phase = "open" THEN {"error"} ELSE {"aborted"}

Meets(ec) ==
  /\ phase' = "dead"
  /\ failed' = (failed \/ ec = "error")

on_read_error(ec) ==
  /\ IoRuns /\ reading
  /\ ec \in Errors \/ (ec = "closed" /\ phase = "open")
  /\ reading' = FALSE /\ Meets(ec)
  /\ m_connected' = FALSE
  /\ maybe_schedule_reconnect(ec)
  /\ UNCHANGED <<cfg, m_closing, m_alive, m_heartbeatStop, m_autoReconnect, queue, gen, writes,
                 posted, ioStopped, threads, sent, wire, raced>>

\* do_write on the queue q, where inProgress is m_writeInProgress so far.
do_write_Stops(q, others, inProgress) ==
  m_writeQueue' = q /\ writes' = others /\ m_writeInProgress' = inProgress

do_write(q, others, inProgress) ==
  /\ m_writeQueue' = q
  /\ writes' = IF m_closing \/ q = <<>> THEN others ELSE Append(others, Head(q))
  /\ m_writeInProgress' = (inProgress /\ (m_closing \/ q # <<>>))

Rest(q) == IF q = <<>> THEN <<>> ELSE Tail(q)

\* An async_write ends.  It goes on with the next message, after an abort too.
on_write ==
  /\ IoRuns /\ writes # <<>>
  /\ wire' = IF phase = "open" THEN Append(wire, Head(writes)) ELSE wire
  /\ do_write(Rest(m_writeQueue), Tail(writes),
              m_writeInProgress /\ phase = "open" /\ Rest(m_writeQueue) # <<>>)
  /\ UNCHANGED <<cfg, flags, restart, gen, phase, reading, posted, ioStopped, threads, sent, failed,
                 raced, overlooked>>

on_write_error ==
  /\ IoRuns /\ writes # <<>> /\ phase = "open"
  /\ Meets("error")
  /\ m_writeQueue' = Rest(m_writeQueue) /\ writes' = Tail(writes) /\ m_writeInProgress' = FALSE
  /\ maybe_schedule_reconnect("error")
  /\ UNCHANGED <<cfg, flags, gen, reading, posted, ioStopped, threads, sent, wire, raced>>
-----------------------------------------------------------------------------
\* The handlers that send_text, send_ping and close post.
NextPosted(kind) ==
  /\ IoRuns /\ posted # <<>> /\ Head(posted).kind = kind
  /\ posted' = Tail(posted)

on_send_Starts ==
  /\ NextPosted("send")
  /\ IF m_closing THEN UNCHANGED <<queue, writes>>
     ELSE do_write(Append(m_writeQueue, Head(posted).msg), writes, TRUE)
  /\ UNCHANGED <<cfg, flags, restart, gen, phase, reading, ioStopped, threads, history>>

on_send ==
  /\ NextPosted("send")
  /\ IF m_closing THEN UNCHANGED <<queue, writes>>
     ELSE LET q == Append(m_writeQueue, Head(posted).msg)
          IN IF m_writeInProgress
             THEN m_writeQueue' = q /\ UNCHANGED <<m_writeInProgress, writes>>
             ELSE do_write(q, writes, TRUE)
  /\ UNCHANGED <<cfg, flags, restart, gen, phase, reading, ioStopped, threads, history>>

\* async_ping with its completion.
on_ping ==
  /\ NextPosted("ping")
  /\ UNCHANGED <<cfg, flags, queue, restart, gen, phase, reading, writes, ioStopped, threads, history>>

on_ping_error ==
  /\ NextPosted("ping") /\ ~m_closing /\ phase = "open"
  /\ Meets("error")
  /\ maybe_schedule_reconnect("error")
  /\ UNCHANGED <<cfg, flags, queue, gen, reading, writes, ioStopped, threads, sent, wire, raced>>

on_close_posted ==
  /\ NextPosted("close")
  /\ phase' = "dead"
  /\ UNCHANGED <<cfg, flags, queue, restart, gen, reading, writes, ioStopped, threads, history>>
-----------------------------------------------------------------------------
ThreadStep(t) ==
  \/ connect_started(t) \/ init_stop(t) \/ init_join_io(t) \/ init_join_heartbeat(t)
  \/ init_io(t) \/ connect_spawn(t)
  \/ close_post(t) \/ close_stop(t) \/ close_join_io(t) \/ close_return(t)
  \/ reconnect(t) \/ reconnect_forget(t) \/ reconnect_unschedule(t) \/ (at[t] = "connect" /\ connect(t))

\* The steps of the io thread that come without the peer's doing.
IoStep ==
  \/ io_exit \/ establish \/ handshake \/ on_write \/ on_send \/ on_ping \/ on_close_posted
  \/ on_read_error("aborted")

Next ==
  \/ \E t \in Threads : ThreadStep(t)
  \/ \E t \in Users : connect(t) \/ close(t)
  \/ \E m \in 1..cfg.messages : send_text(m)
  \/ heartbeat_ends \/ send_ping
  \/ IoStep
  \/ establish_fails \/ on_read \/ on_read_error("error") \/ on_read_error("closed")
  \/ on_write_error \/ on_ping_error

Spec == Init /\ [][Next]_vars

\* Threads and handlers run; io_context serves every ready handler in the end.
FairSpec ==
  /\ Spec
  /\ \A t \in Threads : WF_vars(ThreadStep(t))
  /\ WF_vars(heartbeat_ends)
  /\ WF_vars(io_exit) /\ WF_vars(establish \/ handshake \/ establish_fails)
  /\ WF_vars(on_write) /\ WF_vars(on_send \/ on_ping \/ on_close_posted)
  /\ WF_vars(on_read_error("aborted"))
-----------------------------------------------------------------------------
\* The stream allows one async_write at a time, and the queue's front must stay while
\* it is written: while the connection lives there is at most one write, of the
\* front, and the messages go out in the order of the send_text calls, each once.
OneWriteInOrder ==
  /\ phase = "open" => Len(writes) <= 1 /\ \A i \in DOMAIN writes : writes[i] = Head(m_writeQueue)
  /\ Len(wire) <= Len(sent) /\ wire = SubSeq(sent, 1, Len(wire))

\* After close() has returned neither the io thread nor the heartbeat runs, unless the
\* close() began while a connect() was past its checks: that one starts the client
\* again.  (A detached reconnect thread may still sleep; it then finds the client closed.)
CloseIsFinal ==
  ~m_alive /\ ~raced /\ Closing = {} => m_ioThread = "none" /\ m_heartbeatThread = "none"

\* A reconnect never takes down a connection that works: init_io replaces a
\* connection only after that connection has failed, however the reconnect threads
\* and the users' connect() calls interleave, unless close() came in between.
HealthyStays == [][gen' # gen /\ gen > 0 => failed \/ ~m_alive]_vars

\* The heartbeat outlives its connection: init_io joins the heartbeat thread, which
\* only close() tells to stop, so with a heartbeat a connection that was open is not
\* replaced, failed or not, until close() is called.
ReconnectWaitsForClose ==
  [][m_heartbeatThread = "running" /\ m_alive => m_heartbeatThread' = "running" /\ gen' = gen]_vars

\* Without a heartbeat a connection that failed is replaced, unless the client closes
\* (or the bound on connections is reached).  One connection is not: one that a user's
\* connect() made between a reconnect thread's two stores, and that failed before the
\* second; the failure finds a reconnect scheduled that will not happen.
ReconnectHappens ==
  \A g \in 1..(MaxConnections - 1) :
    (gen = g /\ failed /\ cfg.autoReconnect /\ ~cfg.heartbeat) ~>
      (gen > g \/ ~m_alive \/ (gen = g /\ overlooked))

\* A message that was accepted on a connection is written, unless the connection ends
\* or the client closes.
MessagesGoOut ==
  \A m \in 1..2 :
    (phase = "open" /\ m \in Range(sent)) ~> (m \in Range(wire) \/ phase # "open" \/ ~m_alive)
=============================================================================
