------------------------------- MODULE WsSession -------------------------------
(***************************************************************************)
(* ws/server/WsSession.hpp: one WebSocket session, its send queue, its     *)
(* timers and its ways to close.                                           *)
(*                                                                         *)
(* s is the session object together with what it has in flight; a method   *)
(* is an operator from the record before the call to the record after it.  *)
(* s.ready is the queue of handlers posted to the io_context, which the    *)
(* engine runs on ioThreads threads.  The completion of a stream operation *)
(* and its handler begin in one step.  The handlers of cancelled timers    *)
(* return at once and are left out; those of timers that expired before    *)
(* they were cancelled still run.                                          *)
(*                                                                         *)
(* With one io thread a handler is one step.  With more any of the first   *)
(* posted handlers may be the next to begin, and since neither a strand    *)
(* nor a lock keeps the handlers of a session apart they overlap: what a   *)
(* handler does after its tests is a step of its own, kept in s.running,   *)
(* and acts on what it read before.                                        *)
(*                                                                         *)
(* The stream (Beast) and the peer are external: stream is its status,     *)
(* reading, writes and closes are the operations it has not completed.     *)
(* The first operation that meets a dead connection ends the stream; later *)
(* ones are aborted.                                                       *)
(***************************************************************************)
EXTENDS Integers, Sequences, Functions

CONSTANTS MaxMessages,         \* bound on the messages users have
          Size(_),             \* the bytes of a message, by its number
          maxQueuedMessages, maxQueuedBytes,
          SizeT,               \* size_t counts modulo this
          Configs,             \* io threads, whether pings and idling are on, how many of
                               \* the messages are sent, how often users close, and
                               \* whether the server stops
          MaxPosted            \* no timer expires and no pong comes above it

Messages == 1..MaxMessages

ASSUME SessionAssumption ==
  /\ MaxMessages \in Nat
  /\ \A m \in Messages : Size(m) \in Nat
  /\ maxQueuedMessages \in Nat /\ maxQueuedBytes \in Nat /\ SizeT \in Nat
  /\ maxQueuedMessages + 1 < SizeT /\ \A m \in Messages : maxQueuedBytes + Size(m) < SizeT
  /\ Configs \subseteq [ioThreads : Nat \ {0}, pingInterval : BOOLEAN, idleTimeout : BOOLEAN,
                  messages : 0..MaxMessages, closes : Nat, stops : BOOLEAN]
  /\ MaxPosted \in Nat

VARIABLES
  cfg,          \* its configuration, which does not change
  s,            \* the session
  shutdownCall, \* where the server's stop() is in close_for_shutdown
  sent,         \* history: messages given to send_text, in order
  wire,         \* history: messages the stream wrote, in order
  closesLeft    \* the bound on user calls

vars == <<cfg, s, shutdownCall, sent, wire, closesLeft>>

\* Of s the last four are history: two writes were in flight in a shutdown, a write
\* lost its buffer while in flight, the stream reported its error to an operation that
\* does not report the session closed, and the io threads an exception has not ended.
Init ==
  /\ cfg \in Configs
  /\ s = [m_curState |-> "opening", m_writeQueue |-> <<>>, m_currentQueuedMessages |-> 0,
          m_currentQueuedBytes |-> 0, m_writing |-> FALSE, m_closeNotified |-> FALSE,
          m_idleTimer |-> "off", m_heartbeatTimer |-> FALSE, opened |-> FALSE,
          ready |-> <<>>, running |-> <<>>, expired |-> {}, handshake |-> "request",
          stream |-> "handshake", reading |-> FALSE, writes |-> <<>>, closes |-> 0,
          overlapped |-> FALSE, freed |-> FALSE, swallowed |-> FALSE, threads |-> cfg.ioThreads]
  /\ shutdownCall = "none"
  /\ sent = <<>> /\ wire = <<>>
  /\ closesLeft = cfg.closes
-----------------------------------------------------------------------------
\* A sequence without its i-th element.
Without(q, i) == SubSeq(q, 1, i - 1) \o SubSeq(q, i + 1, Len(q))

Post(x, h) == [x EXCEPT !.ready = Append(@, h)]

\* The rest of a handler, named r, which makes y of x: with one io thread nothing
\* comes before it.
Rest(x, r, y) == IF cfg.ioThreads = 1 THEN y ELSE [x EXCEPT !.running = Append(@, r)]

\* An io thread is free to begin a handler.
IoFree == Len(s.running) < s.threads

is_open(x)     == x.m_curState = "open"
is_shutdown(x) == x.m_curState = "shutdown"
is_closing_or_closed(x) == x.m_curState \in {"closing", "closed", "shutdown"}

\* What keeps the session alive; the ping handler holds a plain this.
Alive(x) ==
  \/ x.handshake # "done" \/ x.reading \/ x.writes # <<>> \/ x.closes > 0
  \/ x.m_idleTimer # "off" \/ x.m_heartbeatTimer \/ x.expired # {} \/ x.running # <<>>
  \/ \E i \in DOMAIN x.ready : x.ready[i].k # "ping"

\* External: stream operations the session starts.
async_read(x) == [x EXCEPT !.reading = TRUE]

async_write(x, draining) ==
  [x EXCEPT !.writes = Append(@, [msg |-> Head(x.m_writeQueue), draining |-> draining]),
            !.overlapped = @ \/ (is_shutdown(x) /\ x.writes # <<>>)]

async_close(x) ==
  [x EXCEPT !.closes = @ + 1, !.stream = IF @ = "open" THEN "closing" ELSE @]

\* Timers: one timer serves idling and draining; arming it cancels what it was.
run_idle_timer(x) ==
  IF cfg.idleTimeout THEN [x EXCEPT !.m_idleTimer = "idle"] ELSE x
cancel_idle_timer(x)    == [x EXCEPT !.m_idleTimer = "off"]
run_drain_timer(x)      == [x EXCEPT !.m_idleTimer = "drain"]
run_heartbeat_timer(x) == [x EXCEPT !.m_heartbeatTimer = TRUE]
stop_heartbeat_timer(x) == [x EXCEPT !.m_heartbeatTimer = FALSE]

close_forcefully(x) == Post(x, [k |-> "close_forcefully"])

close(x) == Post(x, [k |-> "close"])

\* The queue is emptied, also of the message a write in flight is reading.
Cleared(x) ==
  [x EXCEPT !.m_writeQueue = <<>>, !.freed = @ \/ (x.m_writeQueue # <<>> /\ x.writes # <<>>)]

\* begin_closing behind its test, and with it.
StartClosing(x) ==
  [Cleared(stop_heartbeat_timer(cancel_idle_timer(x))) EXCEPT
     !.m_curState = "closing", !.m_writing = FALSE,
     !.m_currentQueuedBytes = 0, !.m_currentQueuedMessages = 0]

begin_closing(x) == IF is_closing_or_closed(x) THEN x ELSE StartClosing(x)

\* handle_close, called for the first notification only, takes the session out of
\* the server's list.
mark_closed_and_notify_once(x) ==
  [x EXCEPT !.m_curState = "closed", !.m_closeNotified = TRUE]

do_drain_queue(x) ==
  IF x.m_writing THEN x
  ELSE IF x.m_writeQueue = <<>> THEN close_forcefully(x)
  ELSE async_write([x EXCEPT !.m_writing = TRUE], TRUE)

do_write_next(x) ==
  IF is_shutdown(x) THEN do_drain_queue([x EXCEPT !.m_writing = FALSE])
  ELSE IF ~is_open(x) THEN [Cleared(x) EXCEPT !.m_writing = FALSE]
  ELSE IF x.m_writeQueue = <<>> THEN [x EXCEPT !.m_writing = FALSE]
  ELSE async_write([x EXCEPT !.m_writing = TRUE], FALSE)

\* The counters with one more message.
adjust_message_counters(x, m) ==
  [messages |-> (x.m_currentQueuedMessages + 1) % SizeT,
   bytes    |-> (x.m_currentQueuedBytes + Size(m)) % SizeT]

check_message_size(x, m) ==
  LET more == adjust_message_counters(x, m)
  IN more.messages <= maxQueuedMessages /\ more.bytes <= maxQueuedBytes

decrement_message_counters_Twice(x, m) ==
  [x EXCEPT !.m_currentQueuedMessages = (@ - 1) % SizeT, !.m_currentQueuedBytes = (@ - 2 * Size(m)) % SizeT]

decrement_message_counters(x, m) ==
  [x EXCEPT !.m_currentQueuedMessages = (@ - 1) % SizeT,
            !.m_currentQueuedBytes = (@ - Size(m)) % SizeT]

\* remote_endpoint throws on a socket that is no longer connected; the exception ends
\* the io thread instead of the session.
queue_overflow(x, connected) ==
  IF connected THEN close(x) ELSE [x EXCEPT !.threads = @ - 1]

\* A message that was let in joins the queue, with the counters that were read then.
push_message_AlwaysWrites(x, r) ==
  do_write_next([x EXCEPT !.m_currentQueuedMessages = r.counters.messages,
                          !.m_currentQueuedBytes = r.counters.bytes,
                          !.m_writeQueue = Append(@, r.msg)])

push_message(x, r) ==
  LET y == [x EXCEPT !.m_currentQueuedMessages = r.counters.messages,
                     !.m_currentQueuedBytes = r.counters.bytes,
                     !.m_writeQueue = Append(@, r.msg)]
  IN IF y.m_writing THEN y ELSE Rest(y, [k |-> "write_next"], do_write_next(y))

\* In shutdown the message is dropped and the queue is drained, whether or not a
\* write is in flight.  An overflow closes the session.
do_enqueue_message(x, m, connected) ==
  LET push == [k |-> "push", msg |-> m, counters |-> adjust_message_counters(x, m)]
  IN IF is_shutdown(x) THEN do_write_next(x)
     ELSE IF ~is_open(x) THEN x
     ELSE IF ~check_message_size(x, m) THEN queue_overflow(x, connected)
     ELSE Rest(x, push, push_message(x, push))

do_heartbeat_next(x) == Post(run_heartbeat_timer(x), [k |-> "ping"])

do_heartbeat(x) == IF cfg.pingInterval THEN do_heartbeat_next(x) ELSE x

do_read(x) == IF is_open(x) THEN async_read(x) ELSE x

\* What on_accept and on_read do last.
read_first(x) == do_read(run_idle_timer(do_heartbeat(x)))
read_next(x)  == do_read(run_idle_timer(x))
-----------------------------------------------------------------------------
OnlySession == UNCHANGED <<cfg, shutdownCall, sent, wire, closesLeft>>

\* do_accept: the HTTP request arrives, the router decides, the upgrade follows.
\* validate_handshake_request hands a failed read to on_accept.
validate_handshake_request ==
  /\ s.handshake = "request" /\ IoFree
  /\ \/ s' = [s EXCEPT !.handshake = "done", !.m_curState = "closed", !.stream = "ended"]
     \/ s' = [s EXCEPT !.handshake = "upgrade"]
     \/ s' = [s EXCEPT !.handshake = "reject", !.m_curState = "closing"]
  /\ OnlySession

reject_handshake ==
  /\ s.handshake = "reject" /\ IoFree
  /\ s' = [s EXCEPT !.handshake = "done", !.m_curState = "closed", !.stream = "ended"]
  /\ OnlySession

\* handle_open registers the session; then the heartbeat, the idle timer, a read.
on_accept ==
  /\ s.handshake = "upgrade" /\ IoFree
  /\ \/ s' = [s EXCEPT !.handshake = "done", !.m_curState = "closed", !.stream = "ended"]
     \/ LET x == [s EXCEPT !.handshake = "done", !.m_curState = "open", !.opened = TRUE,
                           !.stream = "open"]
        IN s' = Rest(x, [k |-> "read_first"], read_first(x))
  /\ OnlySession

\* on_read of a message, whose user handler acts through send and close only; of an
\* error: the peer closed or answered our close, or the connection is gone.
on_read ==
  /\ s.reading /\ s.stream \in {"open", "closing"} /\ IoFree
  /\ LET x == cancel_idle_timer([s EXCEPT !.reading = FALSE])
     IN s' = IF is_open(x) THEN Rest(x, [k |-> "read_next"], read_next(x)) ELSE x
  /\ OnlySession

on_read_error ==
  /\ s.reading /\ IoFree
  /\ s' = mark_closed_and_notify_once(begin_closing(cancel_idle_timer(
            [s EXCEPT !.reading = FALSE, !.stream = "ended"])))
  /\ OnlySession

\* The completion of async_write, in do_write_next and in do_drain_queue: x is the
\* session without the write, m the message written.
Popped(x, m) ==
  IF x.m_writeQueue = <<>> THEN x
  ELSE decrement_message_counters(
         [x EXCEPT !.m_writeQueue = Tail(@), !.freed = @ \/ x.writes # <<>>], m)

on_write_complete(x, m, ok) ==
  LET y == Popped(x, m)
  IN IF ok THEN Rest(y, [k |-> "write_next"], do_write_next(y))
     ELSE mark_closed_and_notify_once(begin_closing(x))

drain_next(x) == do_drain_queue([x EXCEPT !.m_writing = FALSE])

on_drain_message_complete(x, m, ok) ==
  LET y == Popped(x, m)
  IN IF ok THEN Rest(y, [k |-> "drain_next"], drain_next(y))
     ELSE close_forcefully([x EXCEPT !.swallowed = @ \/ ~x.reading])

write_completes ==
  /\ s.writes # <<>> /\ IoFree
  /\ \E ok \in BOOLEAN :
       LET w == Head(s.writes)
           x == [s EXCEPT !.writes = Tail(@), !.stream = IF ok THEN @ ELSE "ended"]
       IN /\ ok => s.stream \in {"open", "closing"}
          /\ s' = IF w.draining THEN on_drain_message_complete(x, w.msg, ok)
                  ELSE on_write_complete(x, w.msg, ok)
          /\ wire' = IF ok THEN Append(wire, w.msg) ELSE wire
  /\ UNCHANGED <<cfg, shutdownCall, sent, closesLeft>>

\* The completion of async_close: the peer answered or is gone, and no read was in
\* flight to learn of it; or the stream had ended and the close is aborted.
close_completes_Silent ==
  /\ s.closes > 0 /\ ~s.reading /\ IoFree
  /\ s' = [s EXCEPT !.closes = @ - 1, !.stream = "ended"]
  /\ OnlySession

close_completes ==
  /\ s.closes > 0 /\ IoFree
  /\ LET x == [s EXCEPT !.closes = @ - 1, !.stream = "ended"]
     IN \/ s.stream = "closing" /\ ~s.reading /\ s' = mark_closed_and_notify_once(x)
        \/ s.stream = "ended" /\ s' = x
  /\ OnlySession

\* A pong: the read handles it in its control callback.
on_pong ==
  /\ cfg.pingInterval /\ s.reading /\ s.stream \in {"open", "closing"} /\ IoFree
  /\ Len(s.ready) < MaxPosted
  /\ s' = do_heartbeat_next(stop_heartbeat_timer(s))
  /\ OnlySession

\* A timer expires, which queues its handler.
timer_expires ==
  /\ Len(s.ready) < MaxPosted
  /\ \/ /\ s.m_idleTimer # "off"
        /\ s' = [s EXCEPT !.m_idleTimer = "off", !.expired = @ \cup {s.m_idleTimer}]
     \/ /\ s.m_heartbeatTimer
        /\ s' = [s EXCEPT !.m_heartbeatTimer = FALSE, !.expired = @ \cup {"heartbeat"}]
  /\ OnlySession

on_idle_timeout(x)      == close(x)
on_heartbeat_timeout(x) == close(x)
on_drain_timeout(x)     == close_forcefully(x)

on_timeout ==
  /\ IoFree
  /\ \E k \in s.expired :
       LET x == [s EXCEPT !.expired = @ \ {k}]
       IN s' = CASE k = "idle"      -> on_idle_timeout(x)
                 [] k = "heartbeat" -> on_heartbeat_timeout(x)
                 [] k = "drain"     -> on_drain_timeout(x)
  /\ OnlySession
-----------------------------------------------------------------------------
\* The handlers close, close_for_shutdown, close_forcefully and do_heartbeat_next
\* post.  On a session that was destroyed before its ping runs anything may happen,
\* and nothing of the session is left to change.
close_posted(x) ==
  IF is_closing_or_closed(x) THEN x
  ELSE Rest(x, [k |-> "close"], async_close(StartClosing(x)))

close_for_shutdown_posted(x) ==
  LET y == run_drain_timer([cancel_idle_timer(x) EXCEPT !.m_curState = "shutdown"])
  IN Rest(y, [k |-> "drain"], do_drain_queue(y))

CloseNow(x) == async_close([cancel_idle_timer(x) EXCEPT !.m_curState = "closing"])

close_forcefully_posted(x) ==
  IF x.m_curState = "closed" THEN x ELSE Rest(x, [k |-> "close_now"], CloseNow(x))

\* The ping goes out, fails and so ends the stream, or finds it ended.
on_ping(x, ok) ==
  IF ~Alive(x) \/ (ok /\ x.stream \in {"open", "closing"}) THEN x
  ELSE close([x EXCEPT !.stream = "ended", !.swallowed = @ \/ (x.stream # "ended" /\ ~x.reading)])

\* ok: whether the socket is connected.
run_posted ==
  /\ IoFree
  /\ \E i \in DOMAIN s.ready, ok \in BOOLEAN :
       LET h == s.ready[i]
           x == [s EXCEPT !.ready = Without(@, i)]
       IN /\ i <= s.threads
          /\ s' = CASE h.k = "enqueue"            -> do_enqueue_message(x, h.msg, ok)
                    [] h.k = "close"              -> close_posted(x)
                    [] h.k = "close_for_shutdown" -> close_for_shutdown_posted(x)
                    [] h.k = "close_forcefully"   -> close_forcefully_posted(x)
                    [] h.k = "ping"               -> on_ping(x, ok)
  /\ OnlySession

\* A handler among those that overlap goes on.
run_rest ==
  /\ \E i \in DOMAIN s.running :
       LET r == s.running[i]
           x == [s EXCEPT !.running = Without(@, i)]
       IN s' = CASE r.k = "push"       -> push_message(x, r)
                 [] r.k = "write_next" -> do_write_next(x)
                 [] r.k = "drain_next" -> drain_next(x)
                 [] r.k = "drain"      -> do_drain_queue(x)
                 [] r.k = "close"      -> async_close(StartClosing(x))
                 [] r.k = "close_now"  -> CloseNow(x)
                 [] r.k = "read_first" -> read_first(x)
                 [] r.k = "read_next"  -> read_next(x)
  /\ OnlySession
-----------------------------------------------------------------------------
\* send_text or send_binary by a user; the message is copied into the handler.
send_text(m) ==
  /\ m \notin Range(sent) /\ \A n \in Messages : n < m => n \in Range(sent)
  /\ m <= cfg.messages /\ is_open(s)
  /\ s' = Post(s, [k |-> "enqueue", msg |-> m])
  /\ sent' = Append(sent, m)
  /\ UNCHANGED <<cfg, shutdownCall, wire, closesLeft>>

\* Users close an open session; the server closes one that outlived the drain
\* time forcefully.
user_close ==
  /\ s.opened /\ Alive(s) /\ closesLeft > 0
  /\ closesLeft' = closesLeft - 1
  /\ \/ s' = close(s)
     \/ shutdownCall = "posted" /\ s' = close_forcefully(s)
  /\ UNCHANGED <<cfg, shutdownCall, sent, wire>>

\* close_for_shutdown, on the thread of stop(): it looks at the state, then posts.
close_for_shutdown ==
  /\ cfg.stops /\ shutdownCall = "none" /\ s.opened /\ Alive(s)
  /\ shutdownCall' = IF is_closing_or_closed(s) THEN "posted" ELSE "checked"
  /\ UNCHANGED <<cfg, s, sent, wire, closesLeft>>

close_for_shutdown_post ==
  /\ shutdownCall = "checked"
  /\ shutdownCall' = "posted"
  /\ s' = Post(s, [k |-> "close_for_shutdown"])
  /\ UNCHANGED <<cfg, sent, wire, closesLeft>>
-----------------------------------------------------------------------------
Next ==
  \/ validate_handshake_request \/ reject_handshake \/ on_accept
  \/ on_read \/ on_read_error \/ write_completes \/ close_completes
  \/ on_pong \/ timer_expires \/ on_timeout \/ run_posted \/ run_rest
  \/ \E m \in Messages : send_text(m)
  \/ user_close \/ close_for_shutdown \/ close_for_shutdown_post

\* The session object is gone, or no io thread is left.
Ended == (~Alive(s) \/ s.threads = 0) /\ UNCHANGED vars

Spec == Init /\ [][Next \/ Ended]_vars

\* The io threads run their handlers, the stream completes what it is given, and
\* the peer of a stream that is closing answers or loses the connection.
FairSpec ==
  /\ Spec
  /\ WF_vars(run_posted) /\ WF_vars(run_rest) /\ WF_vars(on_timeout)
  /\ WF_vars(write_completes) /\ WF_vars(close_completes)
  /\ WF_vars(s.stream # "open" /\ on_read_error)
-----------------------------------------------------------------------------
\* With one io thread messages leave one write at a time, each at most once and in the
\* order of send_text, and while the session is open the bytes being written stay in
\* the queue; begin_closing takes them away.  Exempt is a session on which a message
\* was enqueued in shutdown while a write was in flight: do_write_next then starts a
\* second one.
SendOrder ==
  cfg.ioThreads = 1 /\ ~s.overlapped =>
    /\ Len(s.writes) <= 1
    /\ \A i, j \in DOMAIN wire : i < j => wire[i] < wire[j]
    /\ is_open(s) /\ s.writes # <<>>
         => s.m_writeQueue # <<>> /\ Head(s.writes).msg = Head(s.m_writeQueue)

\* The running totals of the bytes in a queue; the last one is what the queue holds.
Totals(q) ==
  {t \in [0..Len(q) -> 0..maxQueuedBytes] :
     t[0] = 0 /\ \A i \in 1..Len(q) : t[i] = t[i - 1] + Size(q[i])}

\* With one io thread the counters are exact while the session is open, which is when
\* they are consulted, whatever closes it meanwhile.  Later they still cover the queue
\* and have not wrapped, unless two writes overlapped in a shutdown.
CountersCover ==
  LET length == Len(s.m_writeQueue)
  IN cfg.ioThreads = 1 /\ (~s.overlapped \/ is_open(s)) =>
       \E total \in Totals(s.m_writeQueue) :
         /\ s.m_currentQueuedMessages \in length..maxQueuedMessages
         /\ s.m_currentQueuedBytes \in total[length]..maxQueuedBytes
         /\ is_open(s) => /\ s.m_currentQueuedMessages = length
                          /\ s.m_currentQueuedBytes = total[length]

\* A session that begins to close is reported closed to the router, once a peer
\* answers or goes away, also when its handlers overlap.  Exempt is a session whose
\* stream reported its one error to the write of a drain or to a ping while no read was
\* in flight: its async_close is aborted.
ClosingIsReported ==
  (s.opened /\ s.m_curState = "closing" /\ ~s.swallowed)
    ~> (s.m_closeNotified \/ s.swallowed)
=============================================================================
