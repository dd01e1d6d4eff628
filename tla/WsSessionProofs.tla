---------------------------- MODULE WsSessionProofs ----------------------------
(***************************************************************************)
(* Proofs about WsSession with one io thread, for any messages and their   *)
(* sizes, any limits of the send queue and any configuration of the        *)
(* timers: the order in which messages leave, and the counters of the      *)
(* queue.  With more io threads the handlers overlap and neither holds.    *)
(***************************************************************************)
EXTENDS WsSession, TLAPS

\* The fields of a session object.
Fields == {"m_curState", "m_writeQueue", "m_currentQueuedMessages", "m_currentQueuedBytes",
           "m_writing", "m_closeNotified", "m_idleTimer", "m_heartbeatTimer", "opened", "ready",
           "running", "expired", "handshake", "stream", "reading", "writes", "closes",
           "overlapped", "freed", "swallowed", "threads"}

\* The handlers that carry no message, and all of them.
Kinds == {"close", "close_for_shutdown", "close_forcefully", "ping"}

Handlers == [k : Kinds] \cup [k : {"enqueue"}, msg : Messages]

\* A session object has its fields and no others; its handlers and its timers are of
\* the kinds there are; no handler overlaps another one.
Shape(x) ==
  /\ DOMAIN x = Fields /\ x = [f \in Fields |-> x[f]] /\ x.overlapped \in BOOLEAN
  /\ x.ready \in Seq(Handlers)
  /\ x.running = <<>> /\ x.threads \in Int /\ x.threads <= 1
  /\ x.m_idleTimer \in {"off", "idle", "drain"} /\ x.expired \subseteq {"idle", "drain", "heartbeat"}

\* The types of what messages pass through.
Typed(x) ==
  /\ x.m_writeQueue \in Seq(Messages) /\ x.ready \in Seq(Handlers)
  /\ x.writes \in Seq([msg : Messages, draining : BOOLEAN])
  /\ x.m_writing \in BOOLEAN

\* Nothing was sent on a session that was never open.
Pristine(x) ==
  ~x.opened => ~is_open(x) /\ x.m_writeQueue = <<>> /\ x.writes = <<>> /\ ~x.m_writing

\* One write is in flight, of the message at the head of the queue, unless closing
\* emptied the queue meanwhile; those of do_drain_queue begin when the session is no
\* longer open.
OneWrite(x) ==
  /\ Len(x.writes) <= 1
  /\ x.writes # <<>> =>
       /\ is_open(x) => x.m_writeQueue # <<>> /\ ~x.writes[1].draining
       /\ x.m_writeQueue # <<>> => x.m_writeQueue[1] = x.writes[1].msg

\* Messages have the numbers 1, 2, ... in the order of send_text.  A message before
\* another one on its way to the stream was sent earlier.
Precedes(a, b) == a < b

\* The messages of a sequence are in order, and so is everything on its way.
InLine(q) == \A i, j \in DOMAIN q : i < j => Precedes(q[i], q[j])

IsEnqueue(x, i) == x.ready[i].k = "enqueue"

\* The messages in the posted handlers; those in the queue or being written.
Posted(x) == {x.ready[i].msg : i \in {j \in DOMAIN x.ready : IsEnqueue(x, j)}}
Handed(x) == Range(x.m_writeQueue) \cup {x.writes[i].msg : i \in DOMAIN x.writes}

Ordered(x, v) ==
  /\ InLine(v) /\ InLine(x.m_writeQueue)
  /\ \A i, j \in DOMAIN x.ready :
       i < j /\ IsEnqueue(x, i) /\ IsEnqueue(x, j) => Precedes(x.ready[i].msg, x.ready[j].msg)
  /\ \A a \in Range(v) : \A b \in Handed(x) \cup Posted(x) : Precedes(a, b)
  /\ \A a \in Handed(x) : \A b \in Posted(x) : Precedes(a, b)

\* Messages are sent in the order of their numbers, and none is invented.
OnlySent(x, v, z) ==
  /\ v \in Seq(Messages) /\ z \in Seq(Messages)
  /\ Range(v) \cup Handed(x) \cup Posted(x) \subseteq Range(z)
  /\ \A n \in Range(z) : \A k \in Messages : k < n => k \in Range(z)

\* What every method keeps, given what was written and what was sent.
Good(x, v, z) ==
  /\ Shape(x)
  /\ ~x.overlapped => Typed(x) /\ Pristine(x) /\ OneWrite(x) /\ Ordered(x, v) /\ OnlySent(x, v, z)

\* Between two steps m_writing also tells whether a write is in flight.
Settled(x) == ~x.overlapped /\ is_open(x) => (x.m_writing <=> x.writes # <<>>)

\* The inductive invariant.
Inv ==
  /\ Good(s, wire, sent) /\ Settled(s)
  /\ s.handshake # "done" => ~s.opened
-----------------------------------------------------------------------------
\* The elements of a sequence, by their positions.
LEMMA RangeIs ==
  ASSUME NEW S, NEW q \in Seq(S)
  PROVE  /\ Len(q) \in Nat /\ DOMAIN q = 1..Len(q)
         /\ Range(q) = {q[i] : i \in 1..Len(q)} /\ Range(q) \subseteq S
         /\ q = <<>> <=> Len(q) = 0
BY DEF Range

\* No elements.
LEMMA EmptyFacts == DOMAIN <<>> = {} /\ Range(<<>>) = {} /\ \A S : <<>> \in Seq(S)
BY DEF Range

\* One more element.
LEMMA AppendFacts ==
  ASSUME NEW S, NEW q \in Seq(S), NEW e \in S
  PROVE  /\ Append(q, e) \in Seq(S) /\ Append(q, e) # <<>>
         /\ Len(Append(q, e)) = Len(q) + 1
         /\ DOMAIN Append(q, e) = 1..(Len(q) + 1)
         /\ \A i \in 1..Len(q) : Append(q, e)[i] = q[i]
         /\ Append(q, e)[Len(q) + 1] = e
         /\ Range(Append(q, e)) = Range(q) \cup {e}
<1> DEFINE r == Append(q, e)
<1>1. /\ r \in Seq(S) /\ r # <<>> /\ Len(r) = Len(q) + 1 /\ r[Len(q) + 1] = e
      /\ DOMAIN r = 1..(Len(q) + 1) /\ \A i \in 1..Len(q) : r[i] = q[i]
  OBVIOUS
<1> HIDE DEF r
<1>2. Len(q) \in Nat /\ Range(q) = {q[i] : i \in 1..Len(q)} /\ Range(r) = {r[i] : i \in 1..Len(r)}
  BY <1>1, RangeIs
<1>3. 1..Len(r) = 1..Len(q) \cup {Len(q) + 1}
  BY <1>1, <1>2
<1>4. Range(r) = Range(q) \cup {e}
  BY <1>1, <1>2, <1>3
<1> QED BY <1>1, <1>4 DEF r

\* The first element, and the others.
LEMMA TailFacts ==
  ASSUME NEW S, NEW q \in Seq(S), q # <<>>
  PROVE  /\ Tail(q) \in Seq(S) /\ Len(Tail(q)) = Len(q) - 1 /\ Head(q) = q[1]
         /\ q[1] \in Range(q) /\ q[1] \in S
         /\ DOMAIN Tail(q) = 1..(Len(q) - 1)
         /\ \A i \in 1..(Len(q) - 1) : Tail(q)[i] = q[i + 1]
         /\ Range(Tail(q)) \subseteq Range(q)
<1> DEFINE r == Tail(q)
<1>1. /\ r \in Seq(S) /\ Len(r) = Len(q) - 1 /\ Head(q) = q[1] /\ Len(q) \in Nat \ {0}
      /\ DOMAIN r = 1..(Len(q) - 1) /\ \A i \in 1..(Len(q) - 1) : r[i] = q[i + 1]
  OBVIOUS
<1> HIDE DEF r
<1>2. Range(q) = {q[i] : i \in 1..Len(q)} /\ Range(r) = {r[i] : i \in 1..Len(r)} /\ Range(q) \subseteq S
  BY <1>1, RangeIs
<1>3. \A i \in 1..Len(r) : i + 1 \in 1..Len(q)
  BY <1>1
<1>4. Range(r) \subseteq Range(q) /\ q[1] \in Range(q)
  BY <1>1, <1>2, <1>3
<1> QED BY <1>1, <1>2, <1>4 DEF r

\* A sequence of one element has no others.
LEMMA TailOfOne ==
  ASSUME NEW S, NEW q \in Seq(S), q # <<>>, Len(q) <= 1
  PROVE  Tail(q) = <<>>
<1>1. Tail(q) \in Seq(S) /\ Len(Tail(q)) = Len(q) - 1 /\ Len(q) \in Nat \ {0}
  BY TailFacts, RangeIs
<1>2. Len(Tail(q)) = 0
  BY <1>1
<1> QED BY <1>1, <1>2

\* Taking one handler out of the io_context's queue.
LEMMA WithoutFacts ==
  ASSUME NEW S, NEW q \in Seq(S), NEW i \in 1..Len(q)
  PROVE  /\ Without(q, i) \in Seq(S) /\ DOMAIN Without(q, i) = 1..(Len(q) - 1)
         /\ \A j \in 1..(Len(q) - 1) : Without(q, i)[j] = IF j < i THEN q[j] ELSE q[j + 1]
<1> DEFINE a == SubSeq(q, 1, i - 1)
           b == SubSeq(q, i + 1, Len(q))
<1>1. /\ a \in Seq(S) /\ Len(a) = i - 1 /\ \A j \in 1..(i - 1) : a[j] = q[j]
  OBVIOUS
<1>2. /\ b \in Seq(S) /\ Len(b) = Len(q) - i /\ \A j \in 1..(Len(q) - i) : b[j] = q[j + i]
  OBVIOUS
<1>3. Without(q, i) = a \o b
  BY DEF Without
<1> HIDE DEF a, b
<1>4. /\ a \o b \in Seq(S) /\ Len(a \o b) = Len(q) - 1
      /\ DOMAIN (a \o b) = 1..(Len(q) - 1)
  <2>1. a \in Seq(S) /\ b \in Seq(S)
    BY <1>1, <1>2
  <2>2. a \o b \in Seq(S) /\ Len(a \o b) = Len(a) + Len(b)
    BY <2>1
  <2>3. Len(a) + Len(b) = Len(q) - 1
    BY <1>1, <1>2
  <2> QED BY <2>2, <2>3, RangeIs
<1>5. ASSUME NEW j \in 1..(Len(q) - 1) PROVE (a \o b)[j] = IF j < i THEN q[j] ELSE q[j + 1]
  <2>1. CASE j < i
    BY <1>1, <1>2, <2>1
  <2>2. CASE ~(j < i)
    <3>1. j - (i - 1) \in 1..(Len(q) - i) /\ (j - (i - 1)) + i = j + 1
      BY <2>2
    <3>2. (a \o b)[j] = b[j - (i - 1)]
      BY <1>1, <1>2, <2>2, <3>1
    <3> QED BY <1>2, <2>2, <3>1, <3>2
  <2> QED BY <2>1, <2>2, Zenon
<1> QED BY <1>3, <1>4, <1>5
-----------------------------------------------------------------------------
\* y is x after a method that may close the session and empty its queue, and may post
\* a handler, but moves no message.
Keeps(x, y) ==
  /\ Shape(y)
  /\ y.overlapped = x.overlapped /\ y.writes = x.writes /\ y.opened = x.opened
  /\ \/ y.m_curState = x.m_curState /\ y.m_writeQueue = x.m_writeQueue /\ y.m_writing = x.m_writing
     \/ /\ ~is_open(y) /\ y.m_writeQueue \in {x.m_writeQueue, <<>>}
        /\ y.m_writing \in {x.m_writing, FALSE}
  /\ \/ y.ready = x.ready
     \/ \E h \in Handlers : h.k # "enqueue" /\ y.ready = Append(x.ready, h)

\* A method leaves the handshake alone, and whether the session was ever open.
Frame(x, y) == y.opened = x.opened /\ y.handshake = x.handshake

\* Post adds a handler and changes nothing else.
LEMMA PostFacts ==
  ASSUME NEW x, Shape(x), NEW h \in Handlers
  PROVE  LET y == Post(x, h)
         IN  /\ Shape(y) /\ y.ready = Append(x.ready, h) /\ Frame(x, y)
             /\ y.m_curState = x.m_curState /\ y.m_writeQueue = x.m_writeQueue
             /\ y.m_writing = x.m_writing /\ y.overlapped = x.overlapped
             /\ y.writes = x.writes
<1> DEFINE r == Append(x.ready, h)
<1>1. r \in Seq(Handlers)
  BY AppendFacts DEF Shape
<1>2. Post(x, h) = [x EXCEPT !.ready = r]
  BY DEF Post
<1> HIDE DEF r
<1>3. /\ Shape([x EXCEPT !.ready = r]) /\ [x EXCEPT !.ready = r].ready = r
      /\ Frame(x, [x EXCEPT !.ready = r])
  BY <1>1, Zenon DEF Shape, Fields, Frame
<1> QED BY <1>2, <1>3, ZenonT(60) DEF r, Shape, Fields

\* A method that does no more than post a handler, or does so last.
LEMMA PostKeeps ==
  ASSUME NEW x, NEW u, Keeps(x, u), Frame(x, u), u.ready = x.ready, NEW n \in Kinds
  PROVE  LET y == Post(u, [k |-> n]) IN Keeps(x, y) /\ Frame(x, y) /\ y.m_curState = u.m_curState
<1> DEFINE h == [k |-> n]
           y == Post(u, h)
<1>1. h \in Handlers /\ h.k # "enqueue"
  BY DEF Handlers, Kinds
<1> HIDE DEF h
<1>2. /\ Shape(y) /\ y.ready = Append(x.ready, h) /\ Frame(u, y)
      /\ y.m_curState = u.m_curState /\ y.m_writeQueue = u.m_writeQueue
      /\ y.m_writing = u.m_writing /\ y.overlapped = u.overlapped
      /\ y.writes = u.writes
  BY <1>1, PostFacts DEF Keeps
<1> HIDE DEF y
<1>3. Keeps(x, y) /\ Frame(x, y)
  BY <1>1, <1>2, Zenon DEF Keeps, Frame, is_open
<1> QED BY <1>2, <1>3 DEF y, h

\* Doing nothing.
LEMMA SameKeeps ==
  ASSUME NEW x, Shape(x)
  PROVE  Keeps(x, x) /\ Frame(x, x)
BY DEF Keeps, Frame

\* A posted handler that is not an enqueue leaves the messages on their way as they are.
LEMMA PostedKept ==
  ASSUME NEW x, NEW y, Typed(x), NEW h \in Handlers, h.k # "enqueue", y.ready = Append(x.ready, h)
  PROVE  /\ y.ready \in Seq(Handlers) /\ DOMAIN y.ready = 1..(Len(x.ready) + 1)
         /\ DOMAIN x.ready = 1..Len(x.ready) /\ Len(x.ready) \in Nat
         /\ \A i \in DOMAIN y.ready : IsEnqueue(y, i) => i \in DOMAIN x.ready /\ IsEnqueue(x, i) /\ y.ready[i] = x.ready[i]
         /\ Posted(y) = Posted(x)
<1>1. /\ x.ready \in Seq(Handlers) /\ DOMAIN x.ready = 1..Len(x.ready) /\ Len(x.ready) \in Nat
  BY RangeIs DEF Typed
<1>2. /\ y.ready \in Seq(Handlers) /\ DOMAIN y.ready = 1..(Len(x.ready) + 1)
      /\ y.ready[Len(x.ready) + 1] = h /\ \A i \in 1..Len(x.ready) : y.ready[i] = x.ready[i]
  BY <1>1, AppendFacts
<1>3. \A i \in DOMAIN y.ready : i = Len(x.ready) + 1 \/ i \in 1..Len(x.ready)
  BY <1>1, <1>2
<1>4. \A i \in DOMAIN y.ready : IsEnqueue(y, i) => i \in DOMAIN x.ready /\ IsEnqueue(x, i) /\ y.ready[i] = x.ready[i]
  BY <1>1, <1>2, <1>3 DEF IsEnqueue
<1>5. \A i \in DOMAIN x.ready : i \in DOMAIN y.ready /\ (IsEnqueue(x, i) => IsEnqueue(y, i)) /\ y.ready[i] = x.ready[i]
  BY <1>1, <1>2 DEF IsEnqueue
<1>6. Posted(y) = Posted(x)
  BY <1>4, <1>5 DEF Posted
<1> QED BY <1>1, <1>2, <1>4, <1>6

\* A method that moves no message keeps what is known of them.
LEMMA KeepsGood ==
  ASSUME NEW x, NEW y, NEW v, NEW z, Good(x, v, z), Keeps(x, y)
  PROVE  Good(y, v, z) /\ (Settled(x) => Settled(y))
<1>1. Shape(y) /\ (Settled(x) => Settled(y))
  BY Zenon DEF Keeps, Settled, is_open
<1>2. ASSUME ~x.overlapped PROVE Typed(y) /\ Pristine(y) /\ OneWrite(y) /\ Ordered(y, v) /\ OnlySent(y, v, z)
  <2>1. Typed(x) /\ Pristine(x) /\ OneWrite(x) /\ Ordered(x, v) /\ OnlySent(x, v, z)
    BY <1>2 DEF Good
  <2>2. /\ Posted(y) = Posted(x) /\ y.ready \in Seq(Handlers)
        /\ \A i \in DOMAIN y.ready : IsEnqueue(y, i) => i \in DOMAIN x.ready /\ IsEnqueue(x, i) /\ y.ready[i] = x.ready[i]
    <3>1. CASE y.ready = x.ready
      BY <2>1, <3>1 DEF Posted, IsEnqueue, Typed
    <3>2. CASE \E h \in Handlers : h.k # "enqueue" /\ y.ready = Append(x.ready, h)
      BY <2>1, <3>2, PostedKept, Zenon
    <3> QED BY <3>1, <3>2 DEF Keeps
  <2>3. /\ y.m_writeQueue \in {x.m_writeQueue, <<>>} /\ y.m_writing \in {x.m_writing, FALSE}
        /\ y.writes = x.writes
    BY Zenon DEF Keeps
  <2>4. Range(<<>>) = {} /\ DOMAIN <<>> = {} /\ <<>> \in Seq(Messages)
    BY DEF Range
  <2>5. Handed(y) \subseteq Handed(x)
    BY <2>3, <2>4 DEF Handed
  <2>6. Typed(y)
    BY <2>1, <2>2, <2>3, <2>4, Zenon DEF Typed
  <2>7. Pristine(y)
    BY <2>1, Zenon DEF Pristine, Keeps, is_open
  <2>8. OneWrite(y)
    BY <2>1, Zenon DEF OneWrite, Keeps, is_open
  <2>9. Ordered(y, v)
    BY <2>1, <2>2, <2>3, <2>4, <2>5 DEF Ordered, InLine, Precedes
  <2>10. OnlySent(y, v, z)
    BY <2>1, <2>2, <2>5 DEF OnlySent
  <2> QED BY <2>6, <2>7, <2>8, <2>9, <2>10
<1>3. y.overlapped = x.overlapped
  BY DEF Keeps
<1> QED BY <1>1, <1>2, <1>3 DEF Good

\* A message that takes its place in the queue next.
Fits(x, v, z, m) ==
  /\ m \in Messages /\ m \in Range(z)
  /\ \A a \in Range(v) \cup Handed(x) : Precedes(a, m)
  /\ \A b \in Posted(x) : Precedes(m, b)

\* The io thread takes the first handler.
LEMMA TakeHandler ==
  ASSUME NEW x, NEW y, NEW v, NEW z, Good(x, v, z), SessionAssumption,
         NEW i \in DOMAIN x.ready, i <= x.threads,
         y = [x EXCEPT !.ready = Without(@, i)]
  PROVE  /\ Good(y, v, z) /\ (Settled(x) => Settled(y))
         /\ ~x.overlapped => x.ready[i] \in Handlers
         /\ ~x.overlapped /\ IsEnqueue(x, i) => Fits(y, v, z, x.ready[i].msg)
<1>1. /\ Shape(y) /\ y.ready = Without(x.ready, i)
      /\ y.m_curState = x.m_curState /\ y.m_writeQueue = x.m_writeQueue /\ y.m_writing = x.m_writing
      /\ y.overlapped = x.overlapped /\ y.writes = x.writes /\ y.opened = x.opened
  <2>1. Without(x.ready, i) \in Seq(Handlers)
    <3>1. x.ready \in Seq(Handlers)
      BY DEF Good, Shape
    <3>2. i \in 1..Len(x.ready)
      BY <3>1, RangeIs
    <3> QED BY <3>1, <3>2, WithoutFacts
  <2> QED BY <2>1, Zenon DEF Good, Shape, Fields
<1>2. Settled(x) => Settled(y)
  BY <1>1 DEF Settled, is_open
<1>3. ASSUME ~x.overlapped
      PROVE  /\ Typed(y) /\ Pristine(y) /\ OneWrite(y) /\ Ordered(y, v) /\ OnlySent(y, v, z)
             /\ x.ready[i] \in Handlers
             /\ IsEnqueue(x, i) => Fits(y, v, z, x.ready[i].msg)
  <2>1. Typed(x) /\ Pristine(x) /\ OneWrite(x) /\ Ordered(x, v) /\ OnlySent(x, v, z)
    BY <1>3 DEF Good
  <2>2. /\ x.ready \in Seq(Handlers) /\ Len(x.ready) \in Nat /\ DOMAIN x.ready = 1..Len(x.ready)
        /\ i \in 1..Len(x.ready)
    BY <2>1, RangeIs DEF Typed
  <2>3. /\ y.ready \in Seq(Handlers) /\ DOMAIN y.ready = 1..(Len(x.ready) - 1)
        /\ \A j \in DOMAIN y.ready : y.ready[j] = IF j < i THEN x.ready[j] ELSE x.ready[j + 1]
    <3>1. /\ Without(x.ready, i) \in Seq(Handlers)
          /\ DOMAIN Without(x.ready, i) = 1..(Len(x.ready) - 1)
          /\ \A j \in 1..(Len(x.ready) - 1) :
               Without(x.ready, i)[j] = IF j < i THEN x.ready[j] ELSE x.ready[j + 1]
      BY <2>2, WithoutFacts
    <3> QED BY <1>1, <3>1, Zenon
  <2> DEFINE Old(j) == IF j < i THEN j ELSE j + 1
  <2>4. \A j \in DOMAIN y.ready : /\ Old(j) \in DOMAIN x.ready /\ y.ready[j] = x.ready[Old(j)]
                                  /\ (IsEnqueue(y, j) <=> IsEnqueue(x, Old(j)))
                                  /\ Old(j) # i
    <3>1. \A j \in DOMAIN y.ready : Old(j) \in DOMAIN x.ready /\ Old(j) # i
      <4>1. \A n \in Nat : \A c \in 1..n : \A j \in 1..(n - 1) :
              (IF j < c THEN j ELSE j + 1) \in 1..n /\ (IF j < c THEN j ELSE j + 1) # c
        OBVIOUS
      <4> QED BY <2>2, <2>3, <4>1, Zenon
    <3>2. \A j \in DOMAIN y.ready : y.ready[j] = x.ready[Old(j)]
      BY <2>3
    <3> QED BY <3>1, <3>2 DEF IsEnqueue
  <2>5. \A j, k \in DOMAIN y.ready : j < k => Old(j) < Old(k)
    BY <2>2, <2>3
  <2> HIDE DEF Old
  <2>6. Posted(y) \subseteq Posted(x)
    BY <2>4 DEF Posted
  <2>7. Handed(y) = Handed(x)
    BY <1>1 DEF Handed
  <2>9. Typed(y) /\ Pristine(y) /\ OneWrite(y)
    BY <1>1, <2>1, <2>3 DEF Typed, Pristine, OneWrite, is_open
  <2>10. Ordered(y, v)
    <3>1. InLine(v) /\ InLine(y.m_writeQueue)
      BY <1>1, <2>1 DEF Ordered, InLine
    <3>2. \A j, k \in DOMAIN y.ready :
            j < k /\ IsEnqueue(y, j) /\ IsEnqueue(y, k) => Precedes(y.ready[j].msg, y.ready[k].msg)
      BY <2>1, <2>4, <2>5 DEF Ordered
    <3>3. /\ \A a \in Range(v) : \A b \in Handed(y) \cup Posted(y) : Precedes(a, b)
          /\ \A a \in Handed(y) : \A b \in Posted(y) : Precedes(a, b)
      BY <2>1, <2>6, <2>7 DEF Ordered
    <3> QED BY <3>1, <3>2, <3>3 DEF Ordered
  <2>11. OnlySent(y, v, z)
    BY <2>1, <2>6, <2>7, Zenon DEF OnlySent
  <2>12. ASSUME IsEnqueue(x, i) PROVE Fits(y, v, z, x.ready[i].msg)
    <3>1. x.ready[i].msg \in Posted(x) /\ x.ready[i].msg \in Messages
      BY <2>2, <2>12, SMTT(30) DEF Posted, IsEnqueue, Handlers, Kinds
    <3>2. \A a \in Range(v) \cup Handed(y) : Precedes(a, x.ready[i].msg)
      BY <2>1, <2>7, <3>1 DEF Ordered
    <3>3. ASSUME NEW j \in DOMAIN y.ready, IsEnqueue(y, j)
          PROVE  Precedes(x.ready[i].msg, y.ready[j].msg)
      <4>1. Old(j) \in DOMAIN x.ready /\ y.ready[j] = x.ready[Old(j)] /\ IsEnqueue(x, Old(j))
            /\ Old(j) # i /\ Old(j) \in 1..Len(x.ready)
        BY <2>2, <2>4, <3>3
      <4>2. CASE i < Old(j)
        BY <2>1, <2>12, <4>1, <4>2 DEF Ordered
      <4>3. CASE Old(j) < i
        <5>1. x.threads \in Int /\ x.threads <= 1
          BY DEF Good, Shape
        <5> QED BY <2>2, <4>1, <4>3, <5>1
      <4> QED BY <2>2, <4>1, <4>2, <4>3
    <3>4. \A b \in Posted(y) : Precedes(x.ready[i].msg, b)
      BY <3>3 DEF Posted
    <3> QED BY <2>1, <3>1, <3>2, <3>4, Zenon DEF Fits, OnlySent
  <2> QED BY <2>2, <2>9, <2>10, <2>11, <2>12
<1> QED BY <1>1, <1>2, <1>3 DEF Good

\* y is x but for its queue and for what no message depends on.
SameBut(x, y) ==
  /\ Shape(y) /\ y.overlapped = x.overlapped /\ y.opened = x.opened
  /\ y.m_curState = x.m_curState /\ y.ready = x.ready

\* The message joins the queue of an open session.
LEMMA Enqueue ==
  ASSUME NEW x, NEW y, NEW v, NEW z, NEW m, Good(x, v, z), Fits(x, v, z, m), is_open(x),
         ~x.overlapped, SameBut(x, y), y.writes = x.writes, y.m_writing = x.m_writing,
         y.m_writeQueue = Append(x.m_writeQueue, m)
  PROVE  Good(y, v, z) /\ (Settled(x) => Settled(y))
<1>1. Typed(x) /\ Pristine(x) /\ OneWrite(x) /\ Ordered(x, v) /\ OnlySent(x, v, z)
  BY DEF Good
<1>2. /\ x.m_writeQueue \in Seq(Messages) /\ m \in Messages
      /\ Len(x.m_writeQueue) \in Nat /\ DOMAIN x.m_writeQueue = 1..Len(x.m_writeQueue)
      /\ x.m_writeQueue = <<>> <=> Len(x.m_writeQueue) = 0
      /\ Range(x.m_writeQueue) = {x.m_writeQueue[i] : i \in 1..Len(x.m_writeQueue)}
  BY <1>1, RangeIs DEF Typed, Fits
<1>3. /\ y.m_writeQueue \in Seq(Messages) /\ y.m_writeQueue # <<>>
      /\ DOMAIN y.m_writeQueue = 1..(Len(x.m_writeQueue) + 1)
      /\ \A i \in 1..Len(x.m_writeQueue) : y.m_writeQueue[i] = x.m_writeQueue[i]
      /\ y.m_writeQueue[Len(x.m_writeQueue) + 1] = m
      /\ Range(y.m_writeQueue) = Range(x.m_writeQueue) \cup {m}
  BY <1>2, AppendFacts
<1>4. /\ Shape(y) /\ y.overlapped = x.overlapped /\ y.opened = x.opened
      /\ y.m_curState = x.m_curState /\ y.ready = x.ready
  BY DEF SameBut
<1>5. Handed(y) = Handed(x) \cup {m} /\ Posted(y) = Posted(x)
  BY <1>3, <1>4 DEF Handed, Posted, IsEnqueue
<1>7. Typed(y)
  BY <1>1, <1>3, <1>4 DEF Typed
<1>8. Pristine(y) /\ (Settled(x) => Settled(y))
  BY <1>1, <1>4 DEF Pristine, Settled, is_open
<1>9. OneWrite(y)
  <2>1. x.writes # <<>> => 1 \in 1..Len(x.m_writeQueue)
    BY <1>1, <1>2 DEF OneWrite
  <2> QED BY <1>1, <1>3, <1>4, <2>1 DEF OneWrite, is_open
<1>10. Ordered(y, v)
  <2>1. \A a \in Range(v) \cup Handed(x) : Precedes(a, m)
    BY DEF Fits
  <2>2. InLine(y.m_writeQueue)
    <3> SUFFICES ASSUME NEW i \in DOMAIN y.m_writeQueue, NEW j \in DOMAIN y.m_writeQueue, i < j
                 PROVE  Precedes(y.m_writeQueue[i], y.m_writeQueue[j])
      BY DEF InLine
    <3>1. i \in 1..Len(x.m_writeQueue) /\ (j \in 1..Len(x.m_writeQueue) \/ j = Len(x.m_writeQueue) + 1)
      BY <1>2, <1>3
    <3>2. CASE j \in 1..Len(x.m_writeQueue)
      BY <1>1, <1>2, <1>3, <3>1, <3>2 DEF Ordered, InLine
    <3>3. CASE j = Len(x.m_writeQueue) + 1
      BY <1>2, <1>3, <2>1, <3>1, <3>3 DEF Handed
    <3> QED BY <3>1, <3>2, <3>3
  <2>3. InLine(v)
    BY <1>1 DEF InLine, Ordered
  <2>4. \A i, j \in DOMAIN y.ready :
          i < j /\ IsEnqueue(y, i) /\ IsEnqueue(y, j) => Precedes(y.ready[i].msg, y.ready[j].msg)
    BY <1>1, <1>4 DEF Ordered, IsEnqueue
  <2>5. \A b \in Posted(x) : Precedes(m, b)
    BY DEF Fits
  <2>6. /\ \A a \in Range(v) : \A b \in Handed(y) \cup Posted(y) : Precedes(a, b)
        /\ \A a \in Handed(y) : \A b \in Posted(y) : Precedes(a, b)
    BY <1>1, <1>5, <2>1, <2>5 DEF Ordered
  <2> QED BY <2>2, <2>3, <2>4, <2>6 DEF Ordered
<1>11. OnlySent(y, v, z)
  BY <1>1, <1>5 DEF OnlySent, Fits
<1> QED BY <1>4, <1>7, <1>8, <1>9, <1>10, <1>11 DEF Good

\* The message at the head of the queue is handed to the stream.
LEMMA StartWrite ==
  ASSUME NEW x, NEW v, NEW z, NEW d \in BOOLEAN, Good(x, v, z), x.m_writeQueue # <<>>,
         x.overlapped \/ x.writes = <<>> \/ is_shutdown(x),
         x.overlapped \/ (is_open(x) => ~d)
  PROVE  LET y == async_write([x EXCEPT !.m_writing = TRUE], d)
         IN  Good(y, v, z) /\ Settled(y)
<1> DEFINE y == async_write([x EXCEPT !.m_writing = TRUE], d)
<1>1. /\ Shape(y) /\ y.m_writing = TRUE /\ y.m_writeQueue = x.m_writeQueue
      /\ y.opened = x.opened /\ y.m_curState = x.m_curState /\ y.ready = x.ready
      /\ y.writes = Append(x.writes, [msg |-> Head(x.m_writeQueue), draining |-> d])
      /\ y.overlapped = (x.overlapped \/ (is_shutdown(x) /\ x.writes # <<>>))
  BY Zenon DEF async_write, Shape, Fields, Good, is_shutdown
<1> HIDE DEF y
<1>2. ASSUME ~y.overlapped
      PROVE  /\ Typed(y) /\ Pristine(y) /\ OneWrite(y) /\ Ordered(y, v) /\ OnlySent(y, v, z)
             /\ y.writes # <<>>
  <2>1. ~x.overlapped /\ x.writes = <<>>
    BY <1>1, <1>2, Zenon
  <2>2. Typed(x) /\ Pristine(x) /\ OneWrite(x) /\ Ordered(x, v) /\ OnlySent(x, v, z)
    BY <2>1 DEF Good
  <2>3. /\ Head(x.m_writeQueue) = x.m_writeQueue[1] /\ x.m_writeQueue[1] \in Range(x.m_writeQueue)
        /\ x.m_writeQueue[1] \in Messages
    BY <2>2, TailFacts DEF Typed
  <2>4. y.writes = <<[msg |-> x.m_writeQueue[1], draining |-> d]>>
    BY <1>1, <2>1, <2>3
  <2>5. /\ y.writes \in Seq([msg : Messages, draining : BOOLEAN]) /\ y.writes # <<>>
        /\ Len(y.writes) = 1 /\ DOMAIN y.writes = {1}
        /\ y.writes[1].msg = x.m_writeQueue[1] /\ y.writes[1].draining = d
    BY <2>3, <2>4
  <2>6. Handed(y) = Handed(x)
    <3>1. Handed(y) = Range(x.m_writeQueue) \cup {x.m_writeQueue[1]}
      BY <1>1, <2>5 DEF Handed
    <3>2. Handed(x) = Range(x.m_writeQueue)
      BY <2>1 DEF Handed
    <3> QED BY <2>3, <3>1, <3>2
  <2>7. Posted(y) = Posted(x)
    BY <1>1 DEF Posted, IsEnqueue
  <2>8. Typed(y)
    BY <1>1, <2>2, <2>5, Zenon DEF Typed
  <2>9. Pristine(y)
    BY <1>1, <2>2 DEF Pristine
  <2>10. OneWrite(y)
    BY <1>1, <2>1, <2>5 DEF OneWrite, is_open
  <2>11. Ordered(y, v)
    BY <1>1, <2>2, <2>6, <2>7 DEF Ordered, InLine, IsEnqueue
  <2>12. OnlySent(y, v, z)
    BY <2>2, <2>6, <2>7 DEF OnlySent
  <2> QED BY <2>5, <2>8, <2>9, <2>10, <2>11, <2>12
<1>3. Good(y, v, z) /\ Settled(y)
  BY <1>1, <1>2 DEF Good, Settled
<1> QED BY <1>3 DEF y

\* The stream is done with a message: it was written or not.
LEMMA WriteDone ==
  ASSUME NEW x, NEW y, NEW v, NEW z, Good(x, v, z), ~x.overlapped, x.writes # <<>>,
         SameBut(x, y), y.writes = Tail(x.writes), y.m_writing = x.m_writing,
         y.m_writeQueue = x.m_writeQueue
  PROVE  Good(y, v, z) /\ y.writes = <<>>
<1>1. Typed(x) /\ Pristine(x) /\ OneWrite(x) /\ Ordered(x, v) /\ OnlySent(x, v, z)
  BY DEF Good
<1>2. /\ Shape(y) /\ y.overlapped = x.overlapped /\ y.opened = x.opened
      /\ y.m_curState = x.m_curState /\ y.ready = x.ready
  BY DEF SameBut
<1>3. y.writes = <<>>
  BY <1>1, TailOfOne DEF Typed, OneWrite
<1>4. Handed(y) \subseteq Handed(x) /\ Posted(y) = Posted(x)
  <2>0. DOMAIN y.writes = {}
    BY <1>3, EmptyFacts, Zenon
  <2>1. {y.writes[i].msg : i \in DOMAIN y.writes} = {}
    BY <2>0, Zenon
  <2> QED BY <1>2, <2>1, Zenon DEF Handed, Posted, IsEnqueue
<1>6. Typed(y) /\ Pristine(y) /\ OneWrite(y)
  BY <1>1, <1>2, <1>3 DEF Typed, Pristine, OneWrite, is_open
<1>7. Ordered(y, v)
  BY <1>1, <1>2, <1>4 DEF Ordered, InLine, IsEnqueue
<1>8. OnlySent(y, v, z)
  BY <1>1, <1>4 DEF OnlySent
<1> QED BY <1>2, <1>3, <1>6, <1>7, <1>8, Zenon DEF Good

\* It was written: it leaves the queue, if closing left it there.
LEMMA Written ==
  ASSUME NEW x, NEW y, NEW v, NEW z, NEW m, Good(x, v, z), ~x.overlapped, x.writes # <<>>,
         m = x.writes[1].msg, SameBut(x, y), y.writes = <<>>, y.m_writing = x.m_writing,
         y.m_writeQueue = IF x.m_writeQueue = <<>> THEN <<>> ELSE Tail(x.m_writeQueue)
  PROVE  Good(y, Append(v, m), z)
<1> DEFINE w == Append(v, m)
<1>1. Typed(x) /\ Pristine(x) /\ OneWrite(x) /\ Ordered(x, v) /\ OnlySent(x, v, z)
  BY DEF Good
<1>2. /\ Shape(y) /\ y.overlapped = x.overlapped /\ y.opened = x.opened
      /\ y.m_curState = x.m_curState /\ y.ready = x.ready
  BY DEF SameBut
<1>3. m \in Messages /\ m \in Handed(x) /\ v \in Seq(Messages)
  BY <1>1, RangeIs, TailFacts DEF Typed, Handed, OnlySent
<1>4. /\ w \in Seq(Messages) /\ DOMAIN w = 1..(Len(v) + 1) /\ w[Len(v) + 1] = m
      /\ \A i \in 1..Len(v) : w[i] = v[i]
      /\ Range(w) = Range(v) \cup {m} /\ Len(v) \in Nat /\ DOMAIN v = 1..Len(v)
      /\ Range(v) = {v[i] : i \in 1..Len(v)}
  BY <1>3, AppendFacts, RangeIs
<1> HIDE DEF w
<1>5. /\ y.m_writeQueue \in Seq(Messages) /\ Range(y.m_writeQueue) \subseteq Range(x.m_writeQueue)
      /\ InLine(y.m_writeQueue) /\ \A b \in Range(y.m_writeQueue) : Precedes(m, b)
  <2>1. CASE x.m_writeQueue = <<>>
    <3>1. y.m_writeQueue = <<>> /\ DOMAIN <<>> = {} /\ Range(<<>>) = {} /\ <<>> \in Seq(Messages)
      BY <2>1 DEF Range
    <3> QED BY <3>1, Zenon DEF InLine
  <2>2. CASE x.m_writeQueue # <<>>
    <3> DEFINE q == x.m_writeQueue
               r == y.m_writeQueue
    <3>1. q \in Seq(Messages) /\ q # <<>> /\ r = Tail(q) /\ m = q[1] /\ InLine(q)
      BY <1>1, <2>2 DEF Typed, OneWrite, Ordered
    <3> HIDE DEF q, r
    <3>2. /\ r \in Seq(Messages) /\ DOMAIN r = 1..(Len(q) - 1)
          /\ \A i \in 1..(Len(q) - 1) : r[i] = q[i + 1]
          /\ Range(r) \subseteq Range(q)
      BY <3>1, TailFacts
    <3>3. Len(q) \in Nat /\ DOMAIN q = 1..Len(q) /\ Range(r) = {r[i] : i \in DOMAIN r}
      BY <3>1, <3>2, RangeIs DEF Range
    <3>4. \A i, j \in DOMAIN r : i < j => Precedes(r[i], r[j])
      <4> SUFFICES ASSUME NEW i \in DOMAIN r, NEW j \in DOMAIN r, i < j
                   PROVE  Precedes(r[i], r[j])
        OBVIOUS
      <4>1. i + 1 \in DOMAIN q /\ j + 1 \in DOMAIN q /\ i + 1 < j + 1
        BY <3>2, <3>3
      <4>2. r[i] = q[i + 1] /\ r[j] = q[j + 1]
        BY <3>2
      <4> QED BY <3>1, <4>1, <4>2 DEF InLine
    <3>5. \A i \in DOMAIN r : Precedes(m, r[i])
      <4> SUFFICES ASSUME NEW i \in DOMAIN r PROVE Precedes(m, r[i])
        OBVIOUS
      <4>1. 1 \in DOMAIN q /\ i + 1 \in DOMAIN q /\ 1 < i + 1
        BY <3>2, <3>3
      <4>2. r[i] = q[i + 1]
        BY <3>2
      <4> QED BY <3>1, <4>1, <4>2 DEF InLine
    <3> QED BY <3>2, <3>3, <3>4, <3>5 DEF InLine, q, r
  <2> QED BY <2>1, <2>2
<1>6. Handed(y) = Range(y.m_writeQueue) /\ Posted(y) = Posted(x)
  BY <1>2 DEF Handed, Posted, IsEnqueue
<1>8. Typed(y) /\ Pristine(y) /\ OneWrite(y)
  BY <1>1, <1>2, <1>5 DEF Typed, Pristine, OneWrite, is_open
<1>9. Handed(y) \subseteq Handed(x)
  BY <1>5, <1>6 DEF Handed
<1>10. Ordered(y, w)
  <2>1. InLine(w)
    <3> SUFFICES ASSUME NEW i \in DOMAIN w, NEW j \in DOMAIN w, i < j
                 PROVE  Precedes(w[i], w[j])
      BY DEF InLine
    <3>1. i \in 1..Len(v) /\ (j \in 1..Len(v) \/ j = Len(v) + 1)
      BY <1>4
    <3>2. CASE j \in 1..Len(v)
      BY <1>1, <1>4, <3>1, <3>2 DEF Ordered, InLine
    <3>3. CASE j = Len(v) + 1
      BY <1>1, <1>3, <1>4, <3>1, <3>3 DEF Ordered
    <3> QED BY <3>1, <3>2, <3>3
  <2>2. InLine(y.m_writeQueue)
    BY <1>5 DEF InLine
  <2>3. \A i, j \in DOMAIN y.ready :
          i < j /\ IsEnqueue(y, i) /\ IsEnqueue(y, j) => Precedes(y.ready[i].msg, y.ready[j].msg)
    BY <1>1, <1>2 DEF Ordered, IsEnqueue
  <2>4. \A b \in Handed(y) \cup Posted(y) : Precedes(m, b)
    BY <1>1, <1>3, <1>5, <1>6 DEF Ordered
  <2>5. /\ \A a \in Range(w) : \A b \in Handed(y) \cup Posted(y) : Precedes(a, b)
        /\ \A a \in Handed(y) : \A b \in Posted(y) : Precedes(a, b)
    BY <1>1, <1>4, <1>6, <1>9, <2>4 DEF Ordered
  <2> QED BY <2>1, <2>2, <2>3, <2>5 DEF Ordered
<1>11. OnlySent(y, w, z)
  BY <1>1, <1>3, <1>4, <1>6, <1>9 DEF OnlySent
<1>12. Good(y, w, z)
  BY <1>2, <1>8, <1>10, <1>11 DEF Good
<1> QED BY <1>12 DEF w

\* m_writing does not matter to the messages.
LEMMA Unmark ==
  ASSUME NEW x, NEW v, NEW z, Good(x, v, z)
  PROVE  LET y == [x EXCEPT !.m_writing = FALSE] IN Good(y, v, z) /\ Frame(x, y)
<1> DEFINE y == [x EXCEPT !.m_writing = FALSE]
<1>1. /\ Shape(y) /\ y.overlapped = x.overlapped /\ y.opened = x.opened
      /\ y.m_curState = x.m_curState /\ y.ready = x.ready /\ y.writes = x.writes
      /\ y.m_writeQueue = x.m_writeQueue /\ y.m_writing = FALSE /\ y.handshake = x.handshake
  BY Zenon DEF Good, Shape, Fields
<1> HIDE DEF y
<1>2. ASSUME ~x.overlapped PROVE Typed(y) /\ Pristine(y) /\ OneWrite(y) /\ Ordered(y, v) /\ OnlySent(y, v, z)
  <2>1. Typed(x) /\ Pristine(x) /\ OneWrite(x) /\ Ordered(x, v) /\ OnlySent(x, v, z)
    BY <1>2 DEF Good
  <2>2. Typed(y) /\ Pristine(y) /\ OneWrite(y)
    BY <1>1, <2>1, Zenon DEF Typed, Pristine, OneWrite, is_open
  <2>3. Handed(y) = Handed(x) /\ Posted(y) = Posted(x)
    BY <1>1 DEF Handed, Posted, IsEnqueue
  <2>4. Ordered(y, v)
    BY <1>1, <2>1, <2>3 DEF Ordered, InLine, IsEnqueue, Precedes
  <2>5. OnlySent(y, v, z)
    BY <2>1, <2>3 DEF OnlySent
  <2> QED BY <2>2, <2>4, <2>5
<1>3. Good(y, v, z) /\ Frame(x, y)
  BY <1>1, <1>2 DEF Good, Frame
<1> QED BY <1>3 DEF y

\* Draining starts a write only if none is in flight, or in shutdown.
LEMMA Drain ==
  ASSUME NEW x, NEW v, NEW z, Good(x, v, z), x.overlapped \/ ~is_open(x),
         x.overlapped \/ x.writes = <<>> \/ is_shutdown(x)
  PROVE  LET y == do_drain_queue(x) IN Good(y, v, z) /\ Settled(y) /\ Frame(x, y)
<1> DEFINE y == do_drain_queue(x)
<1>0. Shape(x) /\ Settled(x)
  BY DEF Good, Settled
<1>1. CASE x.m_writing
  BY <1>0, <1>1 DEF do_drain_queue, Frame
<1>2. CASE ~x.m_writing /\ x.m_writeQueue = <<>>
  <2>1. y = close_forcefully(x)
    BY <1>2 DEF do_drain_queue
  <2>2. Keeps(x, y) /\ Frame(x, y)
    BY <1>0, <2>1, SameKeeps, PostKeeps DEF close_forcefully, Kinds
  <2> QED BY <1>0, <2>2, KeepsGood
<1>3. CASE ~x.m_writing /\ x.m_writeQueue # <<>>
  <2>1. y = async_write([x EXCEPT !.m_writing = TRUE], TRUE)
    BY <1>3 DEF do_drain_queue
  <2>2. Good(y, v, z) /\ Settled(y)
    BY <1>3, <2>1, StartWrite, Zenon
  <2>3. Frame(x, y)
    BY <1>0, <2>1, Zenon DEF async_write, Frame, Shape, Fields
  <2> QED BY <2>2, <2>3
<1> QED BY <1>1, <1>2, <1>3

\* The next message is written when the stream is done with the one before.
LEMMA WriteNext ==
  ASSUME NEW x, NEW v, NEW z, Good(x, v, z), x.overlapped \/ x.writes = <<>> \/ ~is_open(x)
  PROVE  LET y == do_write_next(x) IN Good(y, v, z) /\ Settled(y) /\ Frame(x, y)
<1> DEFINE y == do_write_next(x)
           u == [x EXCEPT !.m_writing = FALSE]
<1>0. Shape(x)
  BY DEF Good
<1>1. /\ Good(u, v, z) /\ Frame(x, u) /\ u.m_curState = x.m_curState
      /\ u.writes = x.writes /\ u.overlapped = x.overlapped /\ u.m_writing = FALSE
  <2>1. Good(u, v, z) /\ Frame(x, u)
    BY Unmark
  <2> QED BY <1>0, <2>1 DEF Shape, Fields
<1> HIDE DEF u
<1>2. CASE is_shutdown(x)
  <2>1. y = do_drain_queue(u) /\ ~is_open(u) /\ is_shutdown(u)
    BY <1>1, <1>2 DEF do_write_next, is_open, is_shutdown, u
  <2>2. Good(y, v, z) /\ Settled(y) /\ Frame(u, y)
    BY <1>1, <2>1, Drain
  <2> QED BY <1>1, <2>2 DEF Frame
<1>3. CASE ~is_shutdown(x) /\ ~is_open(x)
  <2>1. y = [Cleared(x) EXCEPT !.m_writing = FALSE]
    BY <1>3 DEF do_write_next
  <2> DEFINE c == Cleared(x)
  <2>2. /\ Shape(c) /\ Frame(x, c) /\ c.m_writeQueue = <<>> /\ c.m_curState = x.m_curState
        /\ c.overlapped = x.overlapped /\ c.writes = x.writes /\ c.ready = x.ready
    BY <1>0, Zenon DEF Cleared, Frame, Shape, Fields
  <2> HIDE DEF c
  <2>3. Keeps(x, [c EXCEPT !.m_writing = FALSE]) /\ Frame(x, [c EXCEPT !.m_writing = FALSE])
    BY <1>3, <2>2, Zenon DEF Keeps, Frame, Shape, Fields, is_open
  <2>4. Keeps(x, y) /\ Frame(x, y)
    BY <2>1, <2>3 DEF c
  <2> QED BY <1>3, <2>4, KeepsGood DEF Settled
<1>4. CASE is_open(x) /\ x.m_writeQueue = <<>>
  <2>1. y = u
    BY <1>4 DEF do_write_next, is_open, is_shutdown, u
  <2>2. Settled(u)
    BY <1>1, <1>4 DEF Settled
  <2> QED BY <1>1, <2>1, <2>2
<1>5. CASE is_open(x) /\ x.m_writeQueue # <<>>
  <2>1. y = async_write([x EXCEPT !.m_writing = TRUE], FALSE)
    BY <1>5 DEF do_write_next, is_open, is_shutdown
  <2>2. Good(y, v, z) /\ Settled(y)
    BY <1>5, <2>1, StartWrite, Zenon
  <2>3. Frame(x, y)
    BY <1>0, <2>1, Zenon DEF async_write, Frame, Shape, Fields
  <2> QED BY <2>2, <2>3
<1> QED BY <1>2, <1>3, <1>4, <1>5

\* A handler that enqueues a message.
LEMMA EnqueueMessage ==
  ASSUME cfg.ioThreads = 1, NEW x, NEW v, NEW z, NEW m, NEW ok, Good(x, v, z), Settled(x),
         ~x.overlapped => Fits(x, v, z, m)
  PROVE  LET y == do_enqueue_message(x, m, ok) IN Good(y, v, z) /\ Settled(y) /\ Frame(x, y)
<1> DEFINE y == do_enqueue_message(x, m, ok)
<1>0. Shape(x)
  BY DEF Good
<1>1. CASE is_shutdown(x)
  <2>1. y = do_write_next(x) /\ ~is_open(x)
    BY <1>1 DEF do_enqueue_message, is_open, is_shutdown
  <2> QED BY <2>1, WriteNext
<1>2. CASE ~is_shutdown(x) /\ ~is_open(x)
  BY <1>2 DEF do_enqueue_message, Frame
<1>3. CASE is_open(x) /\ ~check_message_size(x, m)
  <2> DEFINE u == [x EXCEPT !.threads = @ - 1]
  <2>1. y \in {Post(x, [k |-> "close"]), u}
    BY <1>3 DEF do_enqueue_message, queue_overflow, close, is_open, is_shutdown
  <2>2. LET c == Post(x, [k |-> "close"]) IN Keeps(x, c) /\ Frame(x, c)
    BY <1>0, SameKeeps, PostKeeps DEF Kinds
  <2>3. Keeps(x, u) /\ Frame(x, u)
    <3>1. x.threads - 1 \in Int /\ x.threads - 1 <= 1
      BY <1>0 DEF Shape
    <3> QED BY <1>0, <3>1, Zenon DEF Keeps, Frame, Shape, Fields
  <2> HIDE DEF u
  <2>4. Keeps(x, y) /\ Frame(x, y)
    BY <2>1, <2>2, <2>3, Zenon
  <2> QED BY <2>4, KeepsGood
<1>4. CASE is_open(x) /\ check_message_size(x, m)
  <2> DEFINE c == adjust_message_counters(x, m)
             r == [k |-> "push", msg |-> m, counters |-> c]
             u == [x EXCEPT !.m_currentQueuedMessages = r.counters.messages,
                            !.m_currentQueuedBytes = r.counters.bytes,
                            !.m_writeQueue = Append(@, r.msg)]
  <2>1. y = IF u.m_writing THEN u ELSE do_write_next(u)
    <3>1. y = push_message(x, r)
      BY <1>4 DEF do_enqueue_message, Rest, is_open, is_shutdown
    <3> HIDE DEF r
    <3> QED BY <3>1 DEF push_message, Rest
  <2>2. /\ SameBut(x, u) /\ u.writes = x.writes /\ u.m_writing = x.m_writing
        /\ u.m_writeQueue = Append(x.m_writeQueue, m) /\ Frame(x, u)
    <3>1. r.msg = m
      OBVIOUS
    <3> HIDE DEF r
    <3> QED BY <1>0, <3>1, Zenon DEF SameBut, Frame, Shape, Fields
  <2> HIDE DEF u
  <2>3. Good(u, v, z) /\ Settled(u)
    <3>1. CASE x.overlapped
      BY <2>2, <3>1 DEF Good, SameBut, Settled
    <3>2. CASE ~x.overlapped
      BY <1>4, <2>2, <3>2, Enqueue
    <3> QED BY <3>1, <3>2
  <2>4. CASE u.m_writing
    BY <2>1, <2>2, <2>3, <2>4
  <2>5. CASE ~u.m_writing
    <3>1. u.overlapped \/ u.writes = <<>> \/ ~is_open(u)
      BY <2>3, <2>5 DEF Settled
    <3>2. y = do_write_next(u)
      BY <2>1, <2>5
    <3>3. Good(y, v, z) /\ Settled(y) /\ Frame(u, y)
      BY <2>3, <3>1, <3>2, WriteNext
    <3> QED BY <2>2, <3>3 DEF Frame
  <2> QED BY <2>4, <2>5
<1> QED BY <1>1, <1>2, <1>3, <1>4

\* send_text copies the next message into a handler of its own.
LEMMA SendText ==
  ASSUME NEW x, NEW y, NEW v, NEW z, NEW m \in Messages, Good(x, v, z), SessionAssumption,
         m \notin Range(z), \A n \in Messages : n < m => n \in Range(z),
         y = Post(x, [k |-> "enqueue", msg |-> m])
  PROVE  Good(y, v, Append(z, m)) /\ (Settled(x) => Settled(y)) /\ Frame(x, y)
<1> DEFINE h == [k |-> "enqueue", msg |-> m]
           w == Append(z, m)
<1>1. /\ Shape(y) /\ y.ready = Append(x.ready, h) /\ Frame(x, y)
      /\ y.m_curState = x.m_curState /\ y.m_writeQueue = x.m_writeQueue /\ y.m_writing = x.m_writing
      /\ y.overlapped = x.overlapped /\ y.writes = x.writes /\ y.opened = x.opened
  <2>1. h \in Handlers /\ Shape(x)
    BY DEF Handlers, Good
  <2> HIDE DEF h
  <2>2. y = Post(x, h)
    BY DEF h
  <2>3. LET u == Post(x, h)
        IN  /\ Shape(u) /\ u.ready = Append(x.ready, h) /\ Frame(x, u)
            /\ u.m_curState = x.m_curState /\ u.m_writeQueue = x.m_writeQueue
            /\ u.m_writing = x.m_writing /\ u.overlapped = x.overlapped
            /\ u.writes = x.writes
    BY <2>1, PostFacts
  <2> QED BY <2>2, <2>3, Zenon DEF Frame
<1>2. Settled(x) => Settled(y)
  BY <1>1 DEF Settled, is_open
<1>3. ASSUME ~x.overlapped
      PROVE  Typed(y) /\ Pristine(y) /\ OneWrite(y) /\ Ordered(y, v) /\ OnlySent(y, v, w)
  <2>1. Typed(x) /\ Pristine(x) /\ OneWrite(x) /\ Ordered(x, v) /\ OnlySent(x, v, z)
    BY <1>3 DEF Good
  <2>2. h \in Handlers /\ h.k = "enqueue" /\ h.msg = m
    BY DEF Handlers
  <2> HIDE DEF h
  <2>3. x.ready \in Seq(Handlers) /\ Len(x.ready) \in Nat /\ DOMAIN x.ready = 1..Len(x.ready)
    BY <2>1, RangeIs DEF Typed
  <2>4. /\ y.ready \in Seq(Handlers) /\ DOMAIN y.ready = 1..(Len(x.ready) + 1)
        /\ \A i \in 1..Len(x.ready) : y.ready[i] = x.ready[i]
        /\ y.ready[Len(x.ready) + 1] = h
    <3>1. y.ready = Append(x.ready, h)
      BY <1>1
    <3>2. /\ Append(x.ready, h) \in Seq(Handlers) /\ DOMAIN Append(x.ready, h) = 1..(Len(x.ready) + 1)
          /\ \A i \in 1..Len(x.ready) : Append(x.ready, h)[i] = x.ready[i]
          /\ Append(x.ready, h)[Len(x.ready) + 1] = h
      BY <2>2, <2>3, AppendFacts
    <3> QED BY <3>1, <3>2, Zenon
  <2>5. w \in Seq(Messages) /\ Range(w) = Range(z) \cup {m} /\ Range(z) \subseteq Messages
    <3>1. z \in Seq(Messages)
      BY <2>1 DEF OnlySent
    <3>2. Range(z) \subseteq Messages
      BY <3>1, RangeIs, Zenon
    <3>3. w \in Seq(Messages) /\ Range(w) = Range(z) \cup {m}
      BY <3>1, AppendFacts, SMTT(30)
    <3> QED BY <3>2, <3>3
  <2> HIDE DEF w
  <2>6. \A i \in DOMAIN y.ready : i \in DOMAIN x.ready \/ i = Len(x.ready) + 1
    BY <2>3, <2>4, SMTT(30)
  <2>7. \A i \in DOMAIN x.ready : /\ i \in DOMAIN y.ready /\ i < Len(x.ready) + 1
                                  /\ y.ready[i] = x.ready[i] /\ (IsEnqueue(y, i) <=> IsEnqueue(x, i))
    BY <2>3, <2>4, SMTT(30) DEF IsEnqueue
  <2>8. Len(x.ready) + 1 \in DOMAIN y.ready /\ y.ready[Len(x.ready) + 1].msg = m
        /\ IsEnqueue(y, Len(x.ready) + 1)
    BY <2>2, <2>3, <2>4 DEF IsEnqueue
  <2>9. Posted(y) = Posted(x) \cup {m}
    BY <2>6, <2>7, <2>8 DEF Posted
  <2>10. Handed(y) = Handed(x)
    BY <1>1 DEF Handed
  <2>12. \A n \in Range(z) : n < m /\ n # m
    <3>1. Messages \subseteq Nat
      BY DEF SessionAssumption, Messages
    <3>2. \A n \in Range(z) : m < n => m \in Range(z)
      BY <2>1 DEF OnlySent
    <3> SUFFICES ASSUME NEW n \in Range(z) PROVE n < m /\ n # m
      OBVIOUS
    <3>3. n \in Nat /\ m \in Nat
      BY <2>5, <3>1, Zenon
    <3>4. n # m /\ ~(m < n)
      BY <3>2
    <3> QED BY <3>3, <3>4
  <2>13. \A n \in Range(v) \cup Handed(x) \cup Posted(x) : Precedes(n, m)
    BY <2>1, <2>12 DEF OnlySent, Precedes
  <2>14. Typed(y) /\ Pristine(y) /\ OneWrite(y)
    BY <1>1, <2>1, <2>4, Zenon DEF Typed, Pristine, OneWrite, is_open
  <2>15. Ordered(y, v)
    <3>1. InLine(v) /\ InLine(y.m_writeQueue)
      BY <1>1, <2>1 DEF Ordered, InLine
    <3>2. ASSUME NEW i \in DOMAIN y.ready, NEW j \in DOMAIN y.ready, i < j, IsEnqueue(y, i), IsEnqueue(y, j)
          PROVE  Precedes(y.ready[i].msg, y.ready[j].msg)
      <4>1. i \in DOMAIN x.ready
        BY <2>3, <2>4, <3>2
      <4>2. CASE j \in DOMAIN x.ready
        BY <2>1, <2>7, <3>2, <4>1, <4>2 DEF Ordered
      <4>3. CASE j = Len(x.ready) + 1
        <5>1. y.ready[i].msg \in Posted(x)
          BY <2>7, <3>2, <4>1 DEF Posted
        <5> QED BY <2>8, <2>13, <4>3, <5>1
      <4> QED BY <2>6, <4>2, <4>3
    <3>3. /\ \A a \in Range(v) : \A b \in Handed(y) \cup Posted(y) : Precedes(a, b)
          /\ \A a \in Handed(y) : \A b \in Posted(y) : Precedes(a, b)
      BY <2>1, <2>9, <2>10, <2>13 DEF Ordered
    <3> QED BY <3>1, <3>2, <3>3 DEF Ordered
  <2>16. OnlySent(y, v, w)
    BY <2>1, <2>5, <2>9, <2>10 DEF OnlySent
  <2> QED BY <2>14, <2>15, <2>16
<1> QED BY <1>1, <1>2, <1>3 DEF Good
-----------------------------------------------------------------------------
\* A step that moves no message.
LEMMA KeepingStep ==
  ASSUME Inv, Keeps(s, s'), UNCHANGED <<sent, wire>>, s'.handshake # "done" => s.handshake # "done"
  PROVE  Inv'
<1>1. Good(s', wire, sent) /\ Settled(s')
  BY KeepsGood DEF Inv
<1>2. s'.handshake # "done" => ~s'.opened
  BY DEF Inv, Keeps
<1>3. wire' = wire /\ sent' = sent
  OBVIOUS
<1>4. Good(s', wire', sent')
  BY <1>1, <1>3
<1> QED BY <1>1, <1>2, <1>4 DEF Inv

\* The handshake, until it succeeds.
LEMMA HandshakeInv ==
  ASSUME Inv, validate_handshake_request \/ reject_handshake
  PROVE  Inv'
<1>0. Shape(s)
  BY DEF Inv, Good
<1>1. UNCHANGED <<sent, wire>> /\ s.handshake # "done"
  BY DEF validate_handshake_request, reject_handshake, OnlySession
<1>2. CASE s' = [s EXCEPT !.handshake = "done", !.m_curState = "closed", !.stream = "ended"]
  BY <1>0, <1>1, <1>2, KeepingStep, Zenon DEF Keeps, Shape, Fields, is_open
<1>3. CASE s' = [s EXCEPT !.handshake = "upgrade"]
  BY <1>0, <1>1, <1>3, KeepingStep DEF Keeps, Shape, Fields, is_open
<1>4. CASE s' = [s EXCEPT !.handshake = "reject", !.m_curState = "closing"]
  BY <1>0, <1>1, <1>4, KeepingStep, Zenon DEF Keeps, Shape, Fields, is_open
<1> QED BY <1>2, <1>3, <1>4 DEF validate_handshake_request, reject_handshake

\* Opening: the heartbeat, the idle timer and the read touch no message either.
LEMMA StartKeeps ==
  ASSUME NEW x, Shape(x)
  PROVE  Keeps(x, read_first(x)) /\ Frame(x, read_first(x))
<1> DEFINE a == do_heartbeat(x)
           b == run_idle_timer(a)
           c == do_read(b)
<1>1. Keeps(x, a) /\ Frame(x, a) /\ a.m_curState = x.m_curState
  <2> DEFINE u == run_heartbeat_timer(x)
  <2>1. a \in {x, Post(u, [k |-> "ping"])}
    BY DEF do_heartbeat, do_heartbeat_next
  <2>2. Keeps(x, u) /\ Frame(x, u) /\ u.ready = x.ready /\ u.m_curState = x.m_curState
    BY Zenon DEF run_heartbeat_timer, Keeps, Frame, Shape, Fields
  <2> HIDE DEF u
  <2>3. LET y == Post(u, [k |-> "ping"]) IN Keeps(x, y) /\ Frame(x, y) /\ y.m_curState = x.m_curState
    BY <2>2, PostKeeps DEF Kinds
  <2> QED BY <2>1, <2>3, SameKeeps, Zenon
<1> HIDE DEF a
<1>2. Keeps(x, b) /\ Frame(x, b) /\ b.m_curState = x.m_curState
  BY <1>1, Zenon DEF run_idle_timer, Keeps, Frame, Shape, Fields, is_open
<1> HIDE DEF b
<1>3. Keeps(x, c) /\ Frame(x, c)
  BY <1>2, Zenon DEF do_read, async_read, Keeps, Frame, Shape, Fields, is_open
<1> QED BY <1>3 DEF read_first, a, b

\* The handshake succeeds: nothing was queued before.
LEMMA AcceptInv ==
  ASSUME cfg.ioThreads = 1, Inv, on_accept
  PROVE  Inv'
<1>0. Shape(s)
  BY DEF Inv, Good
<1>1. UNCHANGED <<sent, wire>> /\ s.handshake = "upgrade" /\ ~s.opened
  BY DEF on_accept, OnlySession, Inv
<1>2. CASE s' = [s EXCEPT !.handshake = "done", !.m_curState = "closed", !.stream = "ended"]
  BY <1>0, <1>1, <1>2, KeepingStep, Zenon DEF Keeps, Shape, Fields, is_open
<1> DEFINE x == [s EXCEPT !.handshake = "done", !.m_curState = "open", !.opened = TRUE, !.stream = "open"]
<1>3. CASE s' = read_first(x)
  <2>1. /\ Shape(x) /\ x.overlapped = s.overlapped /\ x.opened = TRUE
        /\ x.ready = s.ready /\ x.writes = s.writes /\ x.handshake = "done"
        /\ x.m_writeQueue = s.m_writeQueue /\ x.m_writing = s.m_writing
    BY <1>0, Zenon DEF Shape, Fields
  <2> HIDE DEF x
  <2>2. ASSUME ~s.overlapped
        PROVE  /\ Typed(x) /\ Pristine(x) /\ OneWrite(x) /\ Ordered(x, wire) /\ OnlySent(x, wire, sent)
               /\ x.writes = <<>> /\ ~x.m_writing
    <3>1. Typed(s) /\ Pristine(s) /\ Ordered(s, wire) /\ OnlySent(s, wire, sent)
      BY <2>2 DEF Inv, Good
    <3>2. x.writes = <<>> /\ ~x.m_writing
      BY <1>1, <2>1, <3>1 DEF Pristine
    <3>3. Typed(x) /\ Pristine(x)
      BY <2>1, <3>1 DEF Typed, Pristine
    <3>4. OneWrite(x)
      BY <3>2 DEF OneWrite
    <3>5. Handed(x) = Handed(s) /\ Posted(x) = Posted(s)
      BY <2>1 DEF Handed, Posted, IsEnqueue
    <3>6. Ordered(x, wire)
      BY <2>1, <3>1, <3>5, SMTT(30) DEF Ordered, InLine, IsEnqueue, Precedes
    <3>7. OnlySent(x, wire, sent)
      BY <3>1, <3>5 DEF OnlySent
    <3> QED BY <3>2, <3>3, <3>4, <3>6, <3>7
  <2>3. Good(x, wire, sent) /\ Settled(x)
    BY <2>1, <2>2 DEF Good, Settled
  <2>4. Keeps(x, s') /\ Frame(x, s')
    BY <1>3, <2>1, StartKeeps
  <2>5. Good(s', wire, sent) /\ Settled(s')
    BY <2>3, <2>4, KeepsGood
  <2>6. s'.handshake = "done"
    BY <2>1, <2>4 DEF Frame
  <2>7. Good(s', wire', sent')
    BY <1>1, <2>5
  <2> QED BY <2>5, <2>6, <2>7 DEF Inv
<1> QED BY <1>2, <1>3 DEF on_accept, Rest

\* Closing empties the queue; only the first of several ways to close does.
LEMMA BeginClosing ==
  ASSUME NEW x, Shape(x)
  PROVE  /\ Keeps(x, StartClosing(x)) /\ Frame(x, StartClosing(x)) /\ ~is_open(StartClosing(x))
         /\ Keeps(x, begin_closing(x)) /\ Frame(x, begin_closing(x)) /\ ~is_open(begin_closing(x))
<1>1. Keeps(x, StartClosing(x)) /\ Frame(x, StartClosing(x)) /\ ~is_open(StartClosing(x))
  BY ZenonT(60) DEF StartClosing, Cleared, stop_heartbeat_timer, cancel_idle_timer,
       Keeps, Frame, Shape, Fields, is_open
<1>2. is_closing_or_closed(x) => Keeps(x, x) /\ Frame(x, x) /\ ~is_open(x)
  BY SameKeeps DEF is_closing_or_closed, is_open
<1> QED BY <1>1, <1>2, Zenon DEF begin_closing

\* Closing and telling the router.
LEMMA MarkClosed ==
  ASSUME NEW x, Shape(x)
  PROVE  LET y == mark_closed_and_notify_once(begin_closing(x))
         IN  Keeps(x, y) /\ Frame(x, y) /\ ~is_open(y)
<1> DEFINE u == begin_closing(x)
<1>1. Keeps(x, u) /\ Frame(x, u) /\ ~is_open(u)
  BY BeginClosing
<1> HIDE DEF u
<1>2. LET y == mark_closed_and_notify_once(u) IN Keeps(x, y) /\ Frame(x, y) /\ ~is_open(y)
  BY <1>1, Zenon DEF mark_closed_and_notify_once, Keeps, Frame, Shape, Fields, is_open
<1> QED BY <1>2 DEF u

\* The end of a read.
LEMMA ReadInv ==
  ASSUME cfg.ioThreads = 1, Inv, on_read \/ on_read_error
  PROVE  Inv'
<1>0. Shape(s)
  BY DEF Inv, Good
<1>1. UNCHANGED <<sent, wire>>
  BY DEF on_read, on_read_error, OnlySession
<1>2. CASE on_read
  <2> DEFINE x == cancel_idle_timer([s EXCEPT !.reading = FALSE])
             b == run_idle_timer(x)
             c == do_read(b)
  <2>1. Keeps(s, x) /\ Frame(s, x) /\ x.m_curState = s.m_curState
    BY <1>0, Zenon DEF cancel_idle_timer, Keeps, Frame, Shape, Fields
  <2>2. s' = IF is_open(x) THEN c ELSE x
    BY <1>2 DEF on_read, Rest, read_next
  <2> HIDE DEF x
  <2>3. Keeps(s, b) /\ Frame(s, b) /\ b.m_curState = s.m_curState
    BY <2>1, Zenon DEF run_idle_timer, Keeps, Frame, Shape, Fields, is_open
  <2> HIDE DEF b
  <2>4. Keeps(s, c) /\ Frame(s, c)
    BY <2>3, Zenon DEF do_read, async_read, Keeps, Frame, Shape, Fields, is_open
  <2>5. Keeps(s, s') /\ Frame(s, s')
    BY <2>1, <2>2, <2>4, Zenon
  <2> QED BY <1>1, <2>5, KeepingStep DEF Frame
<1>3. CASE on_read_error
  <2> DEFINE x == cancel_idle_timer([s EXCEPT !.reading = FALSE, !.stream = "ended"])
  <2>1. /\ Shape(x) /\ Frame(s, x) /\ x.m_curState = s.m_curState /\ x.m_writeQueue = s.m_writeQueue
        /\ x.m_writing = s.m_writing /\ x.overlapped = s.overlapped
        /\ x.writes = s.writes /\ x.opened = s.opened /\ x.ready = s.ready
    BY <1>0, Zenon DEF cancel_idle_timer, Frame, Shape, Fields
  <2>2. s' = mark_closed_and_notify_once(begin_closing(x))
    BY <1>3 DEF on_read_error
  <2> HIDE DEF x
  <2>3. Keeps(x, s') /\ Frame(x, s') /\ ~is_open(s')
    BY <2>1, <2>2, MarkClosed
  <2>4. Keeps(s, s') /\ Frame(s, s')
    BY <2>1, <2>3, Zenon DEF Keeps, Frame
  <2> QED BY <1>1, <2>4, KeepingStep DEF Frame
<1> QED BY <1>2, <1>3

\* A message that was written leaves the queue.
LEMMA PoppedGood ==
  ASSUME NEW x, NEW y, NEW v, NEW z, Good(x, v, z), x.writes # <<>>, SameBut(x, y), Frame(x, y),
         y.writes = Tail(x.writes), y.m_writing = x.m_writing, y.m_writeQueue = x.m_writeQueue
  PROVE  LET m == Head(x.writes).msg
             p == Popped(y, m)
         IN  /\ Good(p, Append(v, m), z) /\ Frame(x, p) /\ p.m_curState = x.m_curState
             /\ p.overlapped = x.overlapped /\ (p.overlapped \/ p.writes = <<>>)
<1> DEFINE m == Head(x.writes).msg
           p == Popped(y, m)
<1>1. /\ SameBut(x, p) /\ Frame(x, p) /\ p.writes = y.writes /\ p.m_writing = x.m_writing
      /\ p.m_writeQueue = IF x.m_writeQueue = <<>> THEN <<>> ELSE Tail(x.m_writeQueue)
  <2>1. CASE x.m_writeQueue = <<>>
    BY <2>1 DEF Popped
  <2>2. CASE x.m_writeQueue # <<>>
    BY <2>2, Zenon DEF Popped, decrement_message_counters, SameBut, Frame, Shape, Fields
  <2> QED BY <2>1, <2>2
<1> HIDE DEF p
<1>2. /\ Good(p, Append(v, m), z) /\ Frame(x, p) /\ p.m_curState = x.m_curState
      /\ p.overlapped = x.overlapped /\ (p.overlapped \/ p.writes = <<>>)
  <2>1. CASE x.overlapped
    BY <1>1, <2>1 DEF SameBut, Good
  <2>2. CASE ~x.overlapped
    <3>1. y.writes = <<>>
      BY <2>2, WriteDone, Zenon
    <3>2. m = x.writes[1].msg
      <4>1. x.writes \in Seq([msg : Messages, draining : BOOLEAN])
        BY <2>2 DEF Good, Typed
      <4> QED BY <4>1, TailFacts
    <3> HIDE DEF m
    <3>3. Good(p, Append(v, m), z)
      BY <1>1, <2>2, <3>1, <3>2, Written
    <3> QED BY <1>1, <3>1, <3>3, Zenon DEF SameBut
  <2> QED BY <2>1, <2>2
<1> QED BY <1>2 DEF p

\* A write ends, well or not, in do_write_next or in do_drain_queue.
LEMMA WriteInv ==
  ASSUME cfg.ioThreads = 1, Inv, write_completes
  PROVE  Inv'
<1>0. Good(s, wire, sent) /\ Settled(s) /\ Shape(s) /\ s.writes # <<>> /\ sent' = sent
      /\ (s.handshake # "done" => ~s.opened)
  BY DEF Inv, Good, write_completes
<1> DEFINE w == Head(s.writes)
           x(ok) == [s EXCEPT !.writes = Tail(@), !.stream = IF ok THEN @ ELSE "ended"]
<1>1. PICK ok \in BOOLEAN :
        /\ s' = IF w.draining THEN on_drain_message_complete(x(ok), w.msg, ok)
                ELSE on_write_complete(x(ok), w.msg, ok)
        /\ wire' = IF ok THEN Append(wire, w.msg) ELSE wire
  BY Zenon DEF write_completes
<1> DEFINE y == x(ok)
<1>2. /\ SameBut(s, y) /\ Frame(s, y) /\ y.writes = Tail(s.writes) /\ y.m_writing = s.m_writing
      /\ y.m_writeQueue = s.m_writeQueue
  BY <1>0, Zenon DEF SameBut, Frame, Shape, Fields
<1>3. /\ s' = IF w.draining THEN on_drain_message_complete(y, w.msg, ok)
              ELSE on_write_complete(y, w.msg, ok)
      /\ wire' = IF ok THEN Append(wire, w.msg) ELSE wire
  BY <1>1
<1> HIDE DEF x
<1> HIDE DEF y
<1>4. w.draining /\ ~s.overlapped => ~is_open(s)
  <2>1. ASSUME ~s.overlapped PROVE s.writes \in Seq([msg : Messages, draining : BOOLEAN]) /\ OneWrite(s)
    BY <1>0, <2>1 DEF Good, Typed
  <2>2. ~s.overlapped => w = s.writes[1] /\ OneWrite(s)
    BY <1>0, <2>1, TailFacts
  <2> QED BY <1>0, <2>2 DEF OneWrite
<1>5. Good(s', wire', sent) /\ Settled(s') /\ Frame(s, s')
  <2>1. CASE ok
    <3> DEFINE p == Popped(y, w.msg)
    <3>1. /\ Good(p, wire', sent) /\ Frame(s, p) /\ p.m_curState = s.m_curState
          /\ p.overlapped = s.overlapped /\ (p.overlapped \/ p.writes = <<>>)
      BY <1>0, <1>2, <1>3, <2>1, PoppedGood
    <3> HIDE DEF w
    <3>2. CASE ~w.draining
      <4>1. s' = do_write_next(p)
        BY <1>3, <2>1, <3>2 DEF on_write_complete, Rest
      <4> HIDE DEF p
      <4>2. Good(s', wire', sent) /\ Settled(s') /\ Frame(p, s')
        BY <3>1, <4>1, WriteNext
      <4> QED BY <3>1, <4>2 DEF Frame
    <3>3. CASE w.draining
      <4> DEFINE u == [p EXCEPT !.m_writing = FALSE]
      <4>1. s' = do_drain_queue(u)
        BY <1>3, <2>1, <3>3 DEF on_drain_message_complete, drain_next, Rest
      <4> HIDE DEF p
      <4>2. Good(u, wire', sent) /\ Frame(p, u)
        BY <3>1, Unmark
      <4>3. u.m_curState = s.m_curState /\ u.overlapped = p.overlapped /\ u.writes = p.writes
        BY <3>1 DEF Good, Shape, Fields
      <4> HIDE DEF u
      <4>4. u.overlapped \/ ~is_open(u)
        BY <1>0, <1>4, <3>1, <3>3, <4>3 DEF is_open
      <4>5. Good(s', wire', sent) /\ Settled(s') /\ Frame(u, s')
        BY <3>1, <4>1, <4>2, <4>3, <4>4, Drain
      <4> QED BY <3>1, <4>2, <4>5 DEF Frame
    <3> QED BY <3>2, <3>3
  <2>2. CASE ~ok
    <3>1. wire' = wire /\ Shape(y) /\ y.m_curState = s.m_curState /\ y.overlapped = s.overlapped
      BY <1>2, <1>3, <2>2 DEF SameBut
    <3>2. Good(y, wire, sent)
      <4>1. CASE s.overlapped
        BY <3>1, <4>1 DEF Good
      <4>2. CASE ~s.overlapped
        BY <1>0, <1>2, <4>2, WriteDone
      <4> QED BY <4>1, <4>2
    <3>3. CASE ~w.draining
      <4>1. s' = mark_closed_and_notify_once(begin_closing(y))
        BY <1>3, <2>2, <3>3 DEF on_write_complete
      <4>2. Keeps(y, s') /\ Frame(y, s') /\ ~is_open(s')
        BY <3>1, <4>1, MarkClosed
      <4>3. Good(s', wire, sent) /\ Settled(s')
        BY <3>2, <4>2, KeepsGood DEF Settled
      <4> QED BY <1>2, <3>1, <4>2, <4>3 DEF Frame
    <3>4. CASE w.draining
      <4>1. s' = close_forcefully([y EXCEPT !.swallowed = @ \/ ~y.reading])
        BY <1>3, <2>2, <3>4 DEF on_drain_message_complete
      <4>2. Keeps(y, s') /\ Frame(y, s')
        <5> DEFINE u == [y EXCEPT !.swallowed = @ \/ ~y.reading]
        <5>1. Keeps(y, u) /\ Frame(y, u) /\ u.ready = y.ready
          BY <3>1, Zenon DEF Keeps, Frame, Shape, Fields
        <5>2. s' = Post(u, [k |-> "close_forcefully"])
          BY <4>1 DEF close_forcefully
        <5> HIDE DEF u
        <5> QED BY <5>1, <5>2, PostKeeps DEF Kinds
      <4>3. Settled(y)
        BY <1>4, <3>1, <3>4 DEF Settled, is_open
      <4>4. Good(s', wire, sent) /\ Settled(s')
        BY <3>2, <4>2, <4>3, KeepsGood
      <4> QED BY <1>2, <3>1, <4>2, <4>4 DEF Frame
    <3> QED BY <3>3, <3>4
  <2> QED BY <2>1, <2>2
<1>6. Good(s', wire', sent')
  BY <1>0, <1>5
<1> QED BY <1>0, <1>5, <1>6 DEF Inv, Frame

\* A close ends; like pongs, timers and calls of close, it moves no message.
LEMMA CloseInv ==
  ASSUME Inv, close_completes
  PROVE  Inv'
<1>0. Shape(s) /\ UNCHANGED <<sent, wire>>
  BY DEF Inv, Good, close_completes, OnlySession
<1> DEFINE x == [s EXCEPT !.closes = @ - 1, !.stream = "ended"]
<1>1. Keeps(s, x) /\ Frame(s, x)
  BY <1>0, Zenon DEF Keeps, Frame, Shape, Fields
<1>2. s' \in {x, mark_closed_and_notify_once(x)}
  BY DEF close_completes
<1> HIDE DEF x
<1>3. Keeps(s, mark_closed_and_notify_once(x)) /\ Frame(s, mark_closed_and_notify_once(x))
  BY <1>1, Zenon DEF mark_closed_and_notify_once, Keeps, Frame, Shape, Fields, is_open
<1>4. Keeps(s, s') /\ Frame(s, s')
  BY <1>1, <1>2, <1>3, Zenon
<1> QED BY <1>0, <1>4, KeepingStep DEF Frame

\* A pong restarts the heartbeat.
LEMMA PongInv ==
  ASSUME Inv, on_pong
  PROVE  Inv'
<1>0. /\ Shape(s) /\ UNCHANGED <<sent, wire>>
      /\ s' = do_heartbeat_next(stop_heartbeat_timer(s))
  BY DEF Inv, Good, on_pong, OnlySession
<1>1. Keeps(s, s') /\ Frame(s, s')
  <2> DEFINE u == run_heartbeat_timer(stop_heartbeat_timer(s))
  <2>1. Keeps(s, u) /\ Frame(s, u) /\ u.ready = s.ready
    BY <1>0, Zenon DEF run_heartbeat_timer, stop_heartbeat_timer, Keeps, Frame, Shape, Fields
  <2>2. s' = Post(u, [k |-> "ping"])
    BY <1>0 DEF do_heartbeat_next
  <2> HIDE DEF u
  <2> QED BY <2>1, <2>2, PostKeeps DEF Kinds
<1> QED BY <1>0, <1>1, KeepingStep DEF Frame

\* A timer expires, and its handler runs.
LEMMA TimerInv ==
  ASSUME Inv, timer_expires \/ on_timeout
  PROVE  Inv'
<1>0. Shape(s) /\ UNCHANGED <<sent, wire>>
  BY DEF Inv, Good, timer_expires, on_timeout, OnlySession
<1>1. CASE timer_expires
  <2>1. CASE s' = [s EXCEPT !.m_idleTimer = "off", !.expired = @ \cup {s.m_idleTimer}]
    <3>1. Keeps(s, s') /\ Frame(s, s')
      BY <1>0, <1>1, <2>1, Zenon DEF timer_expires, Keeps, Frame, Shape, Fields
    <3> QED BY <1>0, <3>1, KeepingStep DEF Frame
  <2>2. CASE s' = [s EXCEPT !.m_heartbeatTimer = FALSE, !.expired = @ \cup {"heartbeat"}]
    BY <1>0, <2>2, KeepingStep, Zenon DEF Keeps, Shape, Fields
  <2> QED BY <1>1, <2>1, <2>2 DEF timer_expires
<1>2. CASE on_timeout
  <2> DEFINE x(k) == [s EXCEPT !.expired = @ \ {k}]
  <2>1. PICK k \in s.expired :
          s' = CASE k = "idle"      -> on_idle_timeout(x(k))
                 [] k = "heartbeat" -> on_heartbeat_timeout(x(k))
                 [] k = "drain"     -> on_drain_timeout(x(k))
    BY <1>2, Zenon DEF on_timeout
  <2> DEFINE y == x(k)
  <2>2. Keeps(s, y) /\ Frame(s, y) /\ y.ready = s.ready
    BY <1>0, Zenon DEF Keeps, Frame, Shape, Fields
  <2>3. k \in {"idle", "drain", "heartbeat"}
    BY <1>0, Zenon DEF Shape
  <2>4. s' \in {Post(y, [k |-> "close"]), Post(y, [k |-> "close_forcefully"])}
    BY <2>1, <2>3 DEF on_idle_timeout, on_heartbeat_timeout, on_drain_timeout, close, close_forcefully
  <2> HIDE DEF x, y
  <2>5. Keeps(s, s') /\ Frame(s, s')
    BY <2>2, <2>4, PostKeeps DEF Kinds
  <2> QED BY <1>0, <2>5, KeepingStep DEF Frame
<1> QED BY <1>1, <1>2

\* Calls of close, close_forcefully and close_for_shutdown.
LEMMA CallInv ==
  ASSUME Inv, user_close \/ close_for_shutdown \/ close_for_shutdown_post
  PROVE  Inv'
<1>0. Shape(s) /\ UNCHANGED <<sent, wire>>
  BY DEF Inv, Good, user_close, close_for_shutdown, close_for_shutdown_post
<1>1. CASE s' = s
  BY <1>0, <1>1, KeepingStep, Zenon DEF Keeps, Shape
<1>2. CASE s' = close(s)
  <2>1. Keeps(s, s') /\ Frame(s, s')
    BY <1>0, <1>2, SameKeeps, PostKeeps DEF close, Kinds
  <2> QED BY <1>0, <2>1, KeepingStep DEF Frame
<1>3. CASE s' = close_forcefully(s)
  <2>1. Keeps(s, s') /\ Frame(s, s')
    BY <1>0, <1>3, SameKeeps, PostKeeps DEF close_forcefully, Kinds
  <2> QED BY <1>0, <2>1, KeepingStep DEF Frame
<1>4. CASE s' = Post(s, [k |-> "close_for_shutdown"])
  <2>1. Keeps(s, s') /\ Frame(s, s')
    BY <1>0, <1>4, SameKeeps, PostKeeps DEF Kinds
  <2> QED BY <1>0, <2>1, KeepingStep DEF Frame
<1> QED BY <1>1, <1>2, <1>3, <1>4 DEF user_close, close_for_shutdown, close_for_shutdown_post

\* A call of send_text.
LEMMA SendInv ==
  ASSUME Inv, NEW m \in Messages, send_text(m)
  PROVE  Inv'
<1>1. Good(s', wire, Append(sent, m)) /\ Settled(s') /\ Frame(s, s')
  BY SendText, SessionAssumption DEF Inv, send_text
<1>2. wire' = wire /\ sent' = Append(sent, m)
  BY DEF send_text
<1>3. Good(s', wire', sent')
  BY <1>1, <1>2
<1> QED BY <1>1, <1>3 DEF Inv, Frame

\* The handlers that close the session or look whether it should be closed.
LEMMA ClosingHandlers ==
  ASSUME cfg.ioThreads = 1, NEW x, NEW v, NEW z, NEW ok, Good(x, v, z), Settled(x),
         NEW y \in {close_posted(x), close_for_shutdown_posted(x), close_forcefully_posted(x),
                    on_ping(x, ok)}
  PROVE  Good(y, v, z) /\ Settled(y) /\ Frame(x, y)
<1>0. Shape(x)
  BY DEF Good
<1>1. CASE y = close_posted(x)
  <2> DEFINE u == StartClosing(x)
  <2>1. Keeps(x, u) /\ Frame(x, u) /\ ~is_open(u)
    BY <1>0, BeginClosing
  <2>2. y \in {x, async_close(u)}
    BY <1>1 DEF close_posted, Rest
  <2> HIDE DEF u
  <2>3. Keeps(x, async_close(u)) /\ Frame(x, async_close(u))
    BY <2>1, Zenon DEF async_close, Keeps, Frame, Shape, Fields, is_open
  <2>4. Keeps(x, y) /\ Frame(x, y)
    BY <1>0, <2>2, <2>3, SameKeeps, Zenon
  <2> QED BY <2>4, KeepsGood
<1>2. CASE y = close_for_shutdown_posted(x)
  <2> DEFINE u == run_drain_timer([cancel_idle_timer(x) EXCEPT !.m_curState = "shutdown"])
  <2>1. Keeps(x, u) /\ Frame(x, u) /\ ~is_open(u) /\ is_shutdown(u)
    BY <1>0, Zenon DEF run_drain_timer, cancel_idle_timer, Keeps, Frame, Shape, Fields, is_open, is_shutdown
  <2>2. y = do_drain_queue(u)
    BY <1>2 DEF close_for_shutdown_posted, Rest
  <2> HIDE DEF u
  <2>3. Good(u, v, z)
    BY <2>1, KeepsGood
  <2>4. Good(y, v, z) /\ Settled(y) /\ Frame(u, y)
    BY <2>1, <2>2, <2>3, Drain
  <2> QED BY <2>1, <2>4 DEF Frame
<1>3. CASE y = close_forcefully_posted(x)
  <2> DEFINE u == [cancel_idle_timer(x) EXCEPT !.m_curState = "closing"]
  <2>1. Keeps(x, u) /\ Frame(x, u) /\ ~is_open(u)
    BY <1>0, Zenon DEF cancel_idle_timer, Keeps, Frame, Shape, Fields, is_open
  <2>2. y \in {x, async_close(u)}
    BY <1>3 DEF close_forcefully_posted, CloseNow, Rest
  <2> HIDE DEF u
  <2>3. Keeps(x, async_close(u)) /\ Frame(x, async_close(u))
    BY <2>1, Zenon DEF async_close, Keeps, Frame, Shape, Fields, is_open
  <2>4. Keeps(x, y) /\ Frame(x, y)
    BY <1>0, <2>2, <2>3, SameKeeps, Zenon
  <2> QED BY <2>4, KeepsGood
<1>4. CASE y = on_ping(x, ok)
  <2> DEFINE u == [x EXCEPT !.stream = "ended", !.swallowed = @ \/ (x.stream # "ended" /\ ~x.reading)]
  <2>1. y \in {x, Post(u, [k |-> "close"])}
    BY <1>4 DEF on_ping, close
  <2>2. Keeps(x, u) /\ Frame(x, u) /\ u.ready = x.ready
    BY <1>0, Zenon DEF Keeps, Frame, Shape, Fields
  <2> HIDE DEF u
  <2>3. LET p == Post(u, [k |-> "close"]) IN Keeps(x, p) /\ Frame(x, p)
    BY <2>2, PostKeeps DEF Kinds
  <2>4. Keeps(x, y) /\ Frame(x, y)
    BY <1>0, <2>1, <2>3, SameKeeps, Zenon
  <2> QED BY <2>4, KeepsGood
<1> QED BY <1>1, <1>2, <1>3, <1>4

\* The io thread runs a posted handler.
LEMMA PostedInv ==
  ASSUME cfg.ioThreads = 1, Inv, run_posted
  PROVE  Inv'
<1>0. /\ Good(s, wire, sent) /\ Settled(s) /\ Shape(s) /\ wire' = wire /\ sent' = sent
      /\ (s.handshake # "done" => ~s.opened)
  BY DEF Inv, Good, run_posted, OnlySession
<1> DEFINE h(i) == s.ready[i]
           x(i) == [s EXCEPT !.ready = Without(@, i)]
<1>1. PICK i \in DOMAIN s.ready, ok \in BOOLEAN :
        /\ i <= s.threads
        /\ s' = CASE h(i).k = "enqueue"            -> do_enqueue_message(x(i), h(i).msg, ok)
                  [] h(i).k = "close"              -> close_posted(x(i))
                  [] h(i).k = "close_for_shutdown" -> close_for_shutdown_posted(x(i))
                  [] h(i).k = "close_forcefully"   -> close_forcefully_posted(x(i))
                  [] h(i).k = "ping"               -> on_ping(x(i), ok)
  BY Zenon DEF run_posted
<1> DEFINE y == x(i)
<1>2. /\ Good(y, wire, sent) /\ Settled(y)
      /\ ~s.overlapped /\ s.ready[i].k = "enqueue" => Fits(y, wire, sent, s.ready[i].msg)
  BY <1>0, <1>1, TakeHandler, SessionAssumption, Zenon DEF IsEnqueue
<1>3. Frame(s, y) /\ y.overlapped = s.overlapped
  BY <1>0 DEF Frame, Shape, Fields
<1>4. s.ready[i].k \in Kinds \cup {"enqueue"}
  <2>1. s.ready[i] \in Handlers
    BY <1>0, RangeIs DEF Shape
  <2> QED BY <2>1 DEF Handlers
<1> HIDE DEF x
<1>5. \/ s.ready[i].k = "enqueue" /\ s' = do_enqueue_message(y, s.ready[i].msg, ok)
      \/ s' \in {close_posted(y), close_for_shutdown_posted(y), close_forcefully_posted(y),
                 on_ping(y, ok)}
  BY <1>1, <1>4 DEF Kinds
<1> HIDE DEF y
<1>6. Good(s', wire, sent) /\ Settled(s') /\ Frame(y, s')
  BY <1>2, <1>3, <1>5, EnqueueMessage, ClosingHandlers
<1>7. Good(s', wire', sent')
  BY <1>0, <1>6
<1> QED BY <1>0, <1>3, <1>6, <1>7 DEF Inv, Frame
-----------------------------------------------------------------------------
\* A session that was just created.
LEMMA InitInv == Init /\ cfg.ioThreads = 1 => Inv
<1> SUFFICES ASSUME Init, cfg.ioThreads = 1 PROVE Inv
  OBVIOUS
<1>1. wire = <<>> /\ sent = <<>>
  BY DEF Init
<1>2. /\ Shape(s) /\ s.m_curState = "opening" /\ s.m_writeQueue = <<>> /\ s.writes = <<>>
      /\ s.ready = <<>> /\ s.m_writing = FALSE /\ s.opened = FALSE /\ s.handshake = "request"
  <2>1. s = [m_curState |-> "opening", m_writeQueue |-> <<>>, m_currentQueuedMessages |-> 0,
             m_currentQueuedBytes |-> 0, m_writing |-> FALSE, m_closeNotified |-> FALSE,
             m_idleTimer |-> "off", m_heartbeatTimer |-> FALSE, opened |-> FALSE,
             ready |-> <<>>, running |-> <<>>, expired |-> {}, handshake |-> "request",
             stream |-> "handshake", reading |-> FALSE, writes |-> <<>>, closes |-> 0,
             overlapped |-> FALSE, freed |-> FALSE, swallowed |-> FALSE, threads |-> cfg.ioThreads]
    BY DEF Init
  <2>2. DOMAIN s = Fields /\ s = [f \in Fields |-> s[f]]
    BY <2>1, Zenon DEF Fields
  <2>3. /\ s.ready = <<>> /\ s.overlapped = FALSE /\ s.m_idleTimer = "off" /\ s.expired = {}
        /\ s.m_curState = "opening" /\ s.m_writeQueue = <<>> /\ s.writes = <<>>
        /\ s.m_writing = FALSE /\ s.opened = FALSE /\ s.handshake = "request"
        /\ s.running = <<>> /\ s.threads = 1
    BY <2>1
  <2>4. s.threads \in Int /\ s.threads <= 1
    BY <2>3
  <2> QED BY <2>2, <2>3, <2>4, EmptyFacts, Zenon DEF Shape
<1>3. Typed(s) /\ Pristine(s) /\ OneWrite(s)
  <2>1. Len(<<>>) <= 1 /\ \A S : <<>> \in Seq(S)
    OBVIOUS
  <2>2. Typed(s)
    BY <1>2, <2>1, Zenon DEF Typed
  <2>3. Pristine(s) /\ OneWrite(s)
    BY <1>2, <2>1 DEF Pristine, OneWrite, is_open
  <2> QED BY <2>2, <2>3
<1>4. Handed(s) = {} /\ Posted(s) = {} /\ DOMAIN s.ready = {}
  BY <1>2, EmptyFacts DEF Handed, Posted
<1>5. Ordered(s, wire)
  BY <1>1, <1>2, <1>4, EmptyFacts DEF Ordered, InLine
<1>6. OnlySent(s, wire, sent)
  BY <1>1, <1>4, EmptyFacts DEF OnlySent
<1>7. Settled(s)
  BY <1>2 DEF Settled, is_open
<1> QED BY <1>2, <1>3, <1>5, <1>6, <1>7 DEF Inv, Good

\* Nothing is left of a handler to run.
LEMMA NoRest == Inv => ~run_rest
<1>1. ASSUME Inv PROVE DOMAIN s.running = {}
  <2>1. s.running = <<>>
    BY <1>1 DEF Inv, Good, Shape
  <2> QED BY <2>1, EmptyFacts, Zenon
<1> QED BY <1>1, Zenon DEF run_rest

\* The configuration does not change.
LEMMA FixedConfig == [Next \/ Ended]_vars => cfg' = cfg
BY Zenon DEF Next, Ended, vars, validate_handshake_request, reject_handshake, on_accept, on_read,
       on_read_error, write_completes, close_completes, on_pong, timer_expires, on_timeout,
       run_posted, run_rest, send_text, user_close, close_for_shutdown,
       close_for_shutdown_post, OnlySession

\* Every step keeps the invariant.
LEMMA NextInv == cfg.ioThreads = 1 /\ Inv /\ [Next \/ Ended]_vars => Inv'
<1> SUFFICES ASSUME cfg.ioThreads = 1, Inv, [Next \/ Ended]_vars PROVE Inv'
  OBVIOUS
<1>1. CASE UNCHANGED vars
  <2>1. Shape(s) /\ s' = s /\ UNCHANGED <<sent, wire>>
    BY <1>1 DEF vars, Inv, Good
  <2>2. Keeps(s, s')
    BY <2>1, SameKeeps
  <2> QED BY <2>1, <2>2, KeepingStep
<1>2. CASE \E m \in Messages : send_text(m)
  BY <1>2, SendInv
<1> QED
  BY <1>1, <1>2, HandshakeInv, AcceptInv, ReadInv, WriteInv, CloseInv, PongInv, TimerInv,
     PostedInv, CallInv, NoRest DEF Next, Ended

\* The inductive invariant of a session whose handlers run on one io thread, where each
\* is one step.
THEOREM SessionInvariant == Spec => [](cfg.ioThreads = 1 => Inv)
<1>1. Init => (cfg.ioThreads = 1 => Inv)
  BY InitInv
<1>2. (cfg.ioThreads = 1 => Inv) /\ [Next \/ Ended]_vars => (cfg.ioThreads = 1 => Inv)'
  <2> SUFFICES ASSUME cfg.ioThreads = 1 => Inv, [Next \/ Ended]_vars, cfg'.ioThreads = 1
               PROVE  Inv'
    OBVIOUS
  <2>1. cfg' = cfg
    BY FixedConfig
  <2>2. cfg.ioThreads = 1
    BY <2>1
  <2> QED BY <2>2, NextInv
<1> QED BY <1>1, <1>2, PTL DEF Spec

\* With one io thread messages leave one write at a time, each at most once and in the
\* order of send_text, from the head of the queue: however closes, shutdowns, timers and
\* failing writes interleave with them.
THEOREM MessagesInOrder == Spec => []SendOrder
<1>1. (cfg.ioThreads = 1 => Inv) => SendOrder
  <2> SUFFICES ASSUME Inv, ~s.overlapped
               PROVE  /\ Len(s.writes) <= 1
                      /\ \A i, j \in DOMAIN wire : i < j => wire[i] < wire[j]
                      /\ is_open(s) /\ s.writes # <<>>
                           => s.m_writeQueue # <<>> /\ Head(s.writes).msg = Head(s.m_writeQueue)
    BY DEF SendOrder
  <2>1. Typed(s) /\ OneWrite(s) /\ Ordered(s, wire)
    BY DEF Inv, Good
  <2>2. s.writes # <<>> /\ s.m_writeQueue # <<>>
          => Head(s.writes) = s.writes[1] /\ Head(s.m_writeQueue) = s.m_writeQueue[1]
    BY <2>1, TailFacts DEF Typed
  <2> QED BY <2>1, <2>2 DEF OneWrite, Ordered, InLine, Precedes
<1> QED BY <1>1, SessionInvariant, PTL

-----------------------------------------------------------------------------
\* Running totals that do not decrease.
Rising(q) ==
  {t \in Totals(q) : \A i, j \in 0..Len(q) : i <= j => t[i] <= t[j]}

\* The counters cover the queue, exactly while the session is open.
Covers(x) ==
  \E t \in Rising(x.m_writeQueue) :
    /\ x.m_currentQueuedMessages \in Len(x.m_writeQueue)..maxQueuedMessages
    /\ x.m_currentQueuedBytes \in t[Len(x.m_writeQueue)]..maxQueuedBytes
    /\ is_open(x) => /\ x.m_currentQueuedMessages = Len(x.m_writeQueue)
                     /\ x.m_currentQueuedBytes = t[Len(x.m_writeQueue)]

\* Before a session opens nothing is queued or counted; two writes overlap only
\* after it was open.
Counted(x) ==
  /\ DOMAIN x = Fields
  /\ is_open(x) => x.opened /\ ~x.overlapped
  /\ ~x.opened => /\ ~x.overlapped /\ x.m_writeQueue = <<>> /\ x.writes = <<>>
                  /\ x.m_currentQueuedMessages = 0 /\ x.m_currentQueuedBytes = 0
  /\ ~x.overlapped => Covers(x)

\* An empty queue holds no bytes.
LEMMA NoBytes == \E t \in Rising(<<>>) : t[0] = 0
<1> DEFINE t == [i \in 0..0 |-> 0]
<1>1. Len(<<>>) = 0 /\ 1..0 = {} /\ 0..0 = {0}
  OBVIOUS
<1>2. 0 \in 0..maxQueuedBytes
  BY SessionAssumption DEF SessionAssumption
<1>3. t \in [0..Len(<<>>) -> 0..maxQueuedBytes] /\ t[0] = 0
  BY <1>1, <1>2
<1>4. \A i, j \in 0..Len(<<>>) : i <= j => t[i] <= t[j]
  BY <1>1
<1> HIDE DEF t
<1>5. t \in Rising(<<>>)
  BY <1>1, <1>3, <1>4 DEF Rising, Totals
<1> QED BY <1>3, <1>5

\* What the totals of a queue are.
LEMMA TotalsAre ==
  ASSUME NEW q \in Seq(Messages), NEW t \in Rising(q)
  PROVE  /\ Len(q) \in Nat /\ maxQueuedBytes \in Nat
         /\ t \in [0..Len(q) -> 0..maxQueuedBytes] /\ t[0] = 0
         /\ \A i \in 1..Len(q) : q[i] \in Messages /\ Size(q[i]) \in Nat /\ t[i] = t[i - 1] + Size(q[i])
         /\ \A i, j \in 0..Len(q) : i <= j => t[i] <= t[j]
<1>1. maxQueuedBytes \in Nat /\ \A m \in Messages : Size(m) \in Nat
  BY SessionAssumption DEF SessionAssumption
<1>2. Len(q) \in Nat /\ \A i \in 1..Len(q) : q[i] \in Messages
  OBVIOUS
<1> QED BY <1>1, <1>2 DEF Rising, Totals

\* A message that still fits is added to the total.
LEMMA MoreBytes ==
  ASSUME NEW q \in Seq(Messages), NEW m \in Messages, NEW t \in Rising(q),
         t[Len(q)] + Size(m) <= maxQueuedBytes
  PROVE  \E u \in Rising(Append(q, m)) : u[Len(q) + 1] = t[Len(q)] + Size(m)
<1> DEFINE n == Len(q)
           r == Append(q, m)
           u == [i \in 0..(n + 1) |-> IF i = n + 1 THEN t[n] + Size(m) ELSE t[i]]
<1>1. /\ n \in Nat /\ maxQueuedBytes \in Nat
      /\ t \in [0..n -> 0..maxQueuedBytes] /\ t[0] = 0
      /\ \A i \in 1..n : t[i] = t[i - 1] + Size(q[i])
      /\ \A i, j \in 0..n : i <= j => t[i] <= t[j]
  BY TotalsAre
<1>2. Size(m) \in Nat
  BY SessionAssumption DEF SessionAssumption
<1>3. /\ Len(r) = n + 1 /\ \A i \in 1..n : r[i] = q[i]
      /\ r[n + 1] = m
  BY AppendFacts
<1> HIDE DEF n, r
<1>4. t[n] + Size(m) <= maxQueuedBytes
  BY DEF n
<1>5. /\ u \in [0..(n + 1) -> 0..maxQueuedBytes] /\ u[n + 1] = t[n] + Size(m)
      /\ \A i \in 0..n : u[i] = t[i]
  BY <1>1, <1>2, <1>4
<1> HIDE DEF u
<1>6. u[0] = 0
  BY <1>1, <1>5
<1>7. ASSUME NEW i \in 1..(n + 1) PROVE u[i] = u[i - 1] + Size(r[i])
  <2>1. CASE i = n + 1
    BY <1>1, <1>3, <1>5, <2>1
  <2>2. CASE i # n + 1
    <3>1. i \in 1..n /\ i \in 0..n /\ i - 1 \in 0..n
      BY <1>1, <2>2
    <3> QED BY <1>1, <1>3, <1>5, <3>1
  <2> QED BY <2>1, <2>2
<1>8. ASSUME NEW i \in 0..(n + 1), NEW j \in 0..(n + 1), i <= j PROVE u[i] <= u[j]
  <2>1. CASE j = n + 1 /\ i = n + 1
    BY <1>1, <1>2, <1>5, <2>1
  <2>2. CASE j = n + 1 /\ i # n + 1
    <3>1. i \in 0..n /\ n \in 0..n /\ i <= n
      BY <1>1, <2>2
    <3>2. u[i] = t[i] /\ t[i] <= t[n] /\ t[i] \in Nat /\ t[n] \in Nat
      BY <1>1, <1>5, <3>1
    <3> QED BY <1>2, <1>5, <2>2, <3>2
  <2>3. CASE j # n + 1
    <3>1. i \in 0..n /\ j \in 0..n
      BY <1>1, <1>8, <2>3
    <3> QED BY <1>1, <1>5, <1>8, <3>1
  <2> QED BY <2>1, <2>2, <2>3
<1>9. u \in Rising(r)
  BY <1>3, <1>5, <1>6, <1>7, <1>8 DEF Rising, Totals
<1> QED BY <1>5, <1>9 DEF n, r

\* The message that leaves is subtracted from it.
LEMMA FewerBytes ==
  ASSUME NEW q \in Seq(Messages), q # <<>>, NEW t \in Rising(q)
  PROVE  /\ Size(q[1]) \in Nat /\ t[Len(q)] \in Nat /\ Size(q[1]) <= t[Len(q)]
         /\ \E u \in Rising(Tail(q)) : u[Len(q) - 1] = t[Len(q)] - Size(q[1])
<1> DEFINE n == Len(q)
           r == Tail(q)
           a == Size(q[1])
           u == [i \in 0..(n - 1) |-> t[i + 1] - a]
<1>1. /\ n \in Nat \ {0} /\ maxQueuedBytes \in Nat /\ a \in Nat
      /\ t \in [0..n -> 0..maxQueuedBytes] /\ t[0] = 0
      /\ \A i \in 1..n : t[i] = t[i - 1] + Size(q[i]) /\ Size(q[i]) \in Nat
      /\ \A i, j \in 0..n : i <= j => t[i] <= t[j]
  <2>1. n \in Nat /\ n # 0
    BY RangeIs
  <2>2. 1 \in 1..n
    BY <2>1
  <2> QED BY <2>1, <2>2, TotalsAre
<1>2. Len(r) = n - 1 /\ \A i \in 1..(n - 1) : r[i] = q[i + 1]
  BY TailFacts
<1> HIDE DEF r
<1>3. t[1] = a
  <2>1. 1 \in 1..n
    BY <1>1
  <2>2. t[1] = t[1 - 1] + Size(q[1])
    BY <1>1, <2>1
  <2>3. 1 - 1 = 0
    OBVIOUS
  <2> QED BY <1>1, <2>2, <2>3
<1> HIDE DEF n, a
<1>0. a \in Nat /\ n \in Nat \ {0} /\ maxQueuedBytes \in Nat
  BY <1>1
<1>4. \A i \in 1..n : a <= t[i] /\ t[i] \in 0..maxQueuedBytes
  <2> SUFFICES ASSUME NEW i \in 1..n PROVE a <= t[i] /\ t[i] \in 0..maxQueuedBytes
    OBVIOUS
  <2>1. 1 \in 0..n /\ i \in 0..n /\ 1 <= i
    BY <1>1
  <2> QED BY <1>1, <1>3, <2>1
<1>5. \A i \in 0..(n - 1) : i + 1 \in 1..n /\ u[i] = t[i + 1] - a
  BY <1>1
<1>6. u \in [0..(n - 1) -> 0..maxQueuedBytes]
  <2>1. ASSUME NEW i \in 0..(n - 1) PROVE t[i + 1] - a \in 0..maxQueuedBytes
    <3>1. a <= t[i + 1] /\ t[i + 1] \in 0..maxQueuedBytes
      BY <1>4, <1>5
    <3> QED BY <1>0, <3>1
  <2> QED BY <2>1
<1> HIDE DEF u
<1>7. u[0] = 0
  <2>1. 0 \in 0..(n - 1) /\ 0 + 1 = 1
    BY <1>0
  <2>2. u[0] = t[1] - a
    BY <1>5, <2>1
  <2> QED BY <1>0, <1>3, <2>2
<1>8. ASSUME NEW i \in 1..(n - 1) PROVE u[i] = u[i - 1] + Size(r[i])
  <2>1. /\ i \in 0..(n - 1) /\ i - 1 \in 0..(n - 1) /\ (i - 1) + 1 = i /\ (i + 1) - 1 = i
        /\ i + 1 \in 1..n /\ i \in 1..n
    BY <1>1
  <2>2. u[i] = t[i + 1] - a /\ u[i - 1] = t[i] - a
    BY <1>5, <2>1
  <2>3. t[i + 1] = t[i] + Size(q[i + 1]) /\ Size(q[i + 1]) \in Nat
    BY <1>1, <2>1
  <2>4. t[i] \in Nat /\ r[i] = q[i + 1]
    BY <1>2, <1>4, <2>1
  <2> QED BY <1>0, <2>2, <2>3, <2>4
<1>9. ASSUME NEW i \in 0..(n - 1), NEW j \in 0..(n - 1), i <= j PROVE u[i] <= u[j]
  <2>1. i + 1 \in 0..n /\ j + 1 \in 0..n /\ i + 1 <= j + 1
    BY <1>1, <1>9
  <2>2. t[i + 1] <= t[j + 1] /\ t[i + 1] \in Nat /\ t[j + 1] \in Nat
    BY <1>1, <2>1
  <2>3. u[i] = t[i + 1] - a /\ u[j] = t[j + 1] - a
    BY <1>5
  <2> QED BY <1>0, <2>2, <2>3
<1>10. u \in Rising(r)
  BY <1>2, <1>6, <1>7, <1>8, <1>9 DEF Rising, Totals
<1>11. n \in 1..n /\ n - 1 \in 0..(n - 1) /\ (n - 1) + 1 = n
  BY <1>1
<1>12. u[n - 1] = t[n] - a /\ a <= t[n] /\ t[n] \in Nat
  BY <1>4, <1>5, <1>11
<1> QED BY <1>1, <1>10, <1>12 DEF n, a, r

\* size_t arithmetic that does not wrap.
LEMMA NoWrap ==
  ASSUME NEW a \in Nat, NEW k \in Nat, a < k
  PROVE  a % k = a
OBVIOUS
\* y is x but for what is not counted; it may no longer be open.
Steady(x, y) ==
  /\ DOMAIN y = Fields /\ y.opened = x.opened /\ y.overlapped = x.overlapped
  /\ y.m_curState = x.m_curState \/ ~is_open(y)
  /\ y.m_writeQueue = x.m_writeQueue
  /\ y.m_currentQueuedMessages = x.m_currentQueuedMessages
  /\ y.m_currentQueuedBytes = x.m_currentQueuedBytes
  /\ y.writes = x.writes \/ x.opened

\* Then the counters cover as before.
LEMMA SteadyCounted ==
  ASSUME NEW x, NEW y, Counted(x), Steady(x, y)
  PROVE  Counted(y)
<1>1. is_open(y) => is_open(x)
  BY DEF Steady, is_open
<1>2. ~y.overlapped => Covers(y)
  <2> SUFFICES ASSUME ~y.overlapped PROVE Covers(y)
    OBVIOUS
  <2>1. Covers(x)
    BY DEF Counted, Steady
  <2> QED BY <1>1, <2>1 DEF Covers, Steady
<1> QED BY <1>1, <1>2 DEF Counted, Steady

\* Closing empties the queue, and resets the counters or leaves them.
LEMMA EmptiedCounted ==
  ASSUME NEW x, NEW y, Counted(x), DOMAIN y = Fields, y.opened = x.opened,
         y.overlapped = x.overlapped, ~is_open(y), y.m_writeQueue = <<>>, y.writes = x.writes,
         \/ /\ y.m_currentQueuedMessages = x.m_currentQueuedMessages
            /\ y.m_currentQueuedBytes = x.m_currentQueuedBytes
         \/ y.m_currentQueuedMessages = 0 /\ y.m_currentQueuedBytes = 0
  PROVE  Counted(y)
<1>1. maxQueuedMessages \in Nat /\ maxQueuedBytes \in Nat /\ Len(<<>>) = 0
  BY SessionAssumption DEF SessionAssumption
<1>2. ASSUME ~y.overlapped PROVE Covers(y)
  <2>1. /\ y.m_currentQueuedMessages \in 0..maxQueuedMessages
        /\ y.m_currentQueuedBytes \in 0..maxQueuedBytes
    <3>1. CASE y.m_currentQueuedMessages = 0 /\ y.m_currentQueuedBytes = 0
      BY <1>1, <3>1
    <3>2. CASE /\ y.m_currentQueuedMessages = x.m_currentQueuedMessages
               /\ y.m_currentQueuedBytes = x.m_currentQueuedBytes
      <4>1. PICK t \in Rising(x.m_writeQueue) :
              /\ x.m_currentQueuedMessages \in Len(x.m_writeQueue)..maxQueuedMessages
              /\ x.m_currentQueuedBytes \in t[Len(x.m_writeQueue)]..maxQueuedBytes
        BY <1>2 DEF Counted, Covers
      <4>2. /\ x.m_currentQueuedMessages \in Nat /\ x.m_currentQueuedBytes \in Nat
        BY <4>1 DEF Rising, Totals
      <4> QED BY <1>1, <3>2, <4>1, <4>2
    <3> QED BY <3>1, <3>2
  <2> QED BY <1>1, <2>1, NoBytes DEF Covers
<1> QED BY <1>2 DEF Counted

\* The message at the head of the queue is handed to the stream.
LEMMA StartCounted ==
  ASSUME NEW x, NEW d, Counted(x), x.m_writeQueue # <<>>
  PROVE  Counted(async_write([x EXCEPT !.m_writing = TRUE], d))
<1> DEFINE y == async_write([x EXCEPT !.m_writing = TRUE], d)
<1>1. /\ DOMAIN y = Fields /\ y.m_writeQueue = x.m_writeQueue /\ y.opened = x.opened
      /\ y.m_curState = x.m_curState
      /\ y.m_currentQueuedMessages = x.m_currentQueuedMessages
      /\ y.m_currentQueuedBytes = x.m_currentQueuedBytes
      /\ y.overlapped = (x.overlapped \/ (is_shutdown(x) /\ x.writes # <<>>))
  BY DEF Counted, async_write, Fields, is_shutdown
<1> HIDE DEF y
<1>2. x.opened /\ (is_open(x) => ~is_shutdown(x) /\ ~x.overlapped)
  BY DEF Counted, is_open, is_shutdown
<1>3. ~y.overlapped => Covers(y)
  <2> SUFFICES ASSUME ~y.overlapped PROVE Covers(y)
    OBVIOUS
  <2>1. Covers(x)
    BY <1>1, Zenon DEF Counted
  <2> QED BY <1>1, <2>1 DEF Covers, is_open
<1>4. Counted(y)
  BY <1>1, <1>2, <1>3, Zenon DEF Counted, is_open
<1> QED BY <1>4 DEF y

\* Draining leaves the counters alone.
LEMMA DrainCounted ==
  ASSUME NEW x, Counted(x)
  PROVE  Counted(do_drain_queue(x))
<1>1. CASE x.m_writing
  BY <1>1 DEF do_drain_queue
<1>2. CASE ~x.m_writing /\ x.m_writeQueue = <<>>
  <2>1. Steady(x, close_forcefully(x))
    BY DEF Counted, Steady, close_forcefully, Post, Fields
  <2> QED BY <1>2, <2>1, SteadyCounted DEF do_drain_queue
<1>3. CASE ~x.m_writing /\ x.m_writeQueue # <<>>
  BY <1>3, StartCounted, Zenon DEF do_drain_queue
<1> QED BY <1>1, <1>2, <1>3

\* So does writing; the queue it throws away was of a session that is closing.
LEMMA WriteNextCounted ==
  ASSUME NEW x, Counted(x)
  PROVE  Counted(do_write_next(x))
<1> DEFINE u == [x EXCEPT !.m_writing = FALSE]
           y == do_write_next(x)
<1>1. Counted(u)
  <2>1. Steady(x, u)
    BY DEF Counted, Steady, Fields
  <2> QED BY <2>1, SteadyCounted
<1>2. CASE is_shutdown(x)
  <2> HIDE DEF u
  <2>1. y = do_drain_queue(u)
    BY <1>2 DEF do_write_next, u
  <2> QED BY <1>1, <2>1, DrainCounted
<1>3. CASE ~is_shutdown(x) /\ ~is_open(x)
  <2> DEFINE e == [Cleared(x) EXCEPT !.m_writing = FALSE]
  <2>1. y = e
    BY <1>3 DEF do_write_next
  <2>2. /\ DOMAIN e = Fields /\ e.opened = x.opened /\ e.overlapped = x.overlapped
        /\ ~is_open(e) /\ e.m_writeQueue = <<>> /\ e.writes = x.writes
        /\ e.m_currentQueuedMessages = x.m_currentQueuedMessages
        /\ e.m_currentQueuedBytes = x.m_currentQueuedBytes
    BY <1>3 DEF Cleared, Counted, Fields, is_open
  <2> HIDE DEF e
  <2> QED BY <2>1, <2>2, EmptiedCounted
<1>4. CASE is_open(x) /\ x.m_writeQueue = <<>>
  BY <1>1, <1>4 DEF do_write_next, is_open, is_shutdown
<1>5. CASE is_open(x) /\ x.m_writeQueue # <<>>
  <2>1. y = async_write([x EXCEPT !.m_writing = TRUE], FALSE)
    BY <1>5 DEF do_write_next, is_open, is_shutdown
  <2> QED BY <1>5, <2>1, StartCounted, Zenon
<1> QED BY <1>2, <1>3, <1>4, <1>5

\* A message is counted when it is queued; one that does not fit is not queued.
LEMMA EnqueueCounted ==
  ASSUME cfg.ioThreads = 1, NEW x, NEW m, NEW ok, Counted(x),
         is_open(x) => m \in Messages /\ x.m_writeQueue \in Seq(Messages)
  PROVE  Counted(do_enqueue_message(x, m, ok))
<1> DEFINE y == do_enqueue_message(x, m, ok)
<1>1. CASE is_shutdown(x)
  BY <1>1, WriteNextCounted DEF do_enqueue_message
<1>2. CASE ~is_shutdown(x) /\ ~is_open(x)
  BY <1>2 DEF do_enqueue_message
<1>3. CASE is_open(x) /\ ~check_message_size(x, m)
  <2>1. y = queue_overflow(x, ok)
    BY <1>3 DEF do_enqueue_message, is_open, is_shutdown
  <2>2. Steady(x, queue_overflow(x, ok))
    BY DEF Counted, Steady, queue_overflow, close, Post, Fields
  <2> QED BY <2>1, <2>2, SteadyCounted
<1>4. CASE is_open(x) /\ check_message_size(x, m)
  <2> DEFINE q == x.m_writeQueue
             c == adjust_message_counters(x, m)
             r == [k |-> "push", msg |-> m, counters |-> c]
             u == [x EXCEPT !.m_currentQueuedMessages = r.counters.messages,
                            !.m_currentQueuedBytes = r.counters.bytes,
                            !.m_writeQueue = Append(@, r.msg)]
  <2>1. y = IF u.m_writing THEN u ELSE do_write_next(u)
    <3>1. y = push_message(x, r)
      BY <1>4 DEF do_enqueue_message, Rest, is_open, is_shutdown
    <3> HIDE DEF r
    <3> QED BY <3>1 DEF push_message, Rest
  <2>2. /\ DOMAIN u = Fields /\ u.m_writeQueue = Append(q, m) /\ u.opened = x.opened
        /\ u.overlapped = x.overlapped /\ u.m_curState = x.m_curState
        /\ u.m_currentQueuedMessages = (x.m_currentQueuedMessages + 1) % SizeT
        /\ u.m_currentQueuedBytes = (x.m_currentQueuedBytes + Size(m)) % SizeT
    <3>1. /\ r.msg = m
          /\ r.counters.messages = (x.m_currentQueuedMessages + 1) % SizeT
          /\ r.counters.bytes = (x.m_currentQueuedBytes + Size(m)) % SizeT
      BY DEF adjust_message_counters
    <3> HIDE DEF r
    <3> QED BY <3>1, Zenon DEF Counted, Fields
  <2> HIDE DEF u, c
  <2>3. x.opened /\ ~x.overlapped /\ Covers(x) /\ m \in Messages /\ q \in Seq(Messages)
    BY <1>4 DEF Counted
  <2>4. PICK t \in Rising(q) : /\ x.m_currentQueuedMessages = Len(q) /\ x.m_currentQueuedBytes = t[Len(q)]
                               /\ Len(q) \in Len(q)..maxQueuedMessages
                               /\ t[Len(q)] \in t[Len(q)]..maxQueuedBytes
    BY <1>4, <2>3 DEF Covers
  <2> HIDE DEF q
  <2>0. /\ (x.m_currentQueuedMessages + 1) % SizeT = Len(q) + 1
        /\ (x.m_currentQueuedBytes + Size(m)) % SizeT = t[Len(q)] + Size(m)
    <3>1. Len(q) \in Nat /\ t \in [0..Len(q) -> 0..maxQueuedBytes]
      BY <2>3, TotalsAre
    <3>2. /\ maxQueuedMessages + 1 < SizeT /\ maxQueuedBytes + Size(m) < SizeT /\ SizeT \in Nat
          /\ Size(m) \in Nat /\ maxQueuedMessages \in Nat /\ maxQueuedBytes \in Nat
      BY <2>3, SessionAssumption DEF SessionAssumption
    <3>3. /\ Len(q) + 1 \in Nat /\ Len(q) + 1 < SizeT
          /\ t[Len(q)] + Size(m) \in Nat /\ t[Len(q)] + Size(m) < SizeT
      BY <2>4, <3>1, <3>2
    <3>4. (Len(q) + 1) % SizeT = Len(q) + 1 /\ (t[Len(q)] + Size(m)) % SizeT = t[Len(q)] + Size(m)
      BY <3>2, <3>3, NoWrap
    <3> QED BY <2>4, <3>4
  <2>5. Len(q) + 1 <= maxQueuedMessages /\ t[Len(q)] + Size(m) <= maxQueuedBytes
    BY <1>4, <2>0 DEF check_message_size, adjust_message_counters
  <2>6. PICK v \in Rising(Append(q, m)) : v[Len(q) + 1] = t[Len(q)] + Size(m)
    BY <2>3, <2>5, MoreBytes
  <2>7. /\ Len(Append(q, m)) = Len(q) + 1 /\ Len(q) \in Nat /\ Size(m) \in Nat /\ t[Len(q)] \in Nat
        /\ maxQueuedMessages \in Nat /\ maxQueuedBytes \in Nat
    <3>1. Len(q) \in Nat /\ Len(q) \in 0..Len(q) /\ Len(Append(q, m)) = Len(q) + 1
      BY <2>3
    <3>2. t \in [0..Len(q) -> 0..maxQueuedBytes]
      BY <2>3, TotalsAre
    <3>3. Size(m) \in Nat /\ maxQueuedMessages \in Nat /\ maxQueuedBytes \in Nat
      BY <2>3, SessionAssumption DEF SessionAssumption
    <3> QED BY <3>1, <3>2, <3>3
  <2>8. /\ u.m_currentQueuedMessages = Len(Append(q, m))
        /\ u.m_currentQueuedMessages \in Len(Append(q, m))..maxQueuedMessages
        /\ u.m_currentQueuedBytes = v[Len(Append(q, m))]
        /\ u.m_currentQueuedBytes \in v[Len(Append(q, m))]..maxQueuedBytes
    <3>1. /\ u.m_currentQueuedMessages = Len(q) + 1
          /\ u.m_currentQueuedBytes = t[Len(q)] + Size(m)
      BY <2>0, <2>2
    <3> QED BY <2>5, <2>6, <2>7, <3>1
  <2>9. u.m_writeQueue = Append(q, m)
    BY <2>2
  <2>10. Covers(u)
    BY <2>8, <2>9, Zenon DEF Covers
  <2>11. Counted(u)
    BY <2>2, <2>3, <2>10 DEF Counted
  <2> QED BY <2>1, <2>11, WriteNextCounted
<1> QED BY <1>1, <1>2, <1>3, <1>4

\* The message that leaves the queue is the one that was written, so that the
\* counters give back what they took for it and do not wrap.
LEMMA PoppedCounted ==
  ASSUME NEW x, NEW m, Counted(x),
         ~x.overlapped => /\ x.m_writeQueue \in Seq(Messages)
                          /\ x.m_writeQueue # <<>> => x.m_writeQueue[1] = m
  PROVE  Counted(Popped(x, m))
<1> DEFINE q == x.m_writeQueue
           y == Popped(x, m)
<1>1. CASE q = <<>>
  BY <1>1 DEF Popped
<1>2. CASE q # <<>>
  <2>1. /\ DOMAIN y = Fields /\ y.m_writeQueue = Tail(q) /\ y.opened = x.opened
        /\ y.overlapped = x.overlapped /\ y.m_curState = x.m_curState
        /\ y.m_currentQueuedMessages = (x.m_currentQueuedMessages - 1) % SizeT
        /\ y.m_currentQueuedBytes = (x.m_currentQueuedBytes - Size(m)) % SizeT
    BY <1>2 DEF Counted, Popped, decrement_message_counters, Fields
  <2> HIDE DEF y
  <2>2. x.opened
    BY <1>2 DEF Counted
  <2>3. ASSUME ~y.overlapped PROVE Covers(y)
    <3>1. Covers(x) /\ q \in Seq(Messages) /\ q[1] = m
      BY <1>2, <2>1, <2>3 DEF Counted
    <3>2. PICK t \in Rising(q) :
            /\ x.m_currentQueuedMessages \in Len(q)..maxQueuedMessages
            /\ x.m_currentQueuedBytes \in t[Len(q)]..maxQueuedBytes
            /\ is_open(x) => x.m_currentQueuedMessages = Len(q) /\ x.m_currentQueuedBytes = t[Len(q)]
      BY <3>1 DEF Covers
    <3> HIDE DEF q
    <3>3. /\ Size(m) \in Nat /\ t[Len(q)] \in Nat /\ Size(m) <= t[Len(q)]
          /\ \E v \in Rising(Tail(q)) : v[Len(q) - 1] = t[Len(q)] - Size(m)
      BY <1>2, <3>1, <3>2, FewerBytes
    <3>4. PICK v \in Rising(Tail(q)) : v[Len(q) - 1] = t[Len(q)] - Size(m)
      BY <3>3
    <3>5. /\ Len(q) \in Nat \ {0} /\ Len(Tail(q)) = Len(q) - 1
          /\ maxQueuedMessages \in Nat /\ maxQueuedBytes \in Nat /\ SizeT \in Nat
          /\ maxQueuedMessages < SizeT /\ maxQueuedBytes < SizeT
      <4>1. /\ maxQueuedMessages \in Nat /\ maxQueuedBytes \in Nat /\ SizeT \in Nat
            /\ maxQueuedMessages + 1 < SizeT /\ maxQueuedBytes + Size(q[1]) < SizeT
        BY <1>2, <3>1, TailFacts, SessionAssumption DEF SessionAssumption
      <4>2. Len(q) \in Nat \ {0} /\ Len(Tail(q)) = Len(q) - 1
        BY <1>2, <3>1, RangeIs, TailFacts
      <4> QED BY <3>1, <3>3, <4>1, <4>2
    <3>6. /\ x.m_currentQueuedMessages - 1 \in Nat /\ x.m_currentQueuedMessages - 1 < SizeT
          /\ x.m_currentQueuedBytes - Size(m) \in Nat /\ x.m_currentQueuedBytes - Size(m) < SizeT
      BY <3>2, <3>3, <3>5, SMTT(30)
    <3>7. /\ y.m_currentQueuedMessages = x.m_currentQueuedMessages - 1
          /\ y.m_currentQueuedBytes = x.m_currentQueuedBytes - Size(m)
      BY <2>1, <3>5, <3>6, NoWrap, Zenon
    <3> DEFINE r == Tail(q)
    <3>8. v[Len(r)] = t[Len(q)] - Size(m) /\ Len(r) = Len(q) - 1
      BY <3>4, <3>5
    <3> HIDE DEF r
    <3>9. /\ y.m_currentQueuedMessages \in Len(r)..maxQueuedMessages
          /\ is_open(x) => y.m_currentQueuedMessages = Len(r)
      BY <3>2, <3>5, <3>7, <3>8
    <3>10. /\ y.m_currentQueuedBytes \in v[Len(r)]..maxQueuedBytes
           /\ is_open(x) => y.m_currentQueuedBytes = v[Len(r)]
      <4> DEFINE b == x.m_currentQueuedBytes
                 c == t[Len(q)]
      <4>1. b \in c..maxQueuedBytes /\ (is_open(x) => b = c) /\ c \in Nat /\ Size(m) \in Nat /\ Size(m) <= c
        BY <3>2, <3>3
      <4>2. y.m_currentQueuedBytes = b - Size(m) /\ v[Len(r)] = c - Size(m) /\ maxQueuedBytes \in Nat
        BY <3>5, <3>7, <3>8
      <4> HIDE DEF b, c
      <4> QED BY <4>1, <4>2
    <3>11. (is_open(y) <=> is_open(x)) /\ y.m_writeQueue = r /\ v \in Rising(r)
      BY <2>1 DEF is_open, r
    <3>12. /\ v \in Rising(y.m_writeQueue)
           /\ y.m_currentQueuedMessages \in Len(y.m_writeQueue)..maxQueuedMessages
           /\ y.m_currentQueuedBytes \in v[Len(y.m_writeQueue)]..maxQueuedBytes
           /\ is_open(y) => /\ y.m_currentQueuedMessages = Len(y.m_writeQueue)
                            /\ y.m_currentQueuedBytes = v[Len(y.m_writeQueue)]
      BY <3>9, <3>10, <3>11, Zenon
    <3> QED BY <3>12 DEF Covers
  <2>4. Counted(y)
    BY <2>1, <2>2, <2>3 DEF Counted, is_open
  <2> QED BY <2>4 DEF y
<1> QED BY <1>1, <1>2

-----------------------------------------------------------------------------
\* The handshake counts nothing.
LEMMA OpenCounted ==
  ASSUME cfg.ioThreads = 1, Inv, Counted(s), validate_handshake_request \/ reject_handshake \/ on_accept
  PROVE  Counted(s')
<1>1. ~s.opened
  BY DEF Inv, validate_handshake_request, reject_handshake, on_accept
<1> DEFINE x == [s EXCEPT !.handshake = "done", !.m_curState = "open", !.opened = TRUE, !.stream = "open"]
<1>2. CASE s' = read_first(x)
  <2>1. /\ DOMAIN x = Fields /\ x.opened = TRUE /\ x.overlapped = s.overlapped
        /\ x.m_writeQueue = s.m_writeQueue /\ is_open(x)
        /\ x.m_currentQueuedMessages = s.m_currentQueuedMessages
        /\ x.m_currentQueuedBytes = s.m_currentQueuedBytes
    BY DEF Counted, Fields, is_open
  <2> HIDE DEF x
  <2>2. /\ ~x.overlapped /\ x.m_writeQueue = <<>>
        /\ x.m_currentQueuedMessages = 0 /\ x.m_currentQueuedBytes = 0
    BY <1>1, <2>1 DEF Counted
  <2>3. Covers(x)
    <3>1. 0 \in 0..maxQueuedMessages /\ 0 \in 0..maxQueuedBytes /\ Len(<<>>) = 0
      BY SessionAssumption DEF SessionAssumption
    <3> QED BY <2>2, <3>1, NoBytes DEF Covers
  <2>4. Counted(x)
    BY <2>1, <2>2, <2>3 DEF Counted
  <2> DEFINE a == do_heartbeat(x)
             b == run_idle_timer(a)
  <2>5. Steady(x, a) /\ DOMAIN a = Fields
    BY <2>1 DEF do_heartbeat, do_heartbeat_next, Post, run_heartbeat_timer, Steady, Fields
  <2> HIDE DEF a
  <2>6. Steady(x, b) /\ DOMAIN b = Fields
    BY <2>5 DEF run_idle_timer, Steady, Fields, is_open
  <2> HIDE DEF b
  <2>7. Steady(x, do_read(b))
    BY <2>6 DEF do_read, async_read, Steady, Fields, is_open
  <2> QED BY <1>2, <2>4, <2>7, SteadyCounted DEF read_first, a, b
<1>3. CASE s' = [s EXCEPT !.handshake = "done", !.m_curState = "closed", !.stream = "ended"]
  <2>1. Steady(s, s')
    BY <1>3 DEF Counted, Steady, Fields, is_open
  <2> QED BY <2>1, SteadyCounted
<1>4. CASE s' = [s EXCEPT !.handshake = "upgrade"]
  <2>1. Steady(s, s')
    BY <1>4 DEF Counted, Steady, Fields, is_open
  <2> QED BY <2>1, SteadyCounted
<1>5. CASE s' = [s EXCEPT !.handshake = "reject", !.m_curState = "closing"]
  <2>1. Steady(s, s')
    BY <1>5 DEF Counted, Steady, Fields, is_open
  <2> QED BY <2>1, SteadyCounted
<1> QED BY <1>2, <1>3, <1>4, <1>5 DEF validate_handshake_request, reject_handshake, on_accept, Rest

\* begin_closing resets the counters with the queue.
LEMMA ClosingCounted ==
  ASSUME NEW x, Counted(x)
  PROVE  Counted(StartClosing(x)) /\ Counted(begin_closing(x))
<1> DEFINE y == StartClosing(x)
<1>1. /\ DOMAIN y = Fields /\ y.opened = x.opened /\ y.overlapped = x.overlapped /\ ~is_open(y)
      /\ y.m_writeQueue = <<>> /\ y.writes = x.writes
      /\ y.m_currentQueuedMessages = 0 /\ y.m_currentQueuedBytes = 0
  BY DEF Counted, StartClosing, Cleared, stop_heartbeat_timer, cancel_idle_timer, Fields, is_open
<1> HIDE DEF y
<1>2. Counted(y)
  BY <1>1, EmptiedCounted
<1> QED BY <1>2 DEF begin_closing, y

\* Telling the router changes no counter.
LEMMA ClosedCounted ==
  ASSUME NEW x, Counted(x)
  PROVE  Counted(mark_closed_and_notify_once(begin_closing(x)))
<1> DEFINE u == begin_closing(x)
<1>1. Counted(u)
  BY ClosingCounted
<1> HIDE DEF u
<1>2. Steady(u, mark_closed_and_notify_once(u))
  BY <1>1 DEF mark_closed_and_notify_once, Counted, Steady, Fields, is_open
<1>3. Counted(mark_closed_and_notify_once(u))
  BY <1>1, <1>2, SteadyCounted
<1> QED BY <1>3 DEF u

\* Reads, closes, pongs, timers and calls.
LEMMA OtherCounted ==
  ASSUME cfg.ioThreads = 1, Inv, Counted(s),
         \/ on_read \/ on_read_error \/ close_completes \/ on_pong \/ timer_expires \/ on_timeout
         \/ user_close \/ close_for_shutdown \/ close_for_shutdown_post
         \/ \E m \in Messages : send_text(m)
  PROVE  Counted(s')
<1> USE DEF Fields
<1>1. CASE on_read
  <2>1. Steady(s, s')
    BY <1>1 DEF on_read, Rest, read_next, Counted, Steady, cancel_idle_timer, run_idle_timer, do_read,
                async_read, is_open
  <2> QED BY <2>1, SteadyCounted
<1>2. CASE on_read_error
  <2> DEFINE x == cancel_idle_timer([s EXCEPT !.reading = FALSE, !.stream = "ended"])
  <2>1. Steady(s, x) /\ s' = mark_closed_and_notify_once(begin_closing(x))
    BY <1>2 DEF on_read_error, Counted, Steady, cancel_idle_timer
  <2> HIDE DEF x
  <2> QED BY <2>1, SteadyCounted, ClosedCounted
<1>3. CASE close_completes
  <2> DEFINE x == [s EXCEPT !.closes = @ - 1, !.stream = "ended"]
  <2>1. s' \in {x, mark_closed_and_notify_once(x)}
    BY <1>3 DEF close_completes
  <2>2. Steady(s, x) /\ DOMAIN x = Fields
    BY DEF Counted, Steady
  <2> HIDE DEF x
  <2>3. Steady(s, mark_closed_and_notify_once(x))
    BY <2>2 DEF mark_closed_and_notify_once, Steady, is_open
  <2> QED BY <2>1, <2>2, <2>3, SteadyCounted
<1>4. CASE on_pong
  <2>1. Steady(s, s')
    BY <1>4 DEF on_pong, do_heartbeat_next, stop_heartbeat_timer, run_heartbeat_timer, Post, Counted, Steady
  <2> QED BY <2>1, SteadyCounted
<1>5. CASE timer_expires
  <2>1. Steady(s, s')
    BY <1>5, Zenon DEF timer_expires, Counted, Steady
  <2> QED BY <2>1, SteadyCounted
<1>6. CASE on_timeout
  <2> DEFINE x(k) == [s EXCEPT !.expired = @ \ {k}]
  <2>1. PICK k \in s.expired :
          s' = CASE k = "idle"      -> on_idle_timeout(x(k))
                 [] k = "heartbeat" -> on_heartbeat_timeout(x(k))
                 [] k = "drain"     -> on_drain_timeout(x(k))
    BY <1>6, Zenon DEF on_timeout
  <2>2. k \in {"idle", "drain", "heartbeat"}
    BY DEF Inv, Good, Shape
  <2>3. s' \in {Post(x(k), [k |-> "close"]), Post(x(k), [k |-> "close_forcefully"])}
    BY <2>1, <2>2 DEF on_idle_timeout, on_heartbeat_timeout, on_drain_timeout, close, close_forcefully
  <2>4. Steady(s, s')
    BY <2>3, Zenon DEF Post, Counted, Steady
  <2> QED BY <2>4, SteadyCounted
<1>7. CASE user_close \/ close_for_shutdown \/ close_for_shutdown_post
  <2>1. s' \in {s, close(s), close_forcefully(s), Post(s, [k |-> "close_for_shutdown"])}
    BY <1>7 DEF user_close, close_for_shutdown, close_for_shutdown_post
  <2>2. Steady(s, s')
    BY <2>1 DEF close, close_forcefully, Post, Counted, Steady
  <2> QED BY <2>2, SteadyCounted
<1>8. CASE \E m \in Messages : send_text(m)
  <2>1. Steady(s, s')
    BY <1>8 DEF send_text, Post, Counted, Steady
  <2> QED BY <2>1, SteadyCounted
<1> QED BY <1>1, <1>2, <1>3, <1>4, <1>5, <1>6, <1>7, <1>8

\* A write ends.
LEMMA WriteCounted ==
  ASSUME cfg.ioThreads = 1, Inv, Counted(s), write_completes
  PROVE  Counted(s')
<1> DEFINE w == Head(s.writes)
           x(ok) == [s EXCEPT !.writes = Tail(@), !.stream = IF ok THEN @ ELSE "ended"]
<1>1. PICK ok \in BOOLEAN :
        s' = IF w.draining THEN on_drain_message_complete(x(ok), w.msg, ok)
             ELSE on_write_complete(x(ok), w.msg, ok)
  BY Zenon DEF write_completes
<1> DEFINE y == x(ok)
<1>2. s.writes # <<>> /\ s.opened /\ DOMAIN s = Fields
  BY DEF write_completes, Counted
<1>3. Steady(s, y) /\ DOMAIN y = Fields
  BY <1>2, Zenon DEF Steady, Fields
<1>4. s' = IF w.draining THEN on_drain_message_complete(y, w.msg, ok)
           ELSE on_write_complete(y, w.msg, ok)
  BY <1>1
<1> HIDE DEF x
<1> HIDE DEF y
<1>5. Counted(y)
  BY <1>3, SteadyCounted
<1>6. ~y.overlapped => /\ y.m_writeQueue \in Seq(Messages)
                       /\ y.m_writeQueue # <<>> => y.m_writeQueue[1] = w.msg
  <2> SUFFICES ASSUME ~y.overlapped
               PROVE  /\ y.m_writeQueue \in Seq(Messages)
                      /\ y.m_writeQueue # <<>> => y.m_writeQueue[1] = w.msg
    OBVIOUS
  <2>1. ~s.overlapped /\ y.m_writeQueue = s.m_writeQueue
    BY <1>3 DEF Steady
  <2>2. Typed(s) /\ OneWrite(s)
    BY <2>1 DEF Inv, Good
  <2>3. w = s.writes[1]
    BY <1>2, <2>2, TailFacts DEF Typed
  <2> QED BY <1>2, <2>1, <2>2, <2>3 DEF Typed, OneWrite
<1> HIDE DEF w
<1>7. CASE ok
  <2> DEFINE p == Popped(y, w.msg)
  <2>1. Counted(p)
    BY <1>5, <1>6, PoppedCounted
  <2>2. CASE ~w.draining
    <3>1. s' = do_write_next(p)
      BY <1>4, <1>7, <2>2 DEF on_write_complete, Rest
    <3> HIDE DEF p
    <3> QED BY <2>1, <3>1, WriteNextCounted
  <2>3. CASE w.draining
    <3> DEFINE u == [p EXCEPT !.m_writing = FALSE]
    <3>1. s' = do_drain_queue(u)
      BY <1>4, <1>7, <2>3 DEF on_drain_message_complete, drain_next, Rest
    <3> HIDE DEF p
    <3>2. Steady(p, u)
      BY <2>1 DEF Counted, Steady, Fields
    <3> HIDE DEF u
    <3> QED BY <2>1, <3>1, <3>2, SteadyCounted, DrainCounted
  <2> QED BY <2>2, <2>3
<1>8. CASE ~ok
  <2>1. CASE ~w.draining
    BY <1>4, <1>5, <1>8, <2>1, ClosedCounted DEF on_write_complete
  <2>2. CASE w.draining
    <3>1. s' = close_forcefully([y EXCEPT !.swallowed = @ \/ ~y.reading])
      BY <1>4, <1>8, <2>2 DEF on_drain_message_complete
    <3>2. Steady(y, s')
      BY <1>3, <3>1 DEF close_forcefully, Post, Steady, Fields
    <3> QED BY <1>5, <3>2, SteadyCounted
  <2> QED BY <2>1, <2>2
<1> QED BY <1>7, <1>8

\* The io thread runs a posted handler.
LEMMA PostedCounted ==
  ASSUME cfg.ioThreads = 1, Inv, Counted(s), run_posted
  PROVE  Counted(s')
<1> DEFINE h(i) == s.ready[i]
           x(i) == [s EXCEPT !.ready = Without(@, i)]
<1>1. PICK i \in DOMAIN s.ready, ok \in BOOLEAN :
        s' = CASE h(i).k = "enqueue"            -> do_enqueue_message(x(i), h(i).msg, ok)
               [] h(i).k = "close"              -> close_posted(x(i))
               [] h(i).k = "close_for_shutdown" -> close_for_shutdown_posted(x(i))
               [] h(i).k = "close_forcefully"   -> close_forcefully_posted(x(i))
               [] h(i).k = "ping"               -> on_ping(x(i), ok)
  BY Zenon DEF run_posted
<1> DEFINE y == x(i)
<1>2. Steady(s, y) /\ DOMAIN y = Fields
  BY DEF Counted, Steady, Fields
<1>3. s.ready[i] \in Handlers
  BY RangeIs DEF Inv, Good, Shape
<1>4. /\ s.ready[i].k \in Kinds \cup {"enqueue"}
      /\ s.ready[i].k = "enqueue" => s.ready[i].msg \in Messages
  BY <1>3 DEF Handlers, Kinds
<1>5. \/ s.ready[i].k = "enqueue" /\ s' = do_enqueue_message(y, s.ready[i].msg, ok)
      \/ s' \in {close_posted(y), close_for_shutdown_posted(y), close_forcefully_posted(y),
                 on_ping(y, ok)}
  BY <1>1, <1>4 DEF Kinds
<1> HIDE DEF x
<1> HIDE DEF y
<1>6. Counted(y)
  BY <1>2, SteadyCounted
<1>7. CASE s.ready[i].k = "enqueue" /\ s' = do_enqueue_message(y, s.ready[i].msg, ok)
  <2>1. is_open(y) => y.m_writeQueue \in Seq(Messages)
    <3> SUFFICES ASSUME is_open(y) PROVE y.m_writeQueue \in Seq(Messages)
      OBVIOUS
    <3>1. ~s.overlapped /\ y.m_writeQueue = s.m_writeQueue
      BY <1>2, <1>6 DEF Counted, Steady
    <3> QED BY <3>1 DEF Inv, Good, Typed
  <2> QED BY <1>4, <1>6, <1>7, <2>1, EnqueueCounted
<1>8. CASE s' = close_posted(y)
  <2> DEFINE u == StartClosing(y)
  <2>1. Counted(u)
    BY <1>6, ClosingCounted
  <2>2. s' \in {y, async_close(u)}
    BY <1>8 DEF close_posted, Rest
  <2> HIDE DEF u
  <2>3. Steady(u, async_close(u))
    BY <2>1 DEF async_close, Counted, Steady, Fields
  <2> QED BY <1>6, <2>1, <2>2, <2>3, SteadyCounted
<1>9. CASE s' = close_for_shutdown_posted(y)
  <2> DEFINE u == run_drain_timer([cancel_idle_timer(y) EXCEPT !.m_curState = "shutdown"])
  <2>1. Steady(y, u)
    BY <1>2 DEF run_drain_timer, cancel_idle_timer, Steady, Fields, is_open
  <2>2. s' = do_drain_queue(u)
    BY <1>9 DEF close_for_shutdown_posted, Rest
  <2> HIDE DEF u
  <2> QED BY <1>6, <2>1, <2>2, SteadyCounted, DrainCounted
<1>10. CASE s' = close_forcefully_posted(y)
  <2> DEFINE u == [cancel_idle_timer(y) EXCEPT !.m_curState = "closing"]
  <2>1. Steady(y, u)
    BY <1>2 DEF cancel_idle_timer, Steady, Fields, is_open
  <2>2. s' \in {y, async_close(u)}
    BY <1>10 DEF close_forcefully_posted, CloseNow, Rest
  <2> HIDE DEF u
  <2>3. Counted(u)
    BY <1>6, <2>1, SteadyCounted
  <2>4. Steady(u, async_close(u))
    BY <2>3 DEF async_close, Counted, Steady, Fields
  <2> QED BY <1>6, <2>2, <2>3, <2>4, SteadyCounted
<1>11. CASE s' = on_ping(y, ok)
  <2>1. Steady(y, s')
    BY <1>2, <1>11 DEF on_ping, close, Post, Steady, Fields
  <2> QED BY <1>6, <2>1, SteadyCounted
<1> QED BY <1>5, <1>7, <1>8, <1>9, <1>10, <1>11

\* With one io thread the counters of the send queue are exact while the session is
\* open, and later neither wrap nor lag behind it: whatever closes, shuts down or fails
\* meanwhile.
THEOREM CountersCovered == Spec => []CountersCover
<1>1. Init => Counted(s)
  <2> SUFFICES ASSUME Init PROVE Counted(s)
    OBVIOUS
  <2>1. /\ DOMAIN s = Fields /\ ~is_open(s) /\ ~s.opened /\ ~s.overlapped
        /\ s.m_writeQueue = <<>> /\ s.writes = <<>>
        /\ s.m_currentQueuedMessages = 0 /\ s.m_currentQueuedBytes = 0
    BY DEF Init, Fields, is_open
  <2>2. 0 \in 0..maxQueuedMessages /\ 0 \in 0..maxQueuedBytes /\ Len(<<>>) = 0
    BY SessionAssumption DEF SessionAssumption
  <2>3. Covers(s)
    BY <2>1, <2>2, NoBytes DEF Covers
  <2> QED BY <2>1, <2>3 DEF Counted
<1>2. /\ cfg.ioThreads = 1 => Inv
      /\ cfg.ioThreads = 1 => Counted(s)
      /\ [Next \/ Ended]_vars
      => (cfg.ioThreads = 1 => Counted(s))'
  <2> SUFFICES ASSUME cfg.ioThreads = 1 => Inv, cfg.ioThreads = 1 => Counted(s),
                      [Next \/ Ended]_vars, cfg'.ioThreads = 1
               PROVE  Counted(s')
    OBVIOUS
  <2>1. cfg.ioThreads = 1 /\ Inv /\ Counted(s)
    BY FixedConfig
  <2>2. CASE UNCHANGED vars
    <3>1. s' = s
      BY <2>2 DEF vars
    <3> QED BY <2>1, <3>1
  <2> QED
    BY <2>1, <2>2, OpenCounted, OtherCounted, WriteCounted, PostedCounted, NoRest DEF Next, Ended
<1>3. (cfg.ioThreads = 1 => Counted(s)) => CountersCover
  <2> SUFFICES ASSUME Counted(s), ~s.overlapped \/ is_open(s)
               PROVE  \E total \in Totals(s.m_writeQueue) :
                        /\ s.m_currentQueuedMessages \in Len(s.m_writeQueue)..maxQueuedMessages
                        /\ s.m_currentQueuedBytes \in total[Len(s.m_writeQueue)]..maxQueuedBytes
                        /\ is_open(s) => /\ s.m_currentQueuedMessages = Len(s.m_writeQueue)
                                         /\ s.m_currentQueuedBytes = total[Len(s.m_writeQueue)]
    BY DEF CountersCover
  <2>1. Covers(s)
    BY DEF Counted
  <2>2. Rising(s.m_writeQueue) \subseteq Totals(s.m_writeQueue)
    BY DEF Rising
  <2> QED BY <2>1, <2>2 DEF Covers
<1> QED BY <1>1, <1>2, <1>3, SessionInvariant, PTL DEF Spec

=============================================================================
