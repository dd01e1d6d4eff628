------------------------------ MODULE MpmcQueue ------------------------------
(***************************************************************************)
(* stp/UnbMpMcTemplateQueue.hpp: the closable, optionally bounded          *)
(* multi-producer multi-consumer queue under the thread pool.              *)
(*                                                                         *)
(* A critical section of m_mutex is one step.  A condition-variable wait   *)
(* ends the step with the thread "asleep"; a notification, a spurious      *)
(* wake-up or the deadline makes it "woken" or "expired", and the step in  *)
(* which it holds the mutex again re-evaluates the predicate.  Calls made  *)
(* after unlock() (the notify of tryTake, the two notify_all of close) are *)
(* steps of their own, so that other threads run in between.               *)
(***************************************************************************)
EXTENDS Naturals, FiniteSets, Sequences, Functions

CONSTANTS Threads,     \* the threads that call the queue
          Items,       \* the values put into it; a number is its priority
          Container,   \* the Container template argument
          InitialMax,  \* m_maxQueueSize when the threads start; 0 is unbounded
          MaxSizes,    \* what set_queue_max_size is called with
          Ops          \* the operations the threads call

BlockingPuts == {"put_wait", "put_wait_for"}
TimedTakes   == {"tryTake", "tryTake_0"}
Takes        == TimedTakes \cup {"take"}

Timed        == TimedTakes \cup {"put_wait_for"}
OpNames      == BlockingPuts \cup Takes \cup
                {"put", "clear", "close", "set_queue_max_size"}

\* The operations RtlThreadPool.hpp uses once its constructor has run.
PoolOps == {"put", "put_wait", "put_wait_for", "tryTake", "close"}

Points  == {"idle", "asleep", "woken", "expired", "popped", "close_1", "close_2"}
Results == {"none", "accepted", "closed", "full", "timeout", "item"}
NoItem  == 0

ASSUME ConstantsAssumption ==
  /\ IsFiniteSet(Threads)
  /\ Items \subseteq Nat \ {NoItem}
  /\ Container \in {"deque", "list", "vector", "priority_queue"}
  /\ InitialMax \in Nat
  /\ MaxSizes \subseteq Nat
  /\ Ops \subseteq OpNames

VARIABLES
  m_buffer,        \* the container, oldest element first
  m_state,         \* "open" or "closing"
  m_maxQueueSize,
  op,              \* op[t]: the call thread t is in, or returned from last
  pc,              \* pc[t]: where in that call t is
  item,            \* item[t]: the value t is putting, or was handed
  erc,             \* erc[t]: the result code of that call, "none" before it
  accepted,        \* history: the items put returned accepted for, in order
  left             \* history: the items that left the container, in order

vars == <<m_buffer, m_state, m_maxQueueSize, op, pc, item, erc, accepted, left>>

calls == <<m_buffer, m_state, m_maxQueueSize, op, item, erc, accepted, left>>

Init ==
  /\ m_buffer = <<>>
  /\ m_state = "open"
  /\ m_maxQueueSize = InitialMax
  /\ op = [t \in Threads |-> "put"]
  /\ pc = [t \in Threads |-> "idle"]
  /\ item = [t \in Threads |-> NoItem]
  /\ erc = [t \in Threads |-> "none"]
  /\ accepted = <<>>
  /\ left = <<>>
-----------------------------------------------------------------------------
\* The container and the predicates of the two condition variables.

Full == m_maxQueueSize # 0 /\ Len(m_buffer) + 1 > m_maxQueueSize

PopIndices_Back(b) == {Len(b)}

\* Where ContainerOps::pop may take from a non-empty b: a priority queue any of
\* its greatest elements.
PopIndices(b) ==
  CASE Container \in {"deque", "list"} -> {1}
    [] Container = "vector" -> {Len(b)}
    [] Container = "priority_queue" -> {i \in DOMAIN b : \A j \in DOMAIN b : b[j] <= b[i]}

\* The predicates given to m_notFull.wait and to m_notEmptyQueue.wait_for.
MayPut  == m_state = "closing" \/ Len(m_buffer) < m_maxQueueSize
MayTake == m_state = "closing" \/ m_buffer # <<>>

NotFullSleepers_OtherCv == {t \in Threads : pc[t] = "asleep" /\ op[t] = "put_wait_for"}

NotFullSleepers  == {t \in Threads : pc[t] = "asleep" /\ op[t] \in BlockingPuts}
NotEmptySleepers == {t \in Threads : pc[t] = "asleep" /\ op[t] \in Takes}

\* std::condition_variable: notify_one wakes some sleeper if there is one,
\* notify_all every sleeper; f is pc with the caller's own move.
notify_one(sleepers, f) ==
  IF sleepers = {} THEN pc' = f
  ELSE \E u \in sleepers : pc' = [f EXCEPT ![u] = "woken"]

notify_all(sleepers, f) ==
  pc' = [u \in Threads |-> IF u \in sleepers THEN "woken" ELSE f[u]]

At(t, p) == [pc EXCEPT ![t] = p]

\* The thread enters call o with value x.
Enter(t, o, x) ==
  /\ pc[t] = "idle"
  /\ op' = [op EXCEPT ![t] = o]
  /\ item' = [item EXCEPT ![t] = x]

Stay(t) == pc[t] \in {"woken", "expired"} /\ UNCHANGED op

Return(t, e) ==
  /\ erc' = [erc EXCEPT ![t] = e]
  /\ pc' = At(t, "idle")
  /\ UNCHANGED <<m_buffer, m_state, m_maxQueueSize, accepted, left>>

\* A wait whose predicate is false.
Sleep(t) ==
  /\ erc' = [erc EXCEPT ![t] = "none"]
  /\ pc' = At(t, "asleep")
  /\ UNCHANGED <<m_buffer, m_state, m_maxQueueSize, accepted, left>>
-----------------------------------------------------------------------------
\* Putting.

Store(x) == m_buffer' = Append(m_buffer, x) /\ accepted' = Append(accepted, x)

NotifyTaker_Nobody(t) == pc' = At(t, "idle")

NotifyTaker(t) == notify_one(NotEmptySleepers, At(t, "idle"))

Push(t, x) ==
  /\ Store(x)
  /\ NotifyTaker(t)
  /\ erc' = [erc EXCEPT ![t] = "accepted"]
  /\ UNCHANGED <<m_state, m_maxQueueSize, left>>

put(t, x) ==
  /\ Enter(t, "put", x)
  /\ \/ m_state # "open" /\ Return(t, "closed")
     \/ m_state = "open" /\ Full /\ Return(t, "full")
     \/ m_state = "open" /\ ~Full /\ Push(t, x)

\* put_wait and put_wait_for up to their first wait.
put_wait(t, o, x) ==
  /\ Enter(t, o, x)
  /\ \/ m_state # "open" /\ Return(t, "closed")
     \/ m_state = "open" /\ Full /\ Sleep(t)
     \/ m_state = "open" /\ ~Full /\ Push(t, x)

\* A resumed put that trusts the capacity and forgets to look at m_state.
put_wait_resume_IgnoresClose(t) ==
  /\ op[t] \in BlockingPuts /\ Stay(t) /\ UNCHANGED item
  /\ \/ ~MayPut /\ pc[t] = "woken" /\ Sleep(t)
     \/ ~MayPut /\ pc[t] = "expired" /\ Return(t, "timeout")
     \/ MayPut /\ Full /\ Return(t, "closed")
     \/ MayPut /\ ~Full /\ Push(t, item[t])

\* Both of them once m_notFull's wait has the mutex again.
put_wait_resume(t) ==
  /\ op[t] \in BlockingPuts /\ Stay(t) /\ UNCHANGED item
  /\ \/ ~MayPut /\ pc[t] = "woken" /\ Sleep(t)
     \/ ~MayPut /\ pc[t] = "expired" /\ Return(t, "timeout")
     \/ m_state = "closing" /\ Return(t, "closed")
     \/ m_state = "open" /\ MayPut /\ Push(t, item[t])
-----------------------------------------------------------------------------
\* Taking.

\* What is left of b without its i-th element.
Without(b, i) == SubSeq(b, 1, i - 1) \o SubSeq(b, i + 1, Len(b))

Extract_Leaves(i) == left' = Append(left, m_buffer[i]) /\ UNCHANGED m_buffer

Extract(i) == left' = Append(left, m_buffer[i]) /\ m_buffer' = Without(m_buffer, i)

\* takeLocked; p is where the thread is afterwards.
Pop(t, p) ==
  /\ m_buffer # <<>>
  /\ \E i \in PopIndices(m_buffer) :
       Extract(i) /\ item' = [item EXCEPT ![t] = m_buffer[i]]
  /\ erc' = [erc EXCEPT ![t] = "item"]
  /\ pc' = At(t, p)
  /\ UNCHANGED <<m_state, m_maxQueueSize, accepted>>

EnterTake(t, o) == pc[t] = "idle" /\ op' = [op EXCEPT ![t] = o]

NoValue(t) == item' = [item EXCEPT ![t] = NoItem]

\* take(): never looks at m_state and never notifies m_notFull.
take(t) ==
  /\ EnterTake(t, "take")
  /\ \/ Pop(t, "idle")
     \/ m_buffer = <<>> /\ NoValue(t) /\ Sleep(t)

take_resume(t) ==
  /\ op[t] = "take" /\ Stay(t)
  /\ \/ Pop(t, "idle")
     \/ m_buffer = <<>> /\ NoValue(t) /\ Sleep(t)

\* A closing queue is reported closed before its items are looked at.
tryTake_ClosedFirst(t, o) ==
  /\ EnterTake(t, o)
  /\ \/ m_state = "open" /\ Pop(t, "popped")
     \/ m_state = "closing" /\ NoValue(t) /\ Return(t, "closed")
     \/ m_buffer = <<>> /\ m_state = "open" /\ NoValue(t) /\ Sleep(t)

tryTake(t, o) ==
  /\ EnterTake(t, o)
  /\ \/ Pop(t, "popped")
     \/ m_buffer = <<>> /\ m_state = "closing" /\ NoValue(t) /\ Return(t, "closed")
     \/ m_buffer = <<>> /\ m_state = "open" /\ NoValue(t) /\ Sleep(t)

tryTake_resume(t) ==
  /\ op[t] \in TimedTakes /\ Stay(t)
  /\ \/ Pop(t, "popped")
     \/ /\ m_buffer = <<>> /\ m_state = "closing"
        /\ NoValue(t) /\ Return(t, "closed")
     \/ ~MayTake /\ pc[t] = "woken" /\ NoValue(t) /\ Sleep(t)
     \/ ~MayTake /\ pc[t] = "expired" /\ NoValue(t) /\ Return(t, "timeout")

\* m_notFull.notify_one() after lock.unlock().
tryTake_notify_Nobody(t) ==
  /\ pc[t] = "popped"
  /\ pc' = At(t, "idle")
  /\ UNCHANGED calls

tryTake_notify(t) ==
  /\ pc[t] = "popped"
  /\ notify_one(NotFullSleepers, At(t, "idle"))
  /\ UNCHANGED calls
-----------------------------------------------------------------------------
\* The remaining operations.

clear(t) ==
  /\ Enter(t, "clear", NoItem)
  /\ m_buffer' = <<>>
  /\ left' = left \o m_buffer
  /\ UNCHANGED <<m_state, m_maxQueueSize, pc, erc, accepted>>

set_queue_max_size(t, n) ==
  /\ Enter(t, "set_queue_max_size", NoItem)
  /\ m_maxQueueSize' = n
  /\ UNCHANGED <<m_buffer, m_state, pc, erc, accepted, left>>

close(t) ==
  /\ Enter(t, "close", NoItem)
  /\ m_state' = "closing"
  /\ pc' = At(t, "close_1")
  /\ UNCHANGED <<m_buffer, m_maxQueueSize, erc, accepted, left>>

close_notify_empty(t) ==
  /\ pc[t] = "close_1"
  /\ notify_all(NotEmptySleepers, At(t, "close_2"))
  /\ UNCHANGED calls

close_notify_full(t) ==
  /\ pc[t] = "close_2"
  /\ notify_all(NotFullSleepers, At(t, "idle"))
  /\ UNCHANGED calls

\* A sleeper may wake without a notification; a timed wait reaches its
\* deadline.  tryTake(0) waits for milliseconds::max(), whose conversion to the
\* clock's nanoseconds overflows: its deadline may lie in the past.
spurious(t) ==
  /\ pc[t] = "asleep"
  /\ pc' = At(t, "woken")
  /\ UNCHANGED calls

expire(t) ==
  /\ pc[t] = "asleep" /\ op[t] \in Timed
  /\ pc' = At(t, "expired")
  /\ UNCHANGED calls
-----------------------------------------------------------------------------
\* An item is put at most once at a time.
Fresh(x) ==
  /\ x \notin Range(accepted)
  /\ \A u \in Threads : pc[u] # "idle" /\ op[u] \in BlockingPuts => item[u] # x

\* The calls a thread may start, and the steps of a call already started.
Call(t) ==
  \/ \E x \in Items : "put" \in Ops /\ Fresh(x) /\ put(t, x)
  \/ \E x \in Items, o \in BlockingPuts \cap Ops : Fresh(x) /\ put_wait(t, o, x)
  \/ "take" \in Ops /\ take(t)
  \/ \E o \in TimedTakes \cap Ops : tryTake(t, o)
  \/ "clear" \in Ops /\ clear(t)
  \/ "close" \in Ops /\ close(t)
  \/ \E n \in MaxSizes :
       "set_queue_max_size" \in Ops /\ set_queue_max_size(t, n)

Continue(t) ==
  \/ put_wait_resume(t)
  \/ take_resume(t)
  \/ tryTake_resume(t)
  \/ tryTake_notify(t)
  \/ close_notify_empty(t)
  \/ close_notify_full(t)

Next == \E t \in Threads : Call(t) \/ Continue(t) \/ spurious(t) \/ expire(t)

Spec == Init /\ [][Next]_vars

\* A thread that is not blocked runs.  A deadline is absolute, so that it passes
\* even for a thread that is woken and sleeps again for ever: strong fairness.
FairSpec ==
  /\ Spec
  /\ \A t \in Threads : WF_vars(Continue(t)) /\ SF_vars(expire(t))
-----------------------------------------------------------------------------
Blocked == {"asleep", "woken", "expired"}

\* The types of the variables; a put that waits still holds its value.
TypeOK ==
  /\ m_buffer \in Seq(Items)
  /\ m_state \in {"open", "closing"}
  /\ m_maxQueueSize \in Nat
  /\ op \in [Threads -> OpNames]
  /\ pc \in [Threads -> Points]
  /\ item \in [Threads -> Items \cup {NoItem}]
  /\ erc \in [Threads -> Results]
  /\ accepted \in Seq(Items)
  /\ left \in Seq(Items)
  /\ \A t \in Threads : pc[t] \in Blocked /\ op[t] \in BlockingPuts => item[t] \in Items

\* A deque or list hands items out, or clears them, in the order in which put
\* accepted them, each exactly once, whatever the threads' interleaving.
FifoOrder ==
  Container \in {"deque", "list"} => accepted = left \o m_buffer

\* No container loses, duplicates or invents an item.
Conservation ==
  /\ Len(accepted) = Len(left) + Len(m_buffer)
  /\ Range(accepted) = Range(left) \cup Range(m_buffer)

\* Waking consumers: those between a wake-up or deadline and their next look at
\* the container, and likewise producers; Notifiers have popped and not yet
\* notified.
Up(t)           == pc[t] \in {"woken", "expired"}
WakingConsumers == {t \in Threads : Up(t) /\ op[t] \in Takes}
WakingProducers == {t \in Threads : Up(t) /\ op[t] \in BlockingPuts}
Notifiers       == {t \in Threads : pc[t] = "popped"}

\* No wake-up of a consumer is lost: while one sleeps on m_notEmptyQueue, every
\* item in the container has a consumer on its way to it.
NoLostNotEmpty ==
  NotEmptySleepers # {} => Len(m_buffer) <= Cardinality(WakingConsumers)

\* No wake-up of a producer is lost: while one sleeps on m_notFull of an open
\* bounded queue, every free slot has a producer on its way to it or a consumer
\* about to notify one.
NoLostNotFull ==
  (m_state = "open" /\ NotFullSleepers # {} /\ m_maxQueueSize # 0) =>
    m_maxQueueSize <= Len(m_buffer) + Cardinality(WakingProducers)
                                    + Cardinality(Notifiers)

\* After close() no timed or blocking-put call sleeps unless the closer has yet
\* to reach the notify_all that wakes it; take() is not woken.
CloseReachesSleepers ==
  m_state = "closing" =>
    /\ (\E t \in NotEmptySleepers : op[t] # "take") =>
         \E u \in Threads : pc[u] = "close_1"
    /\ NotFullSleepers # {} => \E u \in Threads : pc[u] \in {"close_1", "close_2"}

\* Order and close together: items leave in the order accepted, and no sleeper is
\* passed over by close, whatever the threads' interleaving.
QueueSafe == TypeOK /\ FifoOrder /\ CloseReachesSleepers

\* The queue over a deque or list is a channel: a step of any thread, also of a
\* producer that slept while the queue was closed or its bound was lowered, sends
\* only into an open channel with room, and receives in the order sent.
Channel == INSTANCE FifoChannel WITH
             Values <- Items, Capacity <- InitialMax, sent <- accepted, received <- left,
             capacity <- m_maxQueueSize, open <- (m_state = "open")

ImplementsChannel == Channel!Spec

\* close() ends every blocked put_wait, put_wait_for and tryTake.
CloseUnblocks ==
  \A t \in Threads :
    (m_state = "closing" /\ pc[t] # "idle" /\ op[t] # "take") ~> (pc[t] = "idle")

=============================================================================
