--------------------------- MODULE MpmcQueueProofs ---------------------------
(***************************************************************************)
(* Proofs about MpmcQueue, for every finite set of threads, every set of   *)
(* items, every container, every bound and every choice of operations.     *)
(***************************************************************************)
EXTENDS MpmcQueue, SequenceTheorems, FiniteSetTheorems, TLAPS

\* Removing one element of a sequence leaves a sequence that is one shorter.
LEMMA WithoutSeq ==
  ASSUME NEW S, NEW s \in Seq(S), NEW i \in 1..Len(s)
  PROVE  /\ Without(s, i) \in Seq(S)
         /\ Len(Without(s, i)) = Len(s) - 1
<1> DEFINE a == SubSeq(s, 1, i - 1)
           b == SubSeq(s, i + 1, Len(s))
<1>1. a \in Seq(S) /\ Len(a) = i - 1
  BY SubSeqProperties, ElementOfSeq, LenProperties
<1>2. b \in Seq(S) /\ Len(b) = Len(s) - i
  BY SubSeqProperties, ElementOfSeq, LenProperties
<1>3. Without(s, i) = a \o b
  BY DEF Without
<1> HIDE DEF a, b
<1>4. a \o b \in Seq(S) /\ Len(a \o b) = Len(a) + Len(b)
  BY <1>1, <1>2, ConcatProperties, Zenon
<1> QED
  BY <1>1, <1>2, <1>3, <1>4, LenProperties

\* ContainerOps::pop takes from inside the container.
LEMMA PopIndicesInside ==
  ASSUME NEW S, NEW b \in Seq(S), b # <<>>, NEW i \in PopIndices(b)
  PROVE  i \in 1..Len(b)
BY ConstantsAssumption DEF PopIndices, ConstantsAssumption

\* The points the notifications leave the threads at are points, and they put
\* nobody to sleep.
LEMMA NotifyType ==
  ASSUME NEW S \in SUBSET Threads, NEW f \in [Threads -> Points],
         notify_one(S, f) \/ notify_all(S, f)
  PROVE  /\ pc' \in [Threads -> Points]
         /\ \A u \in Threads : pc'[u] = f[u] \/ (u \in S /\ pc'[u] = "woken")
BY DEF notify_one, notify_all, Points

\* A step of thread t leaves the calls of the other threads alone.
OnlyOf(t) ==
  /\ op' \in [Threads -> OpNames]
  /\ item' \in [Threads -> Items \cup {NoItem}]
  /\ \A u \in Threads \ {t} : op'[u] = op[u] /\ item'[u] = item[u]

\* The type invariant is preserved by what the operations are built from.
LEMMA TypeOfParts ==
  ASSUME TypeOK, NEW t \in Threads, OnlyOf(t)
  PROVE  /\ \A e \in Results : Return(t, e) => TypeOK'
         /\ Sleep(t) /\ (op'[t] \in BlockingPuts => item'[t] \in Items) => TypeOK'
         /\ \A x \in Items : Push(t, x) /\ pc[t] # "asleep" => TypeOK'
         /\ \A p \in Points \ Blocked : Pop(t, p) => TypeOK'
<1> USE ConstantsAssumption DEF ConstantsAssumption
<1>1. ASSUME NEW e \in Results, Return(t, e) PROVE TypeOK'
  BY <1>1 DEF TypeOK, Return, At, Points, Blocked, OnlyOf
<1>2. ASSUME Sleep(t), op'[t] \in BlockingPuts => item'[t] \in Items PROVE TypeOK'
  BY <1>2 DEF TypeOK, Sleep, At, Points, Results, Blocked, OnlyOf
<1>3. ASSUME NEW x \in Items, Push(t, x), pc[t] # "asleep" PROVE TypeOK'
  <2>1. At(t, "idle") \in [Threads -> Points] /\ NotEmptySleepers \in SUBSET Threads
    BY DEF TypeOK, At, Points, NotEmptySleepers
  <2>2. /\ pc' \in [Threads -> Points]
        /\ \A u \in Threads : pc'[u] = At(t, "idle")[u] \/ (u \in NotEmptySleepers /\ pc'[u] = "woken")
    BY <1>3, <2>1, NotifyType DEF Push, NotifyTaker
  <2>3. \A u \in Threads : pc'[u] \in Blocked => pc[u] \in Blocked /\ u # t
    BY <2>2, <1>3 DEF Blocked, At, NotEmptySleepers, TypeOK
  <2>4. m_buffer' \in Seq(Items) /\ accepted' \in Seq(Items)
    BY <1>3, AppendProperties DEF TypeOK, Push, Store
  <2>5. erc' \in [Threads -> Results]
    BY <1>3 DEF TypeOK, Push, Results
  <2>6. \A u \in Threads : pc'[u] \in Blocked /\ op'[u] \in BlockingPuts => item'[u] \in Items
    BY <2>3 DEF TypeOK, OnlyOf
  <2>7. m_state' = m_state /\ m_maxQueueSize' = m_maxQueueSize /\ left' = left
    BY <1>3 DEF Push
  <2> QED
    BY <2>2, <2>4, <2>5, <2>6, <2>7 DEF TypeOK, OnlyOf
<1>4. ASSUME NEW p \in Points \ Blocked, Pop(t, p) PROVE TypeOK'
  <2>1. PICK i \in PopIndices(m_buffer) :
               Extract(i) /\ item' = [item EXCEPT ![t] = m_buffer[i]]
    BY <1>4, Zenon DEF Pop
  <2>2. m_buffer \in Seq(Items) /\ i \in 1..Len(m_buffer)
    BY <1>4, PopIndicesInside DEF Pop, TypeOK
  <2>3. m_buffer' \in Seq(Items) /\ left' \in Seq(Items)
    BY <2>1, <2>2, WithoutSeq DEF Extract, TypeOK
  <2> QED
    BY <1>4, <2>3 DEF TypeOK, Pop, At, Results, OnlyOf
<1> QED
  BY <1>1, <1>2, <1>3, <1>4

\* The steps that only move threads keep the types.
LEMMA TypeOfMoves ==
  ASSUME TypeOK, UNCHANGED calls, pc' \in [Threads -> Points],
         \A u \in Threads : pc'[u] \in Blocked => pc[u] \in Blocked
  PROVE  TypeOK'
BY DEF TypeOK, calls

\* The type invariant is inductive.
LEMMA TypeStep == TypeOK /\ [Next]_vars => TypeOK'
<1> SUFFICES ASSUME TypeOK, [Next]_vars PROVE TypeOK'
  OBVIOUS
<1> USE ConstantsAssumption DEF ConstantsAssumption
<1>1. CASE UNCHANGED vars
  BY <1>1 DEF TypeOK, vars
<1>2. ASSUME NEW t \in Threads, NEW o \in OpNames, NEW x \in Items \cup {NoItem},
             Enter(t, o, x)
      PROVE  OnlyOf(t) /\ op'[t] = o /\ item'[t] = x /\ pc[t] = "idle"
  BY <1>2 DEF TypeOK, Enter, OnlyOf
<1>3. ASSUME NEW t \in Threads, NEW x \in Items, put(t, x) PROVE TypeOK'
  BY <1>2, <1>3, TypeOfParts DEF put, Results, OpNames
<1>4. ASSUME NEW t \in Threads, NEW o \in BlockingPuts, NEW x \in Items, put_wait(t, o, x)
      PROVE  TypeOK'
  BY <1>2, <1>4, TypeOfParts DEF put_wait, Results, OpNames
<1>5. ASSUME NEW t \in Threads, put_wait_resume(t) PROVE TypeOK'
  <2>1. OnlyOf(t) /\ op'[t] = op[t] /\ item'[t] = item[t] /\ item[t] \in Items /\ pc[t] # "asleep"
    BY <1>5 DEF TypeOK, OnlyOf, put_wait_resume, Stay, Blocked
  <2> QED
    BY <1>5, <2>1, TypeOfParts, Zenon DEF put_wait_resume, Results
<1>6. ASSUME NEW t \in Threads, NEW p \in Points \ Blocked, Pop(t, p), op' \in [Threads -> OpNames],
             \A u \in Threads \ {t} : op'[u] = op[u]
      PROVE  TypeOK'
  <2>1. PICK i \in PopIndices(m_buffer) : item' = [item EXCEPT ![t] = m_buffer[i]]
    BY <1>6, Zenon DEF Pop
  <2>2. m_buffer \in Seq(Items) /\ i \in 1..Len(m_buffer)
    BY <1>6, PopIndicesInside DEF Pop, TypeOK
  <2>3. OnlyOf(t)
    BY <1>6, <2>1, <2>2, ElementOfSeq DEF TypeOK, OnlyOf
  <2> QED
    BY <1>6, <2>3, TypeOfParts
<1>7. ASSUME NEW t \in Threads, NoValue(t), op' \in [Threads -> OpNames],
             \A u \in Threads \ {t} : op'[u] = op[u], op'[t] \in Takes,
             Sleep(t) \/ Return(t, "closed") \/ Return(t, "timeout")
      PROVE  TypeOK'
  <2>1. OnlyOf(t)
    BY <1>7 DEF TypeOK, OnlyOf, NoValue
  <2>2. op'[t] \notin BlockingPuts
    BY <1>7 DEF Takes, TimedTakes, BlockingPuts
  <2> QED
    BY <1>7, <2>1, <2>2, TypeOfParts DEF Results
<1>8. "popped" \in Points \ Blocked /\ "idle" \in Points \ Blocked /\ Takes \subseteq OpNames
  BY DEF Points, Blocked, Takes, TimedTakes, OpNames
<1>9. ASSUME NEW t \in Threads, NEW o \in Takes, EnterTake(t, o)
      PROVE  /\ op' \in [Threads -> OpNames] /\ op'[t] \in Takes
             /\ \A u \in Threads \ {t} : op'[u] = op[u]
  BY <1>8, <1>9 DEF EnterTake, TypeOK
<1>10. ASSUME NEW t \in Threads, op[t] \in Takes, Stay(t)
       PROVE  /\ op' \in [Threads -> OpNames] /\ op'[t] \in Takes
              /\ \A u \in Threads \ {t} : op'[u] = op[u]
  BY <1>10 DEF Stay, TypeOK
<1>11. ASSUME NEW t \in Threads, take(t) PROVE TypeOK'
  BY <1>6, <1>7, <1>8, <1>9, <1>11 DEF take, Takes
<1>12. ASSUME NEW t \in Threads, take_resume(t) PROVE TypeOK'
  BY <1>6, <1>7, <1>8, <1>10, <1>12 DEF take_resume, Takes
<1>13. ASSUME NEW t \in Threads, NEW o \in TimedTakes, tryTake(t, o) PROVE TypeOK'
  BY <1>6, <1>7, <1>8, <1>9, <1>13 DEF tryTake, Takes
<1>14. ASSUME NEW t \in Threads, tryTake_resume(t) PROVE TypeOK'
  BY <1>6, <1>7, <1>8, <1>10, <1>14 DEF tryTake_resume, Takes
<1>15. ASSUME NEW t \in Threads,
              \/ tryTake_notify(t) \/ close_notify_empty(t) \/ close_notify_full(t)
       PROVE  TypeOK'
  <2>1. PICK p \in {"idle", "close_2"}, S \in {NotFullSleepers, NotEmptySleepers} :
          /\ notify_one(S, At(t, p)) \/ notify_all(S, At(t, p))
          /\ UNCHANGED calls
    BY <1>15 DEF tryTake_notify, close_notify_empty, close_notify_full
  <2>2. At(t, p) \in [Threads -> Points] /\ S \in SUBSET Threads
    BY <2>1 DEF TypeOK, At, Points, NotFullSleepers, NotEmptySleepers
  <2>3. /\ pc' \in [Threads -> Points]
        /\ \A u \in Threads : pc'[u] = At(t, p)[u] \/ (u \in S /\ pc'[u] = "woken")
    BY <2>1, <2>2, NotifyType
  <2>4. \A u \in Threads : pc'[u] \in Blocked => pc[u] \in Blocked
    BY <2>3 DEF Blocked, At, NotFullSleepers, NotEmptySleepers, TypeOK
  <2> QED
    BY <2>1, <2>3, <2>4, TypeOfMoves
<1>16. ASSUME NEW t \in Threads, spurious(t) \/ expire(t) PROVE TypeOK'
  <2>1. pc' \in [Threads -> Points] /\ UNCHANGED calls
    BY <1>16 DEF spurious, expire, At, Points, TypeOK
  <2>2. \A u \in Threads : pc'[u] \in Blocked => pc[u] \in Blocked
    BY <1>16 DEF spurious, expire, At, Blocked, TypeOK
  <2> QED
    BY <2>1, <2>2, TypeOfMoves
<1>17. ASSUME NEW t \in Threads, clear(t) PROVE TypeOK'
  <2>1. OnlyOf(t) /\ pc[t] = "idle"
    BY <1>2, <1>17, Zenon DEF clear, OpNames
  <2>2. m_buffer' \in Seq(Items) /\ left' \in Seq(Items)
    BY <1>17, ConcatProperties, EmptySeq DEF clear, TypeOK
  <2> QED
    BY <1>17, <2>1, <2>2, Zenon DEF clear, TypeOK, OnlyOf, Blocked
<1>18. ASSUME NEW t \in Threads, NEW n \in MaxSizes, set_queue_max_size(t, n) PROVE TypeOK'
  <2>1. OnlyOf(t) /\ pc[t] = "idle"
    BY <1>2, <1>18, Zenon DEF set_queue_max_size, OpNames
  <2> QED
    BY <1>18, <2>1 DEF set_queue_max_size, TypeOK, OnlyOf, Blocked
<1>19. ASSUME NEW t \in Threads, close(t) PROVE TypeOK'
  <2>1. OnlyOf(t)
    BY <1>2, <1>19, Zenon DEF close, OpNames
  <2> QED
    BY <1>19, <2>1, Zenon DEF close, TypeOK, OnlyOf, Blocked, At, Points
<1> QED
  BY <1>1, <1>3, <1>4, <1>5, <1>11, <1>12, <1>13, <1>14, <1>15, <1>16, <1>17, <1>18, <1>19
  DEF Next, Call, Continue

\* Every reachable state has its types: a value a waiting put holds is an item, and
\* nothing but items gets into the container.
THEOREM TypeCorrect == Spec => []TypeOK
<1>1. Init => TypeOK
  BY ConstantsAssumption, EmptySeq
  DEF ConstantsAssumption, Init, TypeOK, OpNames, Points, Results, Blocked
<1> QED
  BY <1>1, TypeStep, PTL DEF Spec
-----------------------------------------------------------------------------
\* What a step does to the consumers: the container or m_notEmptyQueue is left
\* empty, or nobody starts to sleep there and each item keeps its consumer.
ConsumerStep ==
  \/ m_buffer' = <<>>
  \/ NotEmptySleepers' = {}
  \/ /\ NotEmptySleepers' \subseteq NotEmptySleepers
     /\ \/ Len(m_buffer') <= Len(m_buffer) /\ WakingConsumers \subseteq WakingConsumers'
        \/ /\ Len(m_buffer') = Len(m_buffer) - 1
           /\ \E t \in Threads : WakingConsumers \ {t} \subseteq WakingConsumers'
        \/ /\ Len(m_buffer') = Len(m_buffer) + 1
           /\ \E u \in NotEmptySleepers : WakingConsumers \cup {u} \subseteq WakingConsumers'

\* Every step of the queue is such a step.
LEMMA ConsumerEffects == TypeOK /\ [Next]_vars => ConsumerStep
<1> SUFFICES ASSUME TypeOK, [Next]_vars PROVE ConsumerStep
  OBVIOUS
<1> DEFINE Same(t) == \A u \in Threads \ {t} : op'[u] = op[u]
<1> USE DEF NotEmptySleepers, WakingConsumers, Up
<1>1. CASE UNCHANGED vars
  BY <1>1 DEF ConsumerStep, vars, TypeOK
<1>2. ASSUME NEW t \in Threads, Same(t), pc[t] # "asleep", t \notin WakingConsumers,
             \/ \E e \in Results : Return(t, e)
             \/ Sleep(t) /\ op'[t] \notin Takes
      PROVE  ConsumerStep
  <2>1. Len(m_buffer') <= Len(m_buffer)
    BY <1>2 DEF Return, Sleep, TypeOK
  <2>2. pc' = At(t, "idle") \/ (pc' = At(t, "asleep") /\ op'[t] \notin Takes)
    BY <1>2 DEF Return, Sleep
  <2>3. /\ NotEmptySleepers' \subseteq NotEmptySleepers
        /\ WakingConsumers \subseteq WakingConsumers'
    BY <1>2, <2>2 DEF At, TypeOK
  <2> QED
    BY <2>1, <2>3 DEF ConsumerStep
<1>3. ASSUME NEW t \in Threads, Same(t), pc[t] # "asleep", t \notin WakingConsumers,
             NEW x, Push(t, x)
      PROVE  ConsumerStep
  <2>1. Len(m_buffer') = Len(m_buffer) + 1
    BY <1>3 DEF Push, Store, TypeOK
  <2>2. CASE NotEmptySleepers = {}
    BY <1>3, <2>2 DEF ConsumerStep, Push, NotifyTaker, notify_one, At, TypeOK
  <2>3. CASE NotEmptySleepers # {}
    <3>1. PICK u \in NotEmptySleepers : pc' = [At(t, "idle") EXCEPT ![u] = "woken"]
      BY <1>3, <2>3 DEF Push, NotifyTaker, notify_one
    <3>2. /\ u \in Threads /\ u # t
          /\ NotEmptySleepers' \subseteq NotEmptySleepers
          /\ WakingConsumers \cup {u} \subseteq WakingConsumers'
      BY <1>3, <3>1, Zenon DEF At, TypeOK
    <3> QED
      BY <2>1, <3>2 DEF ConsumerStep
  <2> QED
    BY <2>2, <2>3
<1>4. ASSUME NEW t \in Threads, Same(t), pc[t] # "asleep",
             NEW p \in {"idle", "popped"}, Pop(t, p)
      PROVE  ConsumerStep
  <2>1. PICK i \in PopIndices(m_buffer) : Extract(i)
    BY <1>4 DEF Pop
  <2>2. Len(m_buffer') = Len(m_buffer) - 1
    BY <1>4, <2>1, PopIndicesInside, WithoutSeq DEF Pop, Extract, TypeOK
  <2>3. /\ NotEmptySleepers' \subseteq NotEmptySleepers
        /\ WakingConsumers \ {t} \subseteq WakingConsumers'
    BY <1>4 DEF Pop, At, TypeOK
  <2> QED
    BY <2>2, <2>3 DEF ConsumerStep
<1>5. ASSUME NEW t \in Threads, NEW x \in Items, put(t, x) PROVE ConsumerStep
  BY <1>2, <1>3, <1>5, Zenon DEF put, Enter, Results, TypeOK
<1>6. ASSUME NEW t \in Threads, NEW o \in BlockingPuts, NEW x \in Items, put_wait(t, o, x)
      PROVE  ConsumerStep
  <2>1. Same(t) /\ pc[t] = "idle" /\ op'[t] \notin Takes
    BY <1>6 DEF put_wait, Enter, TypeOK, BlockingPuts, Takes, TimedTakes
  <2> QED
    BY <1>2, <1>3, <1>6, <2>1 DEF put_wait, Results
<1>7. ASSUME NEW t \in Threads, put_wait_resume(t) PROVE ConsumerStep
  <2>1. Same(t) /\ pc[t] # "asleep" /\ op'[t] \notin Takes /\ t \notin WakingConsumers
    BY <1>7 DEF put_wait_resume, Stay, BlockingPuts, Takes, TimedTakes
  <2> QED
    BY <1>2, <1>3, <1>7, <2>1 DEF put_wait_resume, Results
<1>8. ASSUME NEW t \in Threads,
             take(t) \/ take_resume(t) \/ tryTake_resume(t) \/ \E o \in TimedTakes : tryTake(t, o)
      PROVE  ConsumerStep
  <2>1. Same(t) /\ pc[t] # "asleep"
    BY <1>8 DEF take, take_resume, tryTake, tryTake_resume, EnterTake, Stay, TypeOK
  <2>2. \/ \E p \in {"idle", "popped"} : Pop(t, p)
        \/ m_buffer = <<>> /\ (Sleep(t) \/ \E e \in Results : Return(t, e))
    BY <1>8 DEF take, take_resume, tryTake, tryTake_resume, MayTake, Results
  <2>3. ASSUME m_buffer = <<>>, Sleep(t) \/ \E e \in Results : Return(t, e) PROVE ConsumerStep
    BY <2>3 DEF ConsumerStep, Sleep, Return
  <2> QED
    BY <1>4, <2>1, <2>2, <2>3
<1>9. ASSUME NEW t \in Threads, tryTake_notify(t) \/ close_notify_full(t) PROVE ConsumerStep
  <2>1. \A u \in NotFullSleepers : op[u] \notin Takes
    BY DEF NotFullSleepers, BlockingPuts, Takes, TimedTakes
  <2>2. UNCHANGED calls
    BY <1>9 DEF tryTake_notify, close_notify_full
  <2>3. \A u \in Threads : op[u] \in Takes /\ u # t => pc'[u] = pc[u]
    BY <1>9, <2>1 DEF tryTake_notify, close_notify_full, notify_one, notify_all, At, TypeOK
  <2>4. pc[t] \in {"popped", "close_2"} /\ pc'[t] = "idle"
    BY <1>9 DEF tryTake_notify, close_notify_full, notify_one, notify_all, At, NotFullSleepers, TypeOK
  <2> QED
    BY <2>2, <2>3, <2>4 DEF ConsumerStep, calls, TypeOK
<1>10. ASSUME NEW t \in Threads, close_notify_empty(t) PROVE ConsumerStep
  BY <1>10 DEF ConsumerStep, close_notify_empty, notify_all, At, calls, TypeOK
<1>11. ASSUME NEW t \in Threads, spurious(t) \/ expire(t) PROVE ConsumerStep
  BY <1>11 DEF ConsumerStep, spurious, expire, At, calls, TypeOK
<1>12. ASSUME NEW t \in Threads,
              clear(t) \/ close(t) \/ \E n \in MaxSizes : set_queue_max_size(t, n)
       PROVE  ConsumerStep
  <2>1. CASE clear(t)
    BY <2>1 DEF ConsumerStep, clear
  <2>2. CASE close(t) \/ \E n \in MaxSizes : set_queue_max_size(t, n)
    <3>1. Len(m_buffer') <= Len(m_buffer)
      BY <2>2 DEF close, set_queue_max_size, TypeOK
    <3>2. /\ Same(t) /\ pc[t] = "idle"
          /\ pc' = At(t, "close_1") \/ pc' = pc
      BY <2>2 DEF close, set_queue_max_size, Enter, TypeOK
    <3>3. /\ NotEmptySleepers' \subseteq NotEmptySleepers
          /\ WakingConsumers \subseteq WakingConsumers'
      BY <3>2 DEF At, TypeOK
    <3> QED
      BY <3>1, <3>3 DEF ConsumerStep
  <2> QED
    BY <1>12, <2>1, <2>2
<1> QED
  BY <1>1, <1>5, <1>6, <1>7, <1>8, <1>9, <1>10, <1>11, <1>12 DEF Next, Call, Continue

\* Adding an element to a finite set that lacks it, and taking one away.
LEMMA CountOne ==
  ASSUME NEW T, NEW U, IsFiniteSet(U), NEW u
  PROVE  /\ T \subseteq U => Cardinality(T) <= Cardinality(U)
         /\ T \cup {u} \subseteq U /\ u \notin T => Cardinality(T) + 1 <= Cardinality(U)
         /\ T \ {u} \subseteq U /\ IsFiniteSet(T) => Cardinality(T) - 1 <= Cardinality(U)
         /\ Cardinality(U) \in Nat
<1>1. Cardinality(U) \in Nat
  BY FS_CardinalityType
<1>2. ASSUME T \subseteq U PROVE Cardinality(T) <= Cardinality(U)
  BY <1>2, FS_Subset
<1>3. ASSUME T \cup {u} \subseteq U, u \notin T PROVE Cardinality(T) + 1 <= Cardinality(U)
  <2>1. IsFiniteSet(T)
    BY <1>3, FS_Subset
  <2>2. Cardinality(T \cup {u}) = Cardinality(T) + 1
    BY <1>3, <2>1, FS_AddElement
  <2> QED
    BY <1>3, <2>2, FS_Subset
<1>4. ASSUME T \ {u} \subseteq U, IsFiniteSet(T) PROVE Cardinality(T) - 1 <= Cardinality(U)
  <2>1. Cardinality(T \ {u}) = IF u \in T THEN Cardinality(T) - 1 ELSE Cardinality(T)
    BY <1>4, FS_RemoveElement
  <2>2. Cardinality(T \ {u}) <= Cardinality(U) /\ Cardinality(T) \in Nat
    BY <1>4, FS_Subset, FS_CardinalityType
  <2> QED
    BY <1>1, <2>1, <2>2
<1> QED
  BY <1>1, <1>2, <1>3, <1>4

\* No wake-up of a consumer is lost: as long as one sleeps on m_notEmptyQueue,
\* every item in the container has a consumer on its way to it, with any number
\* of producers, consumers and closers and with every operation of the queue.
THEOREM ConsumersAreWoken == Spec => []NoLostNotEmpty
<1>1. Init => NoLostNotEmpty
  BY DEF Init, NoLostNotEmpty, NotEmptySleepers
<1>2. ASSUME TypeOK, TypeOK', [Next]_vars, NoLostNotEmpty PROVE NoLostNotEmpty'
  <2> DEFINE W == WakingConsumers
  <2> SUFFICES ASSUME NotEmptySleepers' # {} PROVE Len(m_buffer') <= Cardinality(W')
    BY DEF NoLostNotEmpty
  <2>1. IsFiniteSet(W) /\ IsFiniteSet(W')
    BY FS_Subset, ConstantsAssumption DEF WakingConsumers, ConstantsAssumption
  <2>2. /\ Len(m_buffer) \in Nat /\ Len(m_buffer') \in Nat
        /\ Cardinality(W) \in Nat /\ Cardinality(W') \in Nat
    BY <1>2, <2>1, FS_CardinalityType, LenProperties DEF TypeOK
  <2>3. ConsumerStep
    BY <1>2, ConsumerEffects
  <2>4. CASE m_buffer' = <<>>
    BY <2>2, <2>4
  <2>5. CASE NotEmptySleepers' \subseteq NotEmptySleepers
    <3>1. Len(m_buffer) <= Cardinality(W)
      BY <1>2, <2>5 DEF NoLostNotEmpty
    <3>2. CASE Len(m_buffer') <= Len(m_buffer) /\ W \subseteq W'
      BY <2>1, <2>2, <3>1, <3>2, CountOne
    <3>3. CASE Len(m_buffer') = Len(m_buffer) - 1 /\ \E t \in Threads : W \ {t} \subseteq W'
      <4>1. PICK t \in Threads : W \ {t} \subseteq W'
        BY <3>3
      <4>2. Cardinality(W) - 1 <= Cardinality(W')
        BY <2>1, <4>1, CountOne
      <4> QED
        BY <2>2, <3>1, <3>3, <4>2
    <3>4. CASE Len(m_buffer') = Len(m_buffer) + 1 /\ \E u \in NotEmptySleepers : W \cup {u} \subseteq W'
      <4>1. \A u \in NotEmptySleepers : u \notin W
        BY DEF NotEmptySleepers, WakingConsumers, Up
      <4> QED
        BY <2>1, <2>2, <3>1, <3>4, <4>1, CountOne
    <3> QED
      BY <2>2, <2>3, <2>5, <3>2, <3>3, <3>4 DEF ConsumerStep
  <2> QED
    BY <2>3, <2>4, <2>5 DEF ConsumerStep
<1> QED
  BY <1>1, <1>2, TypeCorrect, PTL DEF Spec
-----------------------------------------------------------------------------
\* What a step does to the producers when only the pool's operations are used:
\* the queue is closing, nobody sleeps on m_notFull or the container is full, or
\* each free slot keeps the producer or the notifier that stands for it.
ProducerStep ==
  \/ m_state' # "open"
  \/ NotFullSleepers' = {}
  \/ m_maxQueueSize' <= Len(m_buffer')
  \/ /\ NotFullSleepers' \subseteq NotFullSleepers
     /\ UNCHANGED <<m_state, m_maxQueueSize>>
     /\ \/ Len(m_buffer') >= Len(m_buffer) /\ WakingProducers \subseteq WakingProducers'
           /\ Notifiers \subseteq Notifiers'
        \/ Len(m_buffer') = Len(m_buffer) + 1 /\ Notifiers \subseteq Notifiers'
           /\ \E t \in Threads : WakingProducers \ {t} \subseteq WakingProducers'
        \/ Len(m_buffer') = Len(m_buffer) - 1 /\ WakingProducers \subseteq WakingProducers'
           /\ \E t \in Threads \ Notifiers : Notifiers \cup {t} \subseteq Notifiers'
        \/ m_buffer' = m_buffer
           /\ \E t \in Threads : Notifiers \ {t} \subseteq Notifiers'
           /\ \E u \in NotFullSleepers : WakingProducers \cup {u} \subseteq WakingProducers'

\* No thread is in take().
NoTakes == \A t \in Threads : op[t] # "take"

\* With the pool's operations no thread ever is.
LEMMA NoTakesStep ==
  ASSUME Ops \subseteq PoolOps, TypeOK, NoTakes, [Next]_vars PROVE NoTakes'
<1>1. CASE UNCHANGED vars
  BY <1>1 DEF NoTakes, vars
<1>2. ASSUME NEW t \in Threads, Call(t) PROVE NoTakes'
  BY <1>2 DEF NoTakes, Call, put, put_wait, tryTake, clear, close, set_queue_max_size, Enter,
              EnterTake, TypeOK, PoolOps, BlockingPuts, TimedTakes
<1>3. ASSUME NEW t \in Threads, Continue(t) \/ spurious(t) \/ expire(t) PROVE op' = op
  BY <1>3 DEF Continue, put_wait_resume, take_resume, tryTake_resume, tryTake_notify, Stay,
              close_notify_empty, close_notify_full, spurious, expire, calls
<1> QED
  BY <1>1, <1>2, <1>3 DEF Next, NoTakes

\* Every step of the pool's operations is such a step.
LEMMA ProducerEffects ==
  ASSUME Ops \subseteq PoolOps, TypeOK, NoTakes, [Next]_vars PROVE ProducerStep
<1> DEFINE Same(t) == \A u \in Threads \ {t} : op'[u] = op[u]
<1> USE DEF NotFullSleepers, WakingProducers, Notifiers, Up
<1>1. CASE UNCHANGED vars
  BY <1>1 DEF ProducerStep, vars, TypeOK
<1>2. ASSUME NEW t \in Threads, Same(t), pc[t] \notin {"asleep", "popped"},
             t \notin WakingProducers,
             UNCHANGED <<m_state, m_maxQueueSize, m_buffer>>,
             pc' = At(t, "idle") \/ (pc' = At(t, "asleep") /\ op'[t] \notin BlockingPuts)
      PROVE  ProducerStep
  <2>1. /\ NotFullSleepers' \subseteq NotFullSleepers
        /\ WakingProducers \subseteq WakingProducers' /\ Notifiers \subseteq Notifiers'
    BY <1>2, Zenon DEF At, TypeOK
  <2>2. Len(m_buffer') >= Len(m_buffer)
    BY <1>2 DEF TypeOK
  <2> QED
    BY <1>2, <2>1, <2>2 DEF ProducerStep
<1>3. ASSUME NEW t \in Threads, Same(t), pc[t] \in {"idle", "woken", "expired"},
             NEW x, Push(t, x)
      PROVE  ProducerStep
  <2>1. Len(m_buffer') = Len(m_buffer) + 1 /\ UNCHANGED <<m_state, m_maxQueueSize>>
    BY <1>3 DEF Push, Store, TypeOK
  <2>2. \A u \in Threads : \/ pc'[u] = At(t, "idle")[u]
                           \/ u \in NotEmptySleepers /\ pc'[u] = "woken"
    BY <1>3 DEF Push, NotifyTaker, notify_one, NotEmptySleepers, At, TypeOK
  <2>3. \A u \in NotEmptySleepers : pc[u] = "asleep" /\ op[u] \notin BlockingPuts /\ u # t
    BY <1>3 DEF NotEmptySleepers, BlockingPuts, Takes, TimedTakes
  <2>4. \A u \in Threads \ {t} : u \notin NotEmptySleepers => pc'[u] = pc[u]
    BY <2>2 DEF At, TypeOK
  <2>5. pc'[t] = "idle"
    BY <2>2, <2>3 DEF At, TypeOK
  <2>6. /\ NotFullSleepers' \subseteq NotFullSleepers
        /\ WakingProducers \ {t} \subseteq WakingProducers' /\ Notifiers \subseteq Notifiers'
    BY <1>3, <2>2, <2>3, <2>4, <2>5 DEF At, TypeOK
  <2> QED
    BY <2>1, <2>6 DEF ProducerStep
<1>4. ASSUME NEW t \in Threads, Same(t), op'[t] \notin BlockingPuts,
             pc[t] \in {"idle", "woken", "expired"}, t \notin WakingProducers, Pop(t, "popped")
      PROVE  ProducerStep
  <2>1. PICK i \in PopIndices(m_buffer) : Extract(i)
    BY <1>4 DEF Pop
  <2>2. Len(m_buffer') = Len(m_buffer) - 1 /\ UNCHANGED <<m_state, m_maxQueueSize>>
    BY <1>4, <2>1, PopIndicesInside, WithoutSeq DEF Pop, Extract, TypeOK
  <2>3. /\ NotFullSleepers' \subseteq NotFullSleepers
        /\ WakingProducers \subseteq WakingProducers'
        /\ t \in Threads \ Notifiers /\ Notifiers \cup {t} \subseteq Notifiers'
    BY <1>4 DEF Pop, At, TypeOK
  <2> QED
    BY <2>2, <2>3 DEF ProducerStep
<1>5. ASSUME NEW t \in Threads, NEW x \in Items, put(t, x) PROVE ProducerStep
  BY <1>2, <1>3, <1>5 DEF put, Enter, Return, TypeOK
<1>6. ASSUME Full \/ ~MayPut, UNCHANGED <<m_buffer, m_maxQueueSize>> PROVE ProducerStep
  BY <1>6, LenProperties, SMTT(30) DEF ProducerStep, Full, MayPut, TypeOK
<1>7. ASSUME NEW t \in Threads, NEW o \in BlockingPuts, NEW x \in Items, put_wait(t, o, x)
      PROVE  ProducerStep
  BY <1>2, <1>3, <1>6, <1>7, Zenon DEF put_wait, Enter, Return, Sleep, TypeOK
<1>8. ASSUME NEW t \in Threads, put_wait_resume(t) PROVE ProducerStep
  <2>1. CASE m_state = "closing" /\ Return(t, "closed")
    BY <2>1 DEF ProducerStep, Return
  <2> QED
    BY <1>3, <1>6, <1>8, <2>1 DEF put_wait_resume, Stay, Return, Sleep
<1>9. ASSUME NEW t \in Threads,
             tryTake_resume(t) \/ \E o \in TimedTakes : tryTake(t, o)
      PROVE  ProducerStep
  <2>1. /\ Same(t) /\ pc[t] \in {"idle", "woken", "expired"} /\ op'[t] \notin BlockingPuts
        /\ t \notin WakingProducers
    BY <1>9 DEF tryTake, tryTake_resume, EnterTake, Stay, TypeOK, TimedTakes, BlockingPuts
  <2>2. \/ Pop(t, "popped") \/ Sleep(t) \/ \E e \in Results : Return(t, e)
    BY <1>9 DEF tryTake, tryTake_resume, Results
  <2> QED
    BY <1>2, <1>4, <2>1, <2>2 DEF Sleep, Return
<1>10. ASSUME NEW t \in Threads, tryTake_notify(t) PROVE ProducerStep
  <2>1. m_buffer' = m_buffer /\ UNCHANGED <<m_state, m_maxQueueSize, op>> /\ pc[t] = "popped"
    BY <1>10 DEF tryTake_notify, calls
  <2>2. CASE NotFullSleepers = {}
    BY <1>10, <2>1, <2>2 DEF ProducerStep, tryTake_notify, notify_one, At, TypeOK
  <2>3. CASE NotFullSleepers # {}
    <3>1. PICK u \in NotFullSleepers : pc' = [At(t, "idle") EXCEPT ![u] = "woken"]
      BY <1>10, <2>3 DEF tryTake_notify, notify_one
    <3>2. /\ NotFullSleepers' \subseteq NotFullSleepers
          /\ WakingProducers \cup {u} \subseteq WakingProducers'
          /\ Notifiers \ {t} \subseteq Notifiers'
      BY <2>1, <3>1 DEF At, TypeOK
    <3> QED
      BY <2>1, <3>2 DEF ProducerStep
  <2> QED
    BY <2>2, <2>3
<1>11. ASSUME NEW t \in Threads, close_notify_empty(t) PROVE ProducerStep
  <2>1. /\ m_buffer' = m_buffer /\ UNCHANGED <<m_state, m_maxQueueSize, op>>
        /\ pc[t] = "close_1" /\ pc'[t] = "close_2"
    BY <1>11 DEF close_notify_empty, notify_all, calls, At, NotEmptySleepers, TypeOK
  <2>2. \A u \in NotEmptySleepers : pc[u] = "asleep" /\ op[u] \notin BlockingPuts
    BY DEF NotEmptySleepers, BlockingPuts, Takes, TimedTakes
  <2>3. \A u \in Threads \ {t} : IF u \in NotEmptySleepers THEN pc'[u] = "woken" ELSE pc'[u] = pc[u]
    BY <1>11 DEF close_notify_empty, notify_all, At, TypeOK
  <2>4. /\ NotFullSleepers' \subseteq NotFullSleepers
        /\ WakingProducers \subseteq WakingProducers' /\ Notifiers \subseteq Notifiers'
    BY <2>1, <2>2, <2>3
  <2>5. Len(m_buffer') >= Len(m_buffer)
    BY <2>1 DEF TypeOK
  <2> QED
    BY <2>1, <2>4, <2>5 DEF ProducerStep
<1>12. ASSUME NEW t \in Threads, close_notify_full(t) PROVE ProducerStep
  BY <1>12 DEF ProducerStep, close_notify_full, notify_all, At, calls, TypeOK
<1>13. ASSUME NEW t \in Threads, close(t) PROVE ProducerStep
  BY <1>13 DEF ProducerStep, close
<1>14. ASSUME NEW t \in Threads, spurious(t) \/ expire(t) PROVE ProducerStep
  <2>1. /\ m_buffer' = m_buffer /\ UNCHANGED <<m_state, m_maxQueueSize, op>>
        /\ pc[t] = "asleep" /\ (pc' = At(t, "woken") \/ pc' = At(t, "expired"))
    BY <1>14 DEF spurious, expire, calls
  <2>2. /\ NotFullSleepers' \subseteq NotFullSleepers
        /\ WakingProducers \subseteq WakingProducers' /\ Notifiers \subseteq Notifiers'
    BY <2>1 DEF At, TypeOK
  <2>3. Len(m_buffer') >= Len(m_buffer)
    BY <2>1 DEF TypeOK
  <2> QED
    BY <2>1, <2>2, <2>3 DEF ProducerStep
<1>15. ASSUME NEW t \in Threads, take_resume(t) PROVE FALSE
  BY <1>15 DEF take_resume, NoTakes
<1>16. {"take", "clear", "set_queue_max_size"} \cap Ops = {}
  BY DEF PoolOps
<1> QED
  BY <1>1, <1>5, <1>7, <1>8, <1>9, <1>10, <1>11, <1>12, <1>13, <1>14, <1>15, <1>16
  DEF Next, Call, Continue

\* No wake-up of a producer is lost while the queue is open, with any number of
\* threads and any bound, when only the operations of the thread pool are used:
\* take(), clear() and set_queue_max_size() do not notify m_notFull.
THEOREM ProducersAreWoken ==
  ASSUME Ops \subseteq PoolOps
  PROVE  Spec => []NoLostNotFull
<1>1. Init => NoLostNotFull /\ NoTakes
  BY DEF Init, NoLostNotFull, NotFullSleepers, NoTakes
<1>2. ASSUME TypeOK, TypeOK', NoTakes, [Next]_vars, NoLostNotFull PROVE NoLostNotFull'
  <2> DEFINE W == WakingProducers
             N == Notifiers
             n == Len(m_buffer)
  <2> SUFFICES ASSUME m_state' = "open", NotFullSleepers' # {}, m_maxQueueSize' # 0
               PROVE  m_maxQueueSize' <= n' + Cardinality(W') + Cardinality(N')
    BY DEF NoLostNotFull
  <2>1. IsFiniteSet(W) /\ IsFiniteSet(W') /\ IsFiniteSet(N) /\ IsFiniteSet(N')
    BY FS_Subset, ConstantsAssumption DEF WakingProducers, Notifiers, ConstantsAssumption
  <2>2. /\ n \in Nat /\ n' \in Nat /\ m_maxQueueSize \in Nat /\ m_maxQueueSize' \in Nat
        /\ Cardinality(W) \in Nat /\ Cardinality(W') \in Nat
        /\ Cardinality(N) \in Nat /\ Cardinality(N') \in Nat
    BY <1>2, <2>1, FS_CardinalityType, LenProperties DEF TypeOK
  <2>3. ProducerStep
    BY <1>2, ProducerEffects
  <2>4. CASE m_maxQueueSize' <= n'
    BY <2>2, <2>4
  <2>5. CASE NotFullSleepers' \subseteq NotFullSleepers /\ UNCHANGED <<m_state, m_maxQueueSize>>
    <3>1. m_maxQueueSize' <= n + Cardinality(W) + Cardinality(N)
      BY <1>2, <2>5 DEF NoLostNotFull
    <3>2. CASE n' >= n /\ W \subseteq W' /\ N \subseteq N'
      <4>1. Cardinality(W) <= Cardinality(W') /\ Cardinality(N) <= Cardinality(N')
        BY <2>1, <3>2, CountOne
      <4> QED
        BY <2>2, <3>1, <3>2, <4>1
    <3>3. CASE n' = n + 1 /\ N \subseteq N' /\ \E t \in Threads : W \ {t} \subseteq W'
      <4>1. Cardinality(W) - 1 <= Cardinality(W') /\ Cardinality(N) <= Cardinality(N')
        BY <2>1, <3>3, CountOne, Zenon
      <4> QED
        BY <2>2, <3>1, <3>3, <4>1
    <3>4. CASE n' = n - 1 /\ W \subseteq W' /\ \E t \in Threads \ N : N \cup {t} \subseteq N'
      <4>1. Cardinality(W) <= Cardinality(W') /\ Cardinality(N) + 1 <= Cardinality(N')
        BY <2>1, <3>4, CountOne
      <4> QED
        BY <2>2, <3>1, <3>4, <4>1
    <3>5. CASE /\ n' = n /\ \E t \in Threads : N \ {t} \subseteq N'
               /\ \E u \in NotFullSleepers : W \cup {u} \subseteq W'
      <4>1. \A u \in NotFullSleepers : u \notin W
        BY DEF NotFullSleepers, WakingProducers, Up
      <4>2. Cardinality(W) + 1 <= Cardinality(W') /\ Cardinality(N) - 1 <= Cardinality(N')
        BY <2>1, <3>5, <4>1, CountOne
      <4> QED
        BY <2>2, <3>1, <3>5, <4>2
    <3> QED
      BY <2>2, <2>3, <2>4, <3>2, <3>3, <3>4, <3>5 DEF ProducerStep
  <2> QED
    BY <2>3, <2>4, <2>5 DEF ProducerStep
<1> QED
  BY <1>1, <1>2, NoTakesStep, TypeCorrect, PTL DEF Spec
-----------------------------------------------------------------------------
\* close() reaches every sleeper: none is overlooked because it went to sleep
\* between the store of m_state and the two notify_all.
THEOREM CloseIsSeen == Spec => []CloseReachesSleepers
<1>1. Init => CloseReachesSleepers
  BY DEF Init, CloseReachesSleepers
<1>2. ASSUME TypeOK, [Next]_vars, CloseReachesSleepers PROVE CloseReachesSleepers'
  <2> DEFINE Same(t) == \A u \in Threads \ {t} : op'[u] = op[u]
  <2> USE DEF NotFullSleepers, NotEmptySleepers
  <2>1. CASE UNCHANGED vars
    BY <1>2, <2>1 DEF CloseReachesSleepers, vars
  <2>2. ASSUME NEW t \in Threads, Same(t), pc[t] \in {"idle", "woken", "expired", "popped"},
               m_state' = m_state, pc' \in [Threads -> Points],
               \A u \in Threads \ {t} : pc'[u] = pc[u] \/ (pc[u] = "asleep" /\ pc'[u] = "woken"),
               pc'[t] # "asleep" \/ m_state = "open" \/ op'[t] = "take"
        PROVE  CloseReachesSleepers'
    <3>1. \A u \in Threads : pc[u] \in {"close_1", "close_2"} => pc'[u] = pc[u]
      BY <2>2
    <3>2. ASSUME m_state = "closing", NEW u \in Threads, pc'[u] = "asleep", op'[u] # "take"
          PROVE  pc[u] = "asleep" /\ op[u] = op'[u]
      BY <2>2, <3>2
    <3>3. "take" \notin BlockingPuts
      BY DEF BlockingPuts
    <3> QED
      BY <1>2, <2>2, <3>1, <3>2, <3>3 DEF CloseReachesSleepers
  <2>3. ASSUME NEW t \in Threads, Sleep(t) \/ (\E e \in Results : Return(t, e)),
               Same(t), pc[t] \in {"idle", "woken", "expired"},
               Sleep(t) => m_state = "open" \/ op'[t] = "take"
        PROVE  CloseReachesSleepers'
    BY <1>2, <2>2, <2>3 DEF Sleep, Return, At, Points, TypeOK
  <2>4. ASSUME NEW t \in Threads, NEW x, Push(t, x), Same(t), pc[t] \in {"idle", "woken", "expired"}
        PROVE  CloseReachesSleepers'
    <3>1. At(t, "idle") \in [Threads -> Points] /\ NotEmptySleepers \in SUBSET Threads
      BY <1>2 DEF TypeOK, At, Points
    <3>2. /\ pc' \in [Threads -> Points]
          /\ \A u \in Threads : pc'[u] = At(t, "idle")[u] \/ (u \in NotEmptySleepers /\ pc'[u] = "woken")
      BY <2>4, <3>1, NotifyType DEF Push, NotifyTaker
    <3> QED
      BY <1>2, <2>2, <2>4, <3>2, Zenon DEF Push, At, TypeOK
  <2>5. ASSUME NEW t \in Threads, NEW p \in {"idle", "popped"}, Pop(t, p), Same(t),
               pc[t] \in {"idle", "woken", "expired"}
        PROVE  CloseReachesSleepers'
    BY <1>2, <2>2, <2>5 DEF Pop, At, Points, TypeOK
  <2>6. ASSUME NEW t \in Threads, NEW x \in Items,
               put(t, x) \/ \E o \in BlockingPuts : put_wait(t, o, x)
        PROVE  CloseReachesSleepers'
    BY <1>2, <2>3, <2>4, <2>6 DEF put, put_wait, Enter, Results, TypeOK, Sleep, Return
  <2>7. ASSUME NEW t \in Threads, put_wait_resume(t) PROVE CloseReachesSleepers'
    <3>1. Same(t) /\ pc[t] \in {"woken", "expired"}
      BY <2>7 DEF put_wait_resume, Stay
    <3>2. ~MayPut => m_state = "open"
      BY <1>2 DEF MayPut, TypeOK
    <3>3. \/ Push(t, item[t])
          \/ Sleep(t) /\ m_state = "open"
          \/ \E e \in Results : Return(t, e)
      BY <2>7, <3>2 DEF put_wait_resume, Results
    <3>4. ASSUME NEW e \in Results, Return(t, e) PROVE ~Sleep(t)
      BY <1>2, <3>4 DEF Return, Sleep, At, TypeOK
    <3> QED
      BY <2>3, <2>4, <3>1, <3>3, <3>4
  <2>8. ASSUME NEW t \in Threads,
               take(t) \/ take_resume(t) \/ tryTake_resume(t) \/ \E o \in TimedTakes : tryTake(t, o)
        PROVE  CloseReachesSleepers'
    <3>1. Same(t) /\ pc[t] \in {"idle", "woken", "expired"}
      BY <1>2, <2>8 DEF take, take_resume, tryTake, tryTake_resume, EnterTake, Stay, TypeOK
    <3>2. \/ \E p \in {"idle", "popped"} : Pop(t, p)
          \/ Sleep(t) /\ (m_state = "open" \/ op'[t] = "take")
          \/ \E e \in Results : Return(t, e)
      BY <1>2, <2>8 DEF take, take_resume, tryTake, tryTake_resume, MayTake, Results, TypeOK,
                        EnterTake, Stay
    <3>3. ASSUME NEW e \in Results, Return(t, e) PROVE ~Sleep(t)
      BY <1>2, <3>3 DEF Return, Sleep, At, TypeOK
    <3> QED
      BY <2>3, <2>5, <3>1, <3>2, <3>3
  <2>9. ASSUME NEW t \in Threads, tryTake_notify(t) PROVE CloseReachesSleepers'
    <3>1. At(t, "idle") \in [Threads -> Points] /\ NotFullSleepers \in SUBSET Threads
      BY <1>2 DEF TypeOK, At, Points
    <3>2. /\ pc' \in [Threads -> Points]
          /\ \A u \in Threads : pc'[u] = At(t, "idle")[u] \/ (u \in NotFullSleepers /\ pc'[u] = "woken")
      BY <2>9, <3>1, NotifyType DEF tryTake_notify
    <3> QED
      BY <1>2, <2>2, <2>9, <3>2, Zenon DEF tryTake_notify, calls, At, TypeOK
  <2>10. ASSUME NEW t \in Threads, close_notify_empty(t) PROVE CloseReachesSleepers'
    <3>1. NotEmptySleepers' = {} /\ pc'[t] = "close_2"
      BY <1>2, <2>10 DEF close_notify_empty, notify_all, At, calls, TypeOK
    <3> QED
      BY <3>1 DEF CloseReachesSleepers
  <2>11. ASSUME NEW t \in Threads, close_notify_full(t) PROVE CloseReachesSleepers'
    <3>1. NotFullSleepers' = {}
      BY <1>2, <2>11 DEF close_notify_full, notify_all, At, calls, TypeOK
    <3>2. UNCHANGED <<op, m_state>> /\ \A u \in Threads : pc[u] = "close_1" => pc'[u] = "close_1"
      BY <1>2, <2>11 DEF close_notify_full, notify_all, At, calls, TypeOK
    <3>3. \A u \in Threads : pc'[u] = "asleep" => pc[u] = "asleep"
      BY <1>2, <2>11 DEF close_notify_full, notify_all, At, TypeOK
    <3> QED
      BY <1>2, <3>1, <3>2, <3>3 DEF CloseReachesSleepers
  <2>12. ASSUME NEW t \in Threads, spurious(t) \/ expire(t) PROVE CloseReachesSleepers'
    <3>1. /\ UNCHANGED <<op, m_state>>
          /\ \A u \in Threads : pc'[u] = pc[u] \/ (pc[u] = "asleep" /\ pc'[u] # "asleep")
      BY <1>2, <2>12 DEF spurious, expire, calls, At, TypeOK
    <3> QED
      BY <1>2, <3>1 DEF CloseReachesSleepers
  <2>13. ASSUME NEW t \in Threads, clear(t) \/ \E k \in MaxSizes : set_queue_max_size(t, k)
         PROVE  CloseReachesSleepers'
    <3>1. UNCHANGED <<pc, m_state>> /\ Same(t) /\ pc[t] = "idle"
      BY <1>2, <2>13 DEF clear, set_queue_max_size, Enter, TypeOK
    <3> QED
      BY <1>2, <2>2, <3>1 DEF TypeOK
  <2>14. ASSUME NEW t \in Threads, close(t) PROVE CloseReachesSleepers'
    <3>1. t \in Threads /\ pc'[t] = "close_1"
      BY <1>2, <2>14 DEF close, At, TypeOK
    <3> QED
      BY <3>1 DEF CloseReachesSleepers
  <2> QED
    BY <1>2, <2>1, <2>6, <2>7, <2>8, <2>9, <2>10, <2>11, <2>12, <2>13, <2>14
    DEF Next, Call, Continue
<1> QED
  BY <1>1, <1>2, TypeCorrect, PTL DEF Spec
-----------------------------------------------------------------------------
(***************************************************************************)
(* Over a deque or a list the queue is first in, first out, and implements *)
(* FifoChannel.                                                            *)
(***************************************************************************)

\* A non-empty sequence is its first element followed by what Without leaves.
LEMMA FirstThenRest ==
  ASSUME NEW S, NEW s \in Seq(S), s # <<>>
  PROVE  s = <<s[1]>> \o Without(s, 1)
<1>1. SubSeq(s, 1, 0) = <<>>
  BY SubSeqEmpty
<1>2. SubSeq(s, 2, Len(s)) \in Seq(S)
  BY SubSeqProperties, ElementOfSeq, LenProperties
<1>3. Without(s, 1) = SubSeq(s, 2, Len(s))
  <2>1. Without(s, 1) = SubSeq(s, 1, 0) \o SubSeq(s, 2, Len(s))
    BY DEF Without
  <2> QED
    BY <1>1, <1>2, <2>1, ConcatEmptySeq
<1>4. 1 \in 1..Len(s) /\ Len(s) \in 1..Len(s)
  BY EmptySeq, LenProperties
<1>5. SubSeq(s, 1, Len(s)) = <<s[1]>> \o SubSeq(s, 1 + 1, Len(s))
  BY <1>4, SubSeqRecursiveFirst
<1> QED
  BY <1>3, <1>5, SubSeqFull

\* What a step does to the items: nothing, accept one, hand one out, drop all.
ItemStep ==
  \/ UNCHANGED <<m_buffer, accepted, left>>
  \/ /\ m_state = "open" /\ ~Full /\ UNCHANGED <<left, m_state, m_maxQueueSize>>
     /\ \E x \in Items : Store(x)
  \/ /\ m_buffer # <<>> /\ UNCHANGED <<accepted, m_state, m_maxQueueSize>>
     /\ \E i \in PopIndices(m_buffer) : Extract(i)
  \/ /\ m_buffer' = <<>> /\ left' = left \o m_buffer
     /\ UNCHANGED <<accepted, m_state, m_maxQueueSize>>

\* What a step does to the state and the bound while the items stay.
ControlStep ==
  \/ UNCHANGED <<m_state, m_maxQueueSize>>
  \/ m_state' = "closing" /\ UNCHANGED m_maxQueueSize
  \/ m_maxQueueSize' \in Nat /\ UNCHANGED m_state

\* Every step of the queue is such a step.
LEMMA ItemEffects ==
  TypeOK /\ [Next]_vars =>
    ItemStep /\ (UNCHANGED <<m_buffer, accepted, left>> => ControlStep)
<1> SUFFICES ASSUME TypeOK, [Next]_vars
             PROVE  ItemStep /\ (UNCHANGED <<m_buffer, accepted, left>> => ControlStep)
  OBVIOUS
<1> USE ConstantsAssumption DEF ConstantsAssumption
<1>1. CASE UNCHANGED vars
  BY <1>1 DEF ItemStep, ControlStep, vars
<1>2. ASSUME NEW t \in Threads, Sleep(t) \/ \E e \in Results : Return(t, e)
      PROVE  ItemStep /\ ControlStep
  BY <1>2 DEF ItemStep, ControlStep, Sleep, Return
<1>3. ASSUME NEW t \in Threads, NEW x \in Items, Push(t, x), m_state = "open", ~Full
      PROVE  ItemStep /\ ControlStep
  BY <1>3 DEF ItemStep, ControlStep, Push
<1>4. ASSUME NEW t \in Threads, NEW p, Pop(t, p) PROVE ItemStep /\ ControlStep
  BY <1>4 DEF ItemStep, ControlStep, Pop
<1>5. ASSUME NEW t \in Threads, NEW x \in Items,
             put(t, x) \/ \E o \in BlockingPuts : put_wait(t, o, x)
      PROVE  ItemStep /\ ControlStep
  BY <1>2, <1>3, <1>5 DEF put, put_wait, Results
<1>6. ASSUME NEW t \in Threads, put_wait_resume(t) PROVE ItemStep /\ ControlStep
  <2>1. item[t] \in Items
    BY <1>6 DEF TypeOK, put_wait_resume, Stay, Blocked
  <2>2. m_state = "open" /\ MayPut => ~Full
    BY LenProperties DEF TypeOK, MayPut, Full
  <2> QED
    BY <1>2, <1>3, <1>6, <2>1, <2>2, Zenon DEF put_wait_resume, Results
<1>7. ASSUME NEW t \in Threads,
             take(t) \/ take_resume(t) \/ tryTake_resume(t) \/ \E o \in TimedTakes : tryTake(t, o)
      PROVE  ItemStep /\ ControlStep
  BY <1>2, <1>4, <1>7 DEF take, take_resume, tryTake, tryTake_resume, Results
<1>8. ASSUME NEW t \in Threads,
             \/ tryTake_notify(t) \/ close_notify_empty(t) \/ close_notify_full(t)
             \/ spurious(t) \/ expire(t)
      PROVE  ItemStep /\ ControlStep
  BY <1>8 DEF ItemStep, ControlStep, tryTake_notify, close_notify_empty, close_notify_full,
              spurious, expire, calls
<1>9. ASSUME NEW t \in Threads,
             clear(t) \/ close(t) \/ \E n \in MaxSizes : set_queue_max_size(t, n)
      PROVE  ItemStep /\ ControlStep
  BY <1>9 DEF ItemStep, ControlStep, clear, close, set_queue_max_size
<1> QED
  BY <1>1, <1>5, <1>6, <1>7, <1>8, <1>9 DEF Next, Call, Continue

\* A step keeps the order of the items.
LEMMA FifoStep ==
  ASSUME TypeOK, ItemStep, Container \in {"deque", "list"}, accepted = left \o m_buffer
  PROVE  accepted' = left' \o m_buffer'
<1>1. CASE UNCHANGED <<m_buffer, accepted, left>>
  BY <1>1
<1>2. ASSUME NEW x \in Items, Store(x), left' = left PROVE accepted' = left' \o m_buffer'
  <2>1. <<x>> \in Seq(Items)
    OBVIOUS
  <2>2. accepted' = (left \o m_buffer) \o <<x>>
    BY <1>2, AppendIsConcat DEF Store, TypeOK
  <2>3. m_buffer' = m_buffer \o <<x>>
    BY <1>2, AppendIsConcat DEF Store, TypeOK
  <2> QED
    BY <1>2, <2>1, <2>2, <2>3, ConcatAssociative, SMTT(30) DEF TypeOK
<1>3. ASSUME NEW i \in PopIndices(m_buffer), Extract(i), m_buffer # <<>>, accepted' = accepted
      PROVE  accepted' = left' \o m_buffer'
  <2>1. i = 1
    BY <1>3 DEF PopIndices
  <2>2. m_buffer[1] \in Items
    BY <1>3, ElementOfSeq, EmptySeq, LenProperties DEF TypeOK
  <2>3. <<m_buffer[1]>> \in Seq(Items) /\ Without(m_buffer, 1) \in Seq(Items)
    BY <1>3, <2>2, WithoutSeq, EmptySeq, LenProperties DEF TypeOK
  <2>4. left' = left \o <<m_buffer[1]>>
    BY <1>3, <2>1, <2>2, AppendIsConcat DEF Extract, TypeOK
  <2>5. left' \o m_buffer' = left \o (<<m_buffer[1]>> \o Without(m_buffer, 1))
    BY <1>3, <2>1, <2>3, <2>4, ConcatAssociative DEF Extract, TypeOK
  <2> QED
    BY <1>3, <2>5, FirstThenRest, Zenon DEF TypeOK
<1>4. CASE m_buffer' = <<>> /\ left' = left \o m_buffer /\ accepted' = accepted
  BY <1>4, ConcatProperties, ConcatEmptySeq DEF TypeOK
<1> QED
  BY <1>1, <1>2, <1>3, <1>4, Zenon DEF ItemStep

\* Over a deque or a list, what was accepted is what left followed by what is
\* still there: no item is lost, duplicated or overtaken.
THEOREM FifoCorrect == Spec => []FifoOrder
<1>1. Init => FifoOrder
  BY DEF Init, FifoOrder
<1>2. TypeOK /\ FifoOrder /\ [Next]_vars => FifoOrder'
  BY ItemEffects, FifoStep DEF FifoOrder
<1> QED
  BY <1>1, <1>2, TypeCorrect, PTL DEF Spec

\* The queue's order and its close, for any threads, items, container and limits.
THEOREM QueueIsSafe == Spec => []QueueSafe
BY TypeCorrect, FifoCorrect, CloseIsSeen, PTL DEF QueueSafe

\* The queue over a deque or a list implements the channel: it sends only while
\* open and into a free slot, receives in order, and never opens again.
THEOREM QueueImplementsChannel ==
  ASSUME Container \in {"deque", "list"}
  PROVE  Spec => ImplementsChannel
<1> USE ConstantsAssumption DEF ConstantsAssumption
<1>1. Init => Channel!Init
  BY DEF Init, Channel!Init
<1>2. ASSUME TypeOK, FifoOrder, [Next]_vars
      PROVE  [Channel!Next]_(Channel!vars)
  <2>1. ItemStep /\ (UNCHANGED <<m_buffer, accepted, left>> => ControlStep)
    BY <1>2, ItemEffects
  <2>2. accepted = left \o m_buffer
    BY <1>2 DEF FifoOrder
  <2>3. Channel!Pending = Len(m_buffer)
    BY <1>2, <2>2, ConcatProperties, LenProperties DEF Channel!Pending, TypeOK
  <2>4. CASE UNCHANGED <<m_buffer, accepted, left>> /\ ControlStep
    BY <1>2, <2>4 DEF ControlStep, Channel!Next, Channel!Shut, Channel!Resize, Channel!vars, TypeOK
  <2>5. ASSUME NEW x \in Items, Store(x), m_state = "open", ~Full,
               UNCHANGED <<left, m_state, m_maxQueueSize>>
        PROVE  Channel!Next
    BY <1>2, <2>3, <2>5, LenProperties, SMTT(30) DEF Channel!Next, Channel!Send, Store, Full, TypeOK
  <2>6. ASSUME NEW i \in PopIndices(m_buffer), Extract(i), m_buffer # <<>>,
               UNCHANGED <<accepted, m_state, m_maxQueueSize>>
        PROVE  Channel!Next
    <3>1. i = 1
      BY <2>6 DEF PopIndices
    <3>2. Len(m_buffer) > 0
      BY <1>2, <2>6, EmptySeq, LenProperties DEF TypeOK
    <3>3. accepted[Len(left) + 1] = m_buffer[1]
      <4>1. left \in Seq(Items) /\ m_buffer \in Seq(Items)
        BY <1>2 DEF TypeOK
      <4>2. Len(left) \in Nat /\ Len(m_buffer) \in Nat
        BY <4>1, LenProperties
      <4>3. Len(left) + 1 \in 1..(Len(left) + Len(m_buffer)) /\ ~(Len(left) + 1 <= Len(left))
            /\ (Len(left) + 1) - Len(left) = 1
        BY <3>2, <4>2
      <4>4. (left \o m_buffer)[Len(left) + 1] = m_buffer[(Len(left) + 1) - Len(left)]
        BY <4>1, <4>3, ConcatProperties
      <4> QED BY <2>2, <4>3, <4>4
    <3> QED
      BY <2>3, <2>6, <3>1, <3>2, <3>3 DEF Channel!Next, Channel!Receive, Extract
  <2>7. CASE left' = left \o m_buffer /\ UNCHANGED <<accepted, m_state, m_maxQueueSize>>
    BY <2>2, <2>7 DEF Channel!Next, Channel!Discard
  <2> QED
    BY <2>1, <2>4, <2>5, <2>6, <2>7 DEF ItemStep
<1> QED
  BY <1>1, <1>2, TypeCorrect, FifoCorrect, PTL DEF Spec, ImplementsChannel, Channel!Spec
-----------------------------------------------------------------------------
\* The elements of a sequence are the removed one and those Without leaves.
LEMMA WithoutRange ==
  ASSUME NEW S, NEW s \in Seq(S), NEW i \in 1..Len(s)
  PROVE  Range(s) = {s[i]} \cup Range(Without(s, i))
<1> DEFINE a == SubSeq(s, 1, i - 1)
           b == SubSeq(s, i + 1, Len(s))
<1>1. a \in Seq(S) /\ Len(a) = i - 1 /\ \A k \in 1..(i - 1) : a[k] = s[k]
  BY SubSeqProperties, ElementOfSeq, LenProperties
<1>2. b \in Seq(S) /\ Len(b) = Len(s) - i /\ \A k \in 1..(Len(s) - i) : b[k] = s[i + k]
  BY SubSeqProperties, ElementOfSeq, LenProperties
<1>3. Without(s, i) = a \o b
  BY DEF Without
<1> HIDE DEF a, b
<1>4. Range(Without(s, i)) = Range(a) \cup Range(b)
  BY <1>1, <1>2, <1>3, RangeConcatenation
<1>5. /\ Range(s) = {s[k] : k \in 1..Len(s)}
      /\ Range(a) = {a[k] : k \in 1..Len(a)}
      /\ Range(b) = {b[k] : k \in 1..Len(b)}
  BY <1>1, <1>2, RangeEquality, SMTT(30)
<1>6. Range(a) \subseteq Range(s) /\ Range(b) \subseteq Range(s) /\ s[i] \in Range(s)
  <2>0. Len(s) \in Nat /\ i \in 1..Len(s)
    BY LenProperties
  <2>1. \A k \in 1..Len(a) : k \in 1..Len(s) /\ a[k] = s[k]
    BY <1>1, <2>0
  <2>2. \A k \in 1..Len(b) : i + k \in 1..Len(s) /\ b[k] = s[i + k]
    BY <1>2, <2>0
  <2>3. Range(a) \subseteq Range(s)
    BY <1>5, <2>1
  <2>4. Range(b) \subseteq Range(s)
    BY <1>5, <2>2
  <2> QED BY <1>5, <2>0, <2>3, <2>4
<1>7. ASSUME NEW k \in 1..Len(s), k # i PROVE s[k] \in Range(a) \cup Range(b)
  <2>1. CASE k < i
    BY <1>1, <1>5, <2>1
  <2>2. CASE k > i
    <3>1. k - i \in 1..(Len(s) - i) /\ i + (k - i) = k
      BY <2>2, LenProperties
    <3>2. b[k - i] = s[k] /\ k - i \in 1..Len(b)
      BY <1>2, <3>1
    <3> QED BY <1>5, <3>2
  <2> QED BY <1>7, <2>1, <2>2
<1> QED BY <1>4, <1>5, <1>6, <1>7

\* One more element.
LEMMA AppendRange ==
  ASSUME NEW S, NEW s \in Seq(S), NEW x \in S
  PROVE  Range(Append(s, x)) = Range(s) \cup {x} /\ Len(Append(s, x)) = Len(s) + 1
<1>1. Append(s, x) = s \o <<x>> /\ <<x>> \in Seq(S) /\ Len(<<x>>) = 1
  BY AppendIsConcat
<1>2. Range(<<x>>) = {<<x>>[k] : k \in 1..1}
  BY <1>1, RangeEquality
<1>3. Range(<<x>>) = {x}
  BY <1>2
<1>4. Range(s \o <<x>>) = Range(s) \cup Range(<<x>>)
  BY <1>1, RangeConcatenation, SMTT(30)
<1>5. Len(Append(s, x)) = Len(s) + 1
  BY AppendProperties
<1> QED BY <1>1, <1>3, <1>4, <1>5

\* Whatever the container takes out first, a step keeps what was accepted and what left
\* or is still there the same.
LEMMA ConservationStep ==
  ASSUME TypeOK, ItemStep, Conservation
  PROVE  Conservation'
<1> USE ConstantsAssumption DEF ConstantsAssumption
<1>0. /\ Len(accepted) = Len(left) + Len(m_buffer)
      /\ Range(accepted) = Range(left) \cup Range(m_buffer)
      /\ accepted \in Seq(Items) /\ left \in Seq(Items) /\ m_buffer \in Seq(Items)
      /\ Len(accepted) \in Nat /\ Len(left) \in Nat /\ Len(m_buffer) \in Nat
  BY LenProperties DEF Conservation, TypeOK
<1>1. CASE UNCHANGED <<m_buffer, accepted, left>>
  BY <1>0, <1>1 DEF Conservation
<1>2. ASSUME NEW x \in Items, Store(x), left' = left PROVE Conservation'
  <2>1. /\ Range(accepted') = Range(accepted) \cup {x} /\ Len(accepted') = Len(accepted) + 1
        /\ Range(m_buffer') = Range(m_buffer) \cup {x} /\ Len(m_buffer') = Len(m_buffer) + 1
    BY <1>0, <1>2, AppendRange DEF Store
  <2> QED BY <1>0, <1>2, <2>1 DEF Conservation
<1>3. ASSUME NEW i \in PopIndices(m_buffer), Extract(i), m_buffer # <<>>, accepted' = accepted
      PROVE  Conservation'
  <2>1. i \in 1..Len(m_buffer) /\ m_buffer[i] \in Items
    BY <1>0, <1>3, PopIndicesInside, ElementOfSeq
  <2>2. /\ Range(left') = Range(left) \cup {m_buffer[i]} /\ Len(left') = Len(left) + 1
        /\ Range(m_buffer) = {m_buffer[i]} \cup Range(m_buffer')
        /\ Len(m_buffer') = Len(m_buffer) - 1
    <3>1. left' = Append(left, m_buffer[i]) /\ m_buffer' = Without(m_buffer, i)
      BY <1>3 DEF Extract
    <3>2. /\ Range(Append(left, m_buffer[i])) = Range(left) \cup {m_buffer[i]}
          /\ Len(Append(left, m_buffer[i])) = Len(left) + 1
      BY <1>0, <2>1, AppendRange
    <3>3. /\ Range(m_buffer) = {m_buffer[i]} \cup Range(Without(m_buffer, i))
          /\ Len(Without(m_buffer, i)) = Len(m_buffer) - 1
      BY <1>0, <2>1, WithoutRange, WithoutSeq
    <3> QED BY <3>1, <3>2, <3>3, Zenon
  <2>3. Len(accepted') = Len(left') + Len(m_buffer')
    BY <1>0, <1>3, <2>2, SMTT(30)
  <2>4. Range(accepted') = Range(left') \cup Range(m_buffer')
    BY <1>0, <1>3, <2>2, Zenon
  <2> QED BY <2>3, <2>4 DEF Conservation
<1>4. CASE m_buffer' = <<>> /\ left' = left \o m_buffer /\ accepted' = accepted
  <2>1. Range(left') = Range(left) \cup Range(m_buffer) /\ Len(left') = Len(left) + Len(m_buffer)
    BY <1>0, <1>4, RangeConcatenation, ConcatProperties
  <2>2. Range(m_buffer') = {} /\ Len(m_buffer') = 0
    BY <1>4 DEF Range
  <2> QED BY <1>0, <1>4, <2>1, <2>2 DEF Conservation
<1> QED
  BY <1>1, <1>2, <1>3, <1>4, Zenon DEF ItemStep

\* No container loses, duplicates or invents an item, whichever of them pop takes first.
THEOREM NothingLost == Spec => []Conservation
<1>1. Init => Conservation
  BY DEF Init, Conservation, Range
<1>2. TypeOK /\ Conservation /\ [Next]_vars => Conservation'
  BY ItemEffects, ConservationStep, Zenon
<1> QED
  BY <1>1, <1>2, TypeCorrect, PTL DEF Spec
=============================================================================
