--------------------------- MODULE ThreadPoolSteps ---------------------------
(***************************************************************************)
(* The inductive invariant of ThreadPool, and that the steps inside the    *)
(* queue, the construction, shutdown, join and the periodic threads keep   *)
(* it.  ThreadPoolProofs does the steps that move tasks and draws the      *)
(* conclusions.                                                            *)
(***************************************************************************)
EXTENDS ThreadPool, TLAPS


\* Places inside a call that user code made.
CallPlaces == {"enqueue", "queued", "shutdown", "close", "closing", "join_lock", "join_loop"}
Places ==
  CallPlaces \cup {"ctor", "outside", "idle", "threw", "unborn", "exited", "loop", "taking",
                   "body", "p_check", "p_lock", "p_asleep", "p_woken", "p_expired",
                   "p_recheck", "p_run", "p_body"}

\* Where a periodic thread never is once it ran late: the next test stops it.
BeforeRun == {"unborn", "p_lock", "p_asleep", "p_woken", "p_expired", "p_recheck", "p_run"}

Types ==
  /\ m_poolState \in {"running", "stopping", "stopped"}
  /\ m_mtx \subseteq Threads /\ m_joinMtx \subseteq Threads
  /\ at \in [Threads -> Places]
  /\ arg \in [Threads -> Tasks \cup {0}]
  /\ frames \in [Threads -> Seq(Tasks)]
  /\ next \in [Threads -> Nat]
  /\ told \in [Tasks -> Rejections \cup {"nothing", "accepted", "inline"}]
  /\ runs \in [Tasks -> Nat]
  /\ late \in [Periodics -> Nat]
  /\ m_activeWorkers \in Seq(Workers)
  /\ m_periodicWorkers \in Seq(Periodics)

Unaccepted == {"closed", "full", "timeout"}

\* The queue's variables, as far as the pool relies on them.
QueueTypes ==
  /\ m_buffer \in Seq(Tasks) /\ accepted \in Seq(Tasks)
  /\ m_state \in {"open", "closing"}
  /\ op \in [Threads -> Queue!OpNames]
  /\ pc \in [Threads -> Queue!Points]
  /\ item \in [Threads -> Tasks \cup {0}]
  /\ erc \in [Threads -> Queue!Results]

\* A thread's place in the pool and its place in the queue agree.
AgreeAt(t) ==
  /\ at[t] = "queued" =>
       /\ item[t] = arg[t] /\ op[t] \in {"put", "put_wait", "put_wait_for"}
       /\ \/ pc[t] = "idle" /\ erc[t] \in Unaccepted \cup {"accepted"}
          \/ pc[t] \in Queue!Blocked /\ erc[t] = "none"
  /\ at[t] = "taking" =>
       /\ t \in Workers /\ op[t] = "tryTake"
       /\ \/ pc[t] = "idle" /\ erc[t] \in {"item", "closed", "timeout"}
          \/ pc[t] = "popped" /\ erc[t] = "item"
          \/ pc[t] \in Queue!Blocked /\ erc[t] = "none"
       /\ erc[t] = "item" => item[t] \in Tasks
  /\ at[t] = "closing" => pc[t] \in {"idle", "close_1", "close_2"}
  /\ at[t] \notin {"queued", "taking", "closing"} => pc[t] = "idle"

Agree == \A t \in Threads : AgreeAt(t)

\* Who runs tasks, and where: with the stack it has, t may be at p.
StackOf(t, p) ==
  /\ p = "body" => frames[t] # <<>>
  /\ p \in CallPlaces /\ t \in Workers => frames[t] # <<>>
  /\ p \notin CallPlaces \cup {"body", "threw"} => frames[t] = <<>>
  /\ p = "loop" => t \in Workers
  /\ p \in {"idle", "p_body"} => t \notin Workers

StackAt(t) == StackOf(t, at[t])

Stacks == \A t \in Threads : StackAt(t)

\* Stopping: m_poolState leaves "running" under m_mtx, which is held until the
\* queue is closed.
Stopping ==
  /\ \A t \in Threads : at[t] \in {"close", "closing"} => m_mtx = {t}
  /\ m_poolState = "running" =>
       /\ m_state = "open" /\ ~shutReturned
       /\ \A t \in Threads : at[t] \notin {"close", "closing", "join_lock", "join_loop"}
  /\ m_poolState # "running" => m_state = "closing" \/ \E t \in Threads : at[t] = "close"
  /\ \A t \in Threads : at[t] \in {"closing", "join_lock", "join_loop"} => m_state = "closing"
  /\ shutReturned => m_state = "closing"

\* A stopped pool has no threads; join has passed only threads that exited.
Stopped ==
  /\ m_poolState = "stopped" =>
       m_state = "closing" /\ \A t \in Workers \cup Periodics : at[t] \in {"unborn", "exited"}
  /\ \A t \in Threads : at[t] = "join_loop" =>
       \A i \in 1..Len(JoinOrder) : i < next[t] => at[JoinOrder[i]] = "exited"
  /\ Range(m_activeWorkers) = {w \in Workers : at[w] # "unborn"}
  /\ Range(m_periodicWorkers) = {p \in Periodics : at[p] # "unborn"}

\* A worker that was told the queue is closed left it empty behind.
Drained ==
  \A w \in Workers :
    at[w] = "exited" \/ (at[w] = "taking" /\ erc[w] = "closed") =>
      m_state = "closing" /\ m_buffer = <<>>

\* Until every worker was created nobody uses the pool.
Unconstructed == at[Creator] = "ctor" \/ Unborn(Workers) # {}

Construction ==
  /\ \A t \in Threads : at[t] = "ctor" => t = Creator
  /\ at[Creator] = "ctor" =>
       m_poolState = "running" /\ \A c \in Clients \ {Creator} : at[c] = "outside"
  /\ Unconstructed =>
       /\ m_buffer = <<>> /\ accepted = <<>>
       /\ \A w \in Workers :
            at[w] \in {"unborn", "loop", "taking", "exited"} /\ erc[w] # "item"
       /\ \A p \in Periodics : at[p] = "unborn"
       /\ \A c \in Clients : at[c] \notin {"enqueue", "queued", "body"} /\ frames[c] = <<>>
       /\ m_poolState = "running" =>
            \A c \in Clients : at[c] \in {"ctor", "outside", "shutdown"}

\* A periodic thread begins at most one run after a shutdown has returned.
Lateness ==
  \A p \in Periodics :
    /\ late[p] \in {0, 1}
    /\ late[p] = 1 => shutReturned /\ at[p] \notin BeforeRun

Putting(t)  == at[t] \in {"enqueue", "queued"}
Admitted(t) == at[t] = "queued" /\ erc[t] = "accepted"
Holds(w, k) == at[w] = "taking" /\ erc[w] = "item" /\ item[w] = k

\* What the submitters of tasks were told agrees with what the queue accepted.
Ledger ==
  /\ \A t \in Threads : Putting(t) => arg[t] \in Tasks /\ told[arg[t]] = "nothing"
  /\ \A t, u \in Threads : Putting(t) /\ Putting(u) /\ arg[t] = arg[u] => t = u
  /\ \A k \in Tasks : k \in Range(accepted) <=>
       told[k] = "accepted" \/ \E t \in Threads : Admitted(t) /\ arg[t] = k

\* An accepted task is in the queue, in the hands of one worker, or was started;
\* no other task was started but by its submitter.
Custody ==
  /\ IsInjective(m_buffer)
  /\ \A k \in Range(m_buffer) :
       k \in Range(accepted) /\ runs[k] = 0 /\ \A w \in Threads : ~Holds(w, k)
  /\ \A w \in Threads : \A k \in Tasks : Holds(w, k) =>
       k \in Range(accepted) /\ runs[k] = 0 /\ \A v \in Threads : Holds(v, k) => v = w
  /\ \A k \in Range(accepted) :
       k \in Range(m_buffer) \/ (\E w \in Threads : Holds(w, k)) \/ runs[k] = 1
  /\ \A k \in Tasks : k \notin Range(accepted) => runs[k] = IF told[k] = "inline" THEN 1 ELSE 0

\* A task is on one stack, once; off the workers' stacks it runs inline.
Running ==
  /\ \A t \in Threads : IsInjective(frames[t])
  /\ \A t, u \in Threads : t # u => Range(frames[t]) \cap Range(frames[u]) = {}
  /\ \A t \in Threads : \A k \in Range(frames[t]) :
       runs[k] = 1 /\ (t \notin Workers => told[k] = "inline")

\* The inductive invariant.
Inv ==
  /\ Types /\ QueueTypes /\ Agree /\ Stacks
  /\ Stopping /\ Stopped /\ Drained /\ Construction /\ Lateness
  /\ Ledger /\ Custody /\ Running
-----------------------------------------------------------------------------
\* The elements of a sequence, by their positions.
LEMMA RangeIs ==
  ASSUME NEW S, NEW s \in Seq(S)
  PROVE  /\ Len(s) \in Nat /\ DOMAIN s = 1..Len(s)
         /\ Range(s) = {s[i] : i \in 1..Len(s)} /\ Range(s) \subseteq S
         /\ IsInjective(s) <=> \A i, j \in 1..Len(s) : s[i] = s[j] => i = j
         /\ s = <<>> <=> Range(s) = {}
<1>1. Len(s) \in Nat /\ DOMAIN s = 1..Len(s) /\ \A i \in 1..Len(s) : s[i] \in S
  OBVIOUS
<1>2. s = <<>> <=> Len(s) = 0
  OBVIOUS
<1>3. Range(s) = {s[i] : i \in 1..Len(s)}
  BY <1>1 DEF Range
<1>4. IsInjective(s) <=> \A i, j \in 1..Len(s) : s[i] = s[j] => i = j
  BY <1>1 DEF IsInjective
<1>5. Range(s) = {} <=> Len(s) = 0
  BY <1>1, <1>3
<1>6. Range(s) \subseteq S
  BY <1>1, <1>3
<1> QED
  BY <1>1, <1>2, <1>3, <1>4, <1>5, <1>6, Zenon

\* One more element.
LEMMA AppendFacts ==
  ASSUME NEW S, NEW s \in Seq(S), NEW x \in S
  PROVE  /\ Append(s, x) \in Seq(S) /\ Append(s, x) # <<>>
         /\ Range(Append(s, x)) = Range(s) \cup {x}
         /\ IsInjective(s) /\ x \notin Range(s) => IsInjective(Append(s, x))
         /\ Append(s, x)[Len(Append(s, x))] = x
<1> DEFINE r == Append(s, x)
<1>1. /\ r \in Seq(S) /\ Len(r) = Len(s) + 1 /\ r[Len(s) + 1] = x
      /\ \A i \in 1..Len(s) : r[i] = s[i]
  OBVIOUS
<1> HIDE DEF r
<1>2. /\ Len(s) \in Nat /\ Range(s) = {s[i] : i \in 1..Len(s)}
      /\ IsInjective(s) <=> \A i, j \in 1..Len(s) : s[i] = s[j] => i = j
  BY RangeIs
<1>3. /\ Range(r) = {r[i] : i \in 1..Len(r)}
      /\ IsInjective(r) <=> \A i, j \in 1..Len(r) : r[i] = r[j] => i = j
      /\ r = <<>> <=> Range(r) = {}
  BY <1>1, RangeIs
<1>4. 1..Len(r) = 1..Len(s) \cup {Len(s) + 1} /\ Len(s) + 1 \notin 1..Len(s)
  BY <1>1, <1>2
<1>5. Range(r) = Range(s) \cup {x}
  BY <1>1, <1>2, <1>3, <1>4, SMTT(30)
<1>6. ASSUME IsInjective(s), x \notin Range(s) PROVE IsInjective(r)
  <2> SUFFICES ASSUME NEW i \in 1..Len(r), NEW j \in 1..Len(r), r[i] = r[j] PROVE i = j
    BY <1>3
  <2>1. CASE i \in 1..Len(s) /\ j \in 1..Len(s)
    BY <1>1, <1>2, <1>6, <2>1
  <2>2. CASE i = Len(s) + 1 /\ j \in 1..Len(s)
    BY <1>1, <1>2, <1>6, <2>2
  <2>3. CASE j = Len(s) + 1 /\ i \in 1..Len(s)
    BY <1>1, <1>2, <1>6, <2>3
  <2> QED BY <1>4, <2>1, <2>2, <2>3
<1> QED
  BY <1>1, <1>3, <1>5, <1>6 DEF r

\* One more element is one more member, and no more is said of the sequence.
LEMMA AppendRange ==
  ASSUME NEW S, NEW s \in Seq(S), NEW x \in S
  PROVE  Range(Append(s, x)) = Range(s) \cup {x}
  BY AppendFacts

\* Two sequences, one after the other.
LEMMA ConcatFacts ==
  ASSUME NEW S, NEW s \in Seq(S), NEW r \in Seq(S)
  PROVE  Range(s \o r) = Range(s) \cup Range(r)
<1> DEFINE c == s \o r
<1>1. /\ c \in Seq(S) /\ Len(c) = Len(s) + Len(r)
      /\ \A i \in 1..Len(s) : c[i] = s[i]
      /\ \A i \in 1..Len(r) : c[i + Len(s)] = r[i]
  OBVIOUS
<1> HIDE DEF c
<1>2. /\ Len(s) \in Nat /\ Range(s) = {s[i] : i \in 1..Len(s)}
      /\ Len(r) \in Nat /\ Range(r) = {r[i] : i \in 1..Len(r)}
  BY RangeIs
<1>3. Range(c) = {c[i] : i \in 1..Len(c)}
  BY <1>1, RangeIs
<1>4. Range(s) \subseteq Range(c)
  BY <1>1, <1>2, <1>3
<1>5. Range(r) \subseteq Range(c)
  <2> SUFFICES ASSUME NEW i \in 1..Len(r) PROVE r[i] \in Range(c)
    BY <1>2
  <2>1. i + Len(s) \in 1..Len(c) /\ c[i + Len(s)] = r[i]
    BY <1>1, <1>2
  <2> QED BY <1>3, <2>1
<1>6. Range(c) \subseteq Range(s) \cup Range(r)
  <2> SUFFICES ASSUME NEW i \in 1..Len(c) PROVE c[i] \in Range(s) \cup Range(r)
    BY <1>3
  <2>1. CASE i \in 1..Len(s)
    BY <1>1, <1>2, <2>1
  <2>2. CASE i \notin 1..Len(s)
    <3>1. i - Len(s) \in 1..Len(r) /\ (i - Len(s)) + Len(s) = i
      BY <1>1, <1>2, <2>2
    <3>2. c[i] = r[i - Len(s)]
      BY <1>1, <3>1
    <3> QED BY <1>2, <3>1, <3>2
  <2> QED BY <2>1, <2>2
<1> QED BY <1>4, <1>5, <1>6 DEF c

\* A sequence without its first, and without its last, element.
LEMMA SliceFacts ==
  ASSUME NEW S, NEW s \in Seq(S), s # <<>>
  PROVE  LET a == SubSeq(s, 2, Len(s))
             b == SubSeq(s, 1, Len(s) - 1)
         IN  /\ a \in Seq(S) /\ Len(a) = Len(s) - 1 /\ \A i \in 1..(Len(s) - 1) : a[i] = s[i + 1]
             /\ b \in Seq(S) /\ Len(b) = Len(s) - 1 /\ \A i \in 1..(Len(s) - 1) : b[i] = s[i]
<1> DEFINE a == SubSeq(s, 2, Len(s))
           b == SubSeq(s, 1, Len(s) - 1)
<1>1. Len(s) \in Nat \ {0} /\ \A i \in 1..Len(s) : s[i] \in S
  OBVIOUS
<1>2. 1 \in Int /\ 2 \in Int /\ Len(s) \in Int /\ Len(s) - 1 \in Int
  BY <1>1
<1>3. \A n \in Nat \ {0} : /\ (1 <= n - 1 => (n - 1) - 1 + 1 = n - 1) /\ (~(1 <= n - 1) => n - 1 = 0)
                           /\ (2 <= n => n - 2 + 1 = n - 1) /\ (~(2 <= n) => n - 1 = 0)
  OBVIOUS
<1>4. a \in Seq(S) /\ Len(a) = Len(s) - 1
  <2>1. \A i \in 2..Len(s) : s[i] \in S
    BY <1>1
  <2>2. a \in Seq(S) /\ Len(a) = IF 2 <= Len(s) THEN Len(s) - 2 + 1 ELSE 0
    BY <1>2, <2>1
  <2> HIDE DEF a
  <2> QED BY <1>1, <1>3, <2>2, Zenon
<1>5. b \in Seq(S) /\ Len(b) = Len(s) - 1
  <2>1. \A i \in 1..(Len(s) - 1) : s[i] \in S
    BY <1>1
  <2>2. b \in Seq(S) /\ Len(b) = IF 1 <= Len(s) - 1 THEN (Len(s) - 1) - 1 + 1 ELSE 0
    BY <1>2, <2>1
  <2> HIDE DEF b
  <2> QED BY <1>1, <1>3, <2>2, Zenon
<1>6. ASSUME NEW i \in 1..(Len(s) - 1) PROVE a[i] = s[i + 1] /\ b[i] = s[i]
  <2>1. i \in 1..((Len(s) - 1) - 1 + 1) /\ i \in 1..(Len(s) - 2 + 1)
    BY <1>1
  <2>2. a[i] = s[2 + i - 1] /\ b[i] = s[1 + i - 1]
    BY <1>1, <1>2, <2>1
  <2>3. 2 + i - 1 = i + 1 /\ 1 + i - 1 = i
    OBVIOUS
  <2> QED BY <2>2, <2>3
<1> HIDE DEF a, b
<1>7. /\ a \in Seq(S) /\ Len(a) = Len(s) - 1 /\ \A i \in 1..(Len(s) - 1) : a[i] = s[i + 1]
      /\ b \in Seq(S) /\ Len(b) = Len(s) - 1 /\ \A i \in 1..(Len(s) - 1) : b[i] = s[i]
  BY <1>4, <1>5, <1>6
<1> QED BY <1>7 DEF a, b

\* Dropping an end of a sequence without repetitions: from position d + 1 on, in
\* place of the element at e.
LEMMA DropFacts ==
  ASSUME NEW S, NEW s \in Seq(S), NEW r \in Seq(S), s # <<>>, NEW d \in {0, 1},
         Len(r) = Len(s) - 1, \A i \in 1..Len(r) : r[i] = s[i + d], IsInjective(s)
  PROVE  LET e == IF d = 0 THEN Len(s) ELSE 1
         IN  /\ s[e] \in S /\ s[e] \in Range(s)
             /\ Range(r) = Range(s) \ {s[e]} /\ IsInjective(r)
<1> DEFINE e == IF d = 0 THEN Len(s) ELSE 1
<1>1. /\ Len(s) \in Nat /\ Range(s) = {s[i] : i \in 1..Len(s)} /\ Range(s) \subseteq S
      /\ \A i, j \in 1..Len(s) : s[i] = s[j] => i = j
      /\ Len(s) # 0
  BY RangeIs
<1>2. /\ Len(r) \in Nat /\ Range(r) = {r[i] : i \in 1..Len(r)}
      /\ IsInjective(r) <=> \A i, j \in 1..Len(r) : r[i] = r[j] => i = j
  BY RangeIs, Zenon
<1>3. e \in 1..Len(s) /\ \A i \in 1..Len(r) : i + d \in 1..Len(s) /\ i + d # e
  BY <1>1
<1>4. \A i \in 1..Len(s) : i # e => i - d \in 1..Len(r) /\ (i - d) + d = i
  BY <1>1, <1>2
<1> HIDE DEF e
<1>5. Range(r) \subseteq Range(s) \ {s[e]}
  BY <1>1, <1>2, <1>3
<1>6. ASSUME NEW i \in 1..Len(s), i # e PROVE s[i] \in Range(r)
  <2>1. i - d \in 1..Len(r) /\ (i - d) + d = i
    BY <1>4, <1>6
  <2>2. r[i - d] = s[i]
    BY <2>1
  <2> QED BY <1>2, <2>1, <2>2
<1>7. IsInjective(r)
  <2> SUFFICES ASSUME NEW i \in 1..Len(r), NEW j \in 1..Len(r), r[i] = r[j] PROVE i = j
    BY <1>2
  <2>1. i + d = j + d
    BY <1>1, <1>3
  <2> QED BY <2>1
<1>8. s[e] \in S /\ s[e] \in Range(s) /\ Range(r) = Range(s) \ {s[e]} /\ IsInjective(r)
  BY <1>1, <1>3, <1>5, <1>6, <1>7
<1> QED BY <1>8 DEF e

\* The queue's pop, from the front.
LEMMA PopFacts ==
  ASSUME NEW S, NEW s \in Seq(S), s # <<>>
  PROVE  /\ Queue!Without(s, 1) \in Seq(S) /\ s[1] \in S
         /\ IsInjective(s) => /\ s[1] \in Range(s)
                              /\ Range(Queue!Without(s, 1)) = Range(s) \ {s[1]}
                              /\ IsInjective(Queue!Without(s, 1))
<1>1. Len(s) \in Nat \ {0} /\ \A i \in 1..Len(s) : s[i] \in S
  OBVIOUS
<1> DEFINE a == SubSeq(s, 1, 0)
           r == SubSeq(s, 2, Len(s))
<1>2. a = <<>>
  BY <1>1
<1>3. r \in Seq(S) /\ Len(r) = Len(s) - 1 /\ \A i \in 1..(Len(s) - 1) : r[i] = s[i + 1]
  BY <1>1, SliceFacts
<1>4. Queue!Without(s, 1) = a \o r
  BY DEF Queue!Without
<1> HIDE DEF a, r
<1>5. Queue!Without(s, 1) = r
  BY <1>2, <1>3, <1>4
<1>6. ASSUME IsInjective(s)
      PROVE  s[1] \in Range(s) /\ Range(r) = Range(s) \ {s[1]} /\ IsInjective(r)
  BY <1>3, <1>6, DropFacts
<1> QED
  BY <1>1, <1>3, <1>5, <1>6

\* What a thread goes on with when its innermost task returns.
LEMMA OuterFacts ==
  ASSUME NEW s \in Seq(Tasks), s # <<>>
  PROVE  LET r == SubSeq(s, 1, Len(s) - 1)
         IN  /\ r \in Seq(Tasks) /\ s[Len(s)] \in Tasks
             /\ IsInjective(s) => /\ s[Len(s)] \in Range(s)
                                  /\ Range(r) = Range(s) \ {s[Len(s)]} /\ IsInjective(r)
<1>1. Len(s) \in Nat \ {0} /\ \A i \in 1..Len(s) : s[i] \in Tasks
  OBVIOUS
<1> DEFINE r == SubSeq(s, 1, Len(s) - 1)
<1>2. r \in Seq(Tasks) /\ Len(r) = Len(s) - 1 /\ \A i \in 1..(Len(s) - 1) : r[i] = s[i]
  BY <1>1, SliceFacts
<1> HIDE DEF r
<1>3. ASSUME IsInjective(s)
      PROVE  s[Len(s)] \in Range(s) /\ Range(r) = Range(s) \ {s[Len(s)]} /\ IsInjective(r)
  <2>1. \A i \in 1..Len(r) : r[i] = s[i + 0]
    BY <1>1, <1>2
  <2> QED BY <1>2, <1>3, <2>1, DropFacts
<1>4. r \in Seq(Tasks) /\ s[Len(s)] \in Tasks
  BY <1>1, <1>2
<1> QED
  BY <1>3, <1>4 DEF r
-----------------------------------------------------------------------------
\* What a step of t in the queue leaves alone.
Elsewhere(t) ==
  /\ \A u \in Threads \ {t} :
       /\ op'[u] = op[u] /\ item'[u] = item[u] /\ erc'[u] = erc[u]
       /\ pc'[u] = pc[u] \/ (pc[u] = "asleep" /\ pc'[u] = "woken")
  /\ UNCHANGED <<policy, m_poolState, locks, threads, arg, frames, terminated, history>>

\* What such a step does to the container, and where it leaves t.
Stores(t) ==
  /\ m_state = "open" /\ m_state' = m_state /\ pc'[t] = "idle" /\ erc'[t] = "accepted"
  /\ m_buffer' = Append(m_buffer, arg[t]) /\ accepted' = Append(accepted, arg[t])

Removes(t) ==
  /\ m_buffer # <<>> /\ m_state' = m_state /\ pc'[t] = "popped" /\ erc'[t] = "item"
  /\ item'[t] = m_buffer[1] /\ m_buffer' = Queue!Without(m_buffer, 1) /\ accepted' = accepted

Idles(t) ==
  /\ m_buffer' = m_buffer /\ accepted' = accepted /\ m_state' = m_state
  /\ \/ pc'[t] = "asleep" /\ erc'[t] = "none"
     \/ pc'[t] = "idle" /\ erc'[t] = "closed" /\ m_state = "closing"
     \/ pc'[t] = "idle" /\ erc'[t] \in {"full", "timeout"}

\* The kinds of steps the pool takes in the queue.
PutStep(t) ==
  /\ at[t] \in {"enqueue", "queued"} /\ (at[t] = "queued" => erc[t] = "none")
  /\ at' = [at EXCEPT ![t] = "queued"] /\ Elsewhere(t)
  /\ item'[t] = arg[t] /\ op'[t] \in {"put", "put_wait", "put_wait_for"}
  /\ Stores(t) \/ Idles(t)

TakeStep(t) ==
  /\ t \in Workers /\ at[t] \in {"loop", "taking"} /\ (at[t] = "taking" => erc[t] = "none")
  /\ at' = [at EXCEPT ![t] = "taking"] /\ Elsewhere(t)
  /\ op'[t] = "tryTake"
  /\ \/ Removes(t)
     \/ Idles(t) /\ erc'[t] # "full" /\ (erc'[t] = "closed" => m_buffer = <<>>)

CloseStep(t) ==
  /\ at[t] = "close" /\ at' = [at EXCEPT ![t] = "closing"] /\ Elsewhere(t)
  /\ m_buffer' = m_buffer /\ accepted' = accepted
  /\ m_state' = "closing" /\ pc'[t] = "close_1" /\ erc'[t] = erc[t]

MoveStep(t) ==
  /\ at' = at /\ Elsewhere(t)
  /\ m_buffer' = m_buffer /\ accepted' = accepted /\ m_state' = m_state
  /\ op' = op /\ item' = item /\ erc' = erc
  /\ \/ pc[t] = "popped" /\ pc'[t] = "idle"
     \/ pc[t] = "close_1" /\ pc'[t] = "close_2"
     \/ pc[t] = "close_2" /\ pc'[t] = "idle"
     \/ pc[t] = "asleep" /\ pc'[t] \in {"woken", "expired"}

QueueStep(t) == QueueTypes' /\ (PutStep(t) \/ TakeStep(t) \/ CloseStep(t) \/ MoveStep(t))

\* The steps of Next that are steps in the queue.
InQueue(t) ==
  \/ put_enqueue(t) \/ (t \in Workers /\ worker_take(t)) \/ shutdown_close(t)
  \/ QueueContinue(t) \/ QueueExpire(t) \/ QueueSpurious(t)

\* Notifying moves sleepers only.
LEMMA Notified ==
  ASSUME NEW S \in SUBSET {u \in Threads : pc[u] = "asleep"}, NEW t \in Threads, pc[t] # "asleep",
         pc \in [Threads -> Queue!Points], NEW p \in Queue!Points,
         Queue!notify_one(S, Queue!At(t, p)) \/ Queue!notify_all(S, Queue!At(t, p))
  PROVE  /\ pc' \in [Threads -> Queue!Points] /\ pc'[t] = p
         /\ \A u \in Threads \ {t} : pc'[u] = pc[u] \/ (pc[u] = "asleep" /\ pc'[u] = "woken")
BY DEF Queue!notify_one, Queue!notify_all, Queue!At, Queue!Points

\* What the parts of the queue's operations do.
LEMMA QueueParts ==
  ASSUME QueueTypes, NEW t \in Threads, NEW x \in Tasks \cup {0}, Types
  PROVE  /\ \A o \in Queue!OpNames : Queue!Enter(t, o, x) =>
              /\ op' \in [Threads -> Queue!OpNames] /\ item' \in [Threads -> Tasks \cup {0}]
              /\ op'[t] = o /\ item'[t] = x /\ pc[t] = "idle"
              /\ \A u \in Threads \ {t} : op'[u] = op[u] /\ item'[u] = item[u]
         /\ \A e \in Queue!Results : Queue!Return(t, e) =>
              /\ pc' \in [Threads -> Queue!Points] /\ erc' \in [Threads -> Queue!Results]
              /\ pc'[t] = "idle" /\ erc'[t] = e
              /\ \A u \in Threads \ {t} : pc'[u] = pc[u] /\ erc'[u] = erc[u]
              /\ m_buffer' = m_buffer /\ accepted' = accepted /\ m_state' = m_state
         /\ Queue!Sleep(t) =>
              /\ pc' \in [Threads -> Queue!Points] /\ erc' \in [Threads -> Queue!Results]
              /\ pc'[t] = "asleep" /\ erc'[t] = "none"
              /\ \A u \in Threads \ {t} : pc'[u] = pc[u] /\ erc'[u] = erc[u]
              /\ m_buffer' = m_buffer /\ accepted' = accepted /\ m_state' = m_state
         /\ Queue!Push(t, x) /\ pc[t] # "asleep" =>
              /\ pc' \in [Threads -> Queue!Points] /\ erc' \in [Threads -> Queue!Results]
              /\ pc'[t] = "idle" /\ erc'[t] = "accepted"
              /\ \A u \in Threads \ {t} : erc'[u] = erc[u]
              /\ \A u \in Threads \ {t} : pc'[u] = pc[u] \/ (pc[u] = "asleep" /\ pc'[u] = "woken")
              /\ m_buffer' = Append(m_buffer, x) /\ accepted' = Append(accepted, x)
              /\ m_state' = m_state
         /\ Queue!Pop(t, "popped") =>
              /\ pc' \in [Threads -> Queue!Points] /\ erc' \in [Threads -> Queue!Results]
              /\ item' \in [Threads -> Tasks \cup {0}]
              /\ \A u \in Threads \ {t} : pc'[u] = pc[u] /\ erc'[u] = erc[u] /\ item'[u] = item[u]
              /\ m_buffer' \in Seq(Tasks) /\ Removes(t)
<1>1. ASSUME NEW o \in Queue!OpNames, Queue!Enter(t, o, x)
      PROVE  /\ op' \in [Threads -> Queue!OpNames] /\ item' \in [Threads -> Tasks \cup {0}]
             /\ op'[t] = o /\ item'[t] = x /\ pc[t] = "idle"
             /\ \A u \in Threads \ {t} : op'[u] = op[u] /\ item'[u] = item[u]
  BY <1>1 DEF QueueTypes, Queue!Enter
<1>2. ASSUME NEW e \in Queue!Results, Queue!Return(t, e)
      PROVE  /\ pc' \in [Threads -> Queue!Points] /\ erc' \in [Threads -> Queue!Results]
             /\ pc'[t] = "idle" /\ erc'[t] = e
             /\ \A u \in Threads \ {t} : pc'[u] = pc[u] /\ erc'[u] = erc[u]
             /\ m_buffer' = m_buffer /\ accepted' = accepted /\ m_state' = m_state
  BY <1>2 DEF QueueTypes, Queue!Return, Queue!At, Queue!Points
<1>3. ASSUME Queue!Sleep(t)
      PROVE  /\ pc' \in [Threads -> Queue!Points] /\ erc' \in [Threads -> Queue!Results]
             /\ pc'[t] = "asleep" /\ erc'[t] = "none"
             /\ \A u \in Threads \ {t} : pc'[u] = pc[u] /\ erc'[u] = erc[u]
             /\ m_buffer' = m_buffer /\ accepted' = accepted /\ m_state' = m_state
  BY <1>3 DEF QueueTypes, Queue!Sleep, Queue!At, Queue!Points, Queue!Results
<1>4. ASSUME Queue!Push(t, x), pc[t] # "asleep"
      PROVE  /\ pc' \in [Threads -> Queue!Points] /\ erc' \in [Threads -> Queue!Results]
             /\ pc'[t] = "idle" /\ erc'[t] = "accepted"
             /\ \A u \in Threads \ {t} : erc'[u] = erc[u]
             /\ \A u \in Threads \ {t} : pc'[u] = pc[u] \/ (pc[u] = "asleep" /\ pc'[u] = "woken")
             /\ m_buffer' = Append(m_buffer, x) /\ accepted' = Append(accepted, x)
             /\ m_state' = m_state
  <2>1. Queue!NotEmptySleepers \in SUBSET {u \in Threads : pc[u] = "asleep"} /\ "idle" \in Queue!Points
    BY DEF Queue!NotEmptySleepers, Queue!Points
  <2>2. Queue!notify_one(Queue!NotEmptySleepers, Queue!At(t, "idle"))
    BY <1>4 DEF Queue!Push, Queue!NotifyTaker
  <2>3. /\ pc' \in [Threads -> Queue!Points] /\ pc'[t] = "idle"
        /\ \A u \in Threads \ {t} : pc'[u] = pc[u] \/ (pc[u] = "asleep" /\ pc'[u] = "woken")
    BY <1>4, <2>1, <2>2, Notified, Zenon DEF QueueTypes
  <2> QED
    BY <1>4, <2>3, Zenon DEF QueueTypes, Queue!Push, Queue!Store, Queue!Results
<1>5. ASSUME Queue!Pop(t, "popped")
      PROVE  /\ pc' \in [Threads -> Queue!Points] /\ erc' \in [Threads -> Queue!Results]
             /\ item' \in [Threads -> Tasks \cup {0}]
             /\ \A u \in Threads \ {t} : pc'[u] = pc[u] /\ erc'[u] = erc[u] /\ item'[u] = item[u]
             /\ m_buffer' \in Seq(Tasks) /\ Removes(t)
  <2>1. Queue!PopIndices(m_buffer) = {1}
    BY DEF Queue!PopIndices
  <2>2. Queue!Extract(1) /\ item' = [item EXCEPT ![t] = m_buffer[1]]
    BY <1>5, <2>1, Zenon DEF Queue!Pop
  <2>3. m_buffer[1] \in Tasks /\ Queue!Without(m_buffer, 1) \in Seq(Tasks)
    BY <1>5, PopFacts DEF Queue!Pop, QueueTypes
  <2>4. m_buffer' = Queue!Without(m_buffer, 1)
    BY <2>2 DEF Queue!Extract
  <2> QED
    BY <1>5, <2>2, <2>3, <2>4
    DEF QueueTypes, Queue!Pop, Queue!At, Queue!Points, Queue!Results, Removes
<1> QED
  BY <1>1, <1>2, <1>3, <1>4, <1>5, Zenon

\* What QueueSteps needs of the invariant.
Callers == Types /\ QueueTypes /\ Agree /\ \A t \in Threads : Putting(t) => arg[t] \in Tasks

\* A put that starts, and a put that goes on after its wait.
LEMMA PutSteps ==
  ASSUME Callers, NEW t \in Threads, put_enqueue(t) \/ (QueueContinue(t) /\ Queue!put_wait_resume(t))
  PROVE  QueueStep(t)
<1> DEFINE x == arg[t]
<1>   x \in Tasks /\ x \in Tasks \cup {0} /\ at \in [Threads -> Places] /\ QueueTypes /\ Types
  <2>1. Putting(t)
    <3>1. CASE put_enqueue(t)
      BY <3>1 DEF put_enqueue, Putting
    <3>2. CASE Queue!put_wait_resume(t)
      BY <3>2 DEF Callers, Agree, AgreeAt, Putting, Queue!put_wait_resume, Queue!Stay, Queue!BlockingPuts, Queue!Blocked
    <3> QED BY <3>1, <3>2
  <2> QED BY <2>1 DEF Callers, Types
<1> HIDE DEF x
<1>1. ASSUME at' = [at EXCEPT ![t] = "queued"], at[t] \in {"enqueue", "queued"},
             at[t] = "queued" => erc[t] = "none",
             UNCHANGED <<policy, m_poolState, locks, threads, arg, frames, terminated, history>>,
             op' \in [Threads -> Queue!OpNames], item' \in [Threads -> Tasks \cup {0}],
             op'[t] \in {"put", "put_wait", "put_wait_for"}, item'[t] = x, pc[t] # "asleep",
             \A u \in Threads \ {t} : op'[u] = op[u] /\ item'[u] = item[u]
      PROVE  /\ m_state = "closing" /\ Queue!Return(t, "closed") => QueueStep(t)
             /\ Queue!Return(t, "full") \/ Queue!Return(t, "timeout") => QueueStep(t)
             /\ Queue!Sleep(t) => QueueStep(t)
             /\ m_state = "open" /\ Queue!Push(t, x) => QueueStep(t)
  <2>1. ASSUME m_state = "closing", Queue!Return(t, "closed") PROVE QueueStep(t)
    BY <1>1, <2>1, QueueParts, SMTT(30) DEF Queue!Results, QueueStep, QueueTypes, PutStep, Elsewhere, Idles, x
  <2>2. ASSUME NEW e \in {"full", "timeout"}, Queue!Return(t, e) PROVE QueueStep(t)
    BY <1>1, <2>2, QueueParts, SMTT(30) DEF Queue!Results, QueueStep, QueueTypes, PutStep, Elsewhere, Idles, x
  <2>3. ASSUME Queue!Sleep(t) PROVE QueueStep(t)
    BY <1>1, <2>3, QueueParts DEF QueueStep, QueueTypes, PutStep, Elsewhere, Idles, x
  <2>4. ASSUME m_state = "open", Queue!Push(t, x) PROVE QueueStep(t)
    <3>1. /\ pc' \in [Threads -> Queue!Points] /\ erc' \in [Threads -> Queue!Results]
          /\ pc'[t] = "idle" /\ erc'[t] = "accepted"
          /\ \A u \in Threads \ {t} : erc'[u] = erc[u]
          /\ \A u \in Threads \ {t} : pc'[u] = pc[u] \/ (pc[u] = "asleep" /\ pc'[u] = "woken")
          /\ m_buffer' = Append(m_buffer, x) /\ accepted' = Append(accepted, x)
          /\ m_state' = m_state
      BY <1>1, <2>4, QueueParts
    <3>2. m_buffer' \in Seq(Tasks) /\ accepted' \in Seq(Tasks)
      BY <3>1 DEF QueueTypes
    <3> QED
      BY <1>1, <2>4, <3>1, <3>2, Zenon DEF QueueStep, QueueTypes, PutStep, Elsewhere, Stores, x
  <2> QED
    BY <2>1, <2>2, <2>3, <2>4
<1>2. CASE put_enqueue(t)
  <2>1. /\ at' = [at EXCEPT ![t] = "queued"] /\ at[t] = "enqueue"
        /\ UNCHANGED <<policy, m_poolState, locks, threads, arg, frames, terminated, history>>
    BY <1>2 DEF put_enqueue, Goto
  <2>2. PICK o \in {"put", "put_wait", "put_wait_for"} :
           /\ Queue!Enter(t, o, x)
           /\ \/ m_state # "open" /\ Queue!Return(t, "closed")
              \/ m_state = "open" /\ (Queue!Return(t, "full") \/ Queue!Sleep(t) \/ Queue!Push(t, x))
    BY <1>2, Zenon DEF put_enqueue, Queue!put, Queue!put_wait, x
  <2>3. o \in Queue!OpNames /\ m_state \in {"open", "closing"}
    BY DEF Queue!OpNames, Queue!BlockingPuts, QueueTypes
  <2>4. /\ op' \in [Threads -> Queue!OpNames] /\ item' \in [Threads -> Tasks \cup {0}]
        /\ op'[t] = o /\ item'[t] = x /\ pc[t] = "idle"
        /\ \A u \in Threads \ {t} : op'[u] = op[u] /\ item'[u] = item[u]
    BY <2>2, <2>3, QueueParts
  <2> QED
    BY <1>1, <2>1, <2>2, <2>3, <2>4, Zenon
<1>3. CASE QueueContinue(t) /\ Queue!put_wait_resume(t)
  <2>1. /\ op[t] \in {"put_wait", "put_wait_for"} /\ op' = op /\ item' = item /\ UNCHANGED poolVars
        /\ pc[t] \in {"woken", "expired"}
    BY <1>3 DEF Queue!put_wait_resume, Queue!Stay, QueueContinue, Queue!BlockingPuts
  <2>2. at[t] = "queued" /\ erc[t] = "none" /\ item[t] = x
    BY <2>1 DEF Callers, Agree, AgreeAt, Queue!Blocked, x
  <2>3. \/ Queue!Sleep(t) \/ Queue!Return(t, "timeout")
        \/ m_state = "closing" /\ Queue!Return(t, "closed")
        \/ m_state = "open" /\ Queue!Push(t, x)
    BY <1>3, <2>2, Zenon DEF Queue!put_wait_resume
  <2>4. at' = [at EXCEPT ![t] = "queued"]
    BY <2>1, <2>2 DEF poolVars
  <2>5. UNCHANGED <<policy, m_poolState, locks, threads, arg, frames, terminated, history>>
    BY <2>1 DEF poolVars
  <2>6. /\ op' \in [Threads -> Queue!OpNames] /\ item' \in [Threads -> Tasks \cup {0}]
        /\ op'[t] \in {"put", "put_wait", "put_wait_for"} /\ item'[t] = x /\ pc[t] # "asleep"
        /\ \A u \in Threads \ {t} : op'[u] = op[u] /\ item'[u] = item[u]
    BY <2>1, <2>2 DEF QueueTypes
  <2> QED
    BY <1>1, <2>2, <2>3, <2>4, <2>5, <2>6, Zenon
<1> QED BY <1>2, <1>3

\* A worker's take that starts, and one that goes on after its wait.
LEMMA TakeSteps ==
  ASSUME Callers, NEW t \in Threads,
         (t \in Workers /\ worker_take(t)) \/ (QueueContinue(t) /\ Queue!tryTake_resume(t))
  PROVE  QueueStep(t)
<1>   0 \in Tasks \cup {0} /\ at \in [Threads -> Places] /\ QueueTypes /\ Types
  BY DEF Callers, Types
<1>1. ASSUME at' = [at EXCEPT ![t] = "taking"], at[t] \in {"loop", "taking"}, t \in Workers,
             at[t] = "taking" => erc[t] = "none",
             UNCHANGED <<policy, m_poolState, locks, threads, arg, frames, terminated, history>>,
             op' \in [Threads -> Queue!OpNames], op'[t] = "tryTake",
             \A u \in Threads \ {t} : op'[u] = op[u]
      PROVE  /\ Queue!Pop(t, "popped") => QueueStep(t)
             /\ (/\ m_buffer = <<>> /\ m_state = "closing"
                 /\ Queue!NoValue(t) /\ Queue!Return(t, "closed")) => QueueStep(t)
             /\ Queue!NoValue(t) /\ Queue!Return(t, "timeout") => QueueStep(t)
             /\ Queue!NoValue(t) /\ Queue!Sleep(t) => QueueStep(t)
  <2>0. ASSUME Queue!NoValue(t)
        PROVE  item' \in [Threads -> Tasks \cup {0}] /\ \A u \in Threads \ {t} : item'[u] = item[u]
    BY <2>0 DEF Queue!NoValue, Queue!NoItem, QueueTypes
  <2>1. ASSUME Queue!Pop(t, "popped") PROVE QueueStep(t)
    <3>1. /\ pc' \in [Threads -> Queue!Points] /\ erc' \in [Threads -> Queue!Results]
          /\ item' \in [Threads -> Tasks \cup {0}]
          /\ \A u \in Threads \ {t} : pc'[u] = pc[u] /\ erc'[u] = erc[u] /\ item'[u] = item[u]
          /\ m_buffer' \in Seq(Tasks) /\ Removes(t)
      BY <2>1, QueueParts, Zenon
    <3> QED
      BY <1>1, <3>1, Zenon DEF QueueStep, QueueTypes, TakeStep, Elsewhere, Removes
  <2>2. ASSUME m_buffer = <<>>, m_state = "closing", Queue!NoValue(t), Queue!Return(t, "closed")
        PROVE  QueueStep(t)
    BY <1>1, <2>0, <2>2, QueueParts, ZenonT(30) DEF Queue!Results, QueueStep, QueueTypes, TakeStep, Elsewhere, Idles
  <2>3. ASSUME Queue!NoValue(t), Queue!Return(t, "timeout") PROVE QueueStep(t)
    BY <1>1, <2>0, <2>3, QueueParts, ZenonT(30) DEF Queue!Results, QueueStep, QueueTypes, TakeStep, Elsewhere, Idles
  <2>4. ASSUME Queue!NoValue(t), Queue!Sleep(t) PROVE QueueStep(t)
    BY <1>1, <2>0, <2>4, QueueParts, Zenon DEF QueueStep, QueueTypes, TakeStep, Elsewhere, Idles
  <2> QED
    BY <2>1, <2>2, <2>3, <2>4
<1>2. CASE t \in Workers /\ worker_take(t)
  <2>1. /\ at' = [at EXCEPT ![t] = "taking"] /\ at[t] = "loop"
        /\ UNCHANGED <<policy, m_poolState, locks, threads, arg, frames, terminated, history>>
        /\ op' = [op EXCEPT ![t] = "tryTake"]
    BY <1>2 DEF worker_take, Goto, Queue!tryTake, Queue!EnterTake
  <2>2. \/ Queue!Pop(t, "popped")
        \/ m_buffer = <<>> /\ m_state = "closing" /\ Queue!NoValue(t) /\ Queue!Return(t, "closed")
        \/ Queue!NoValue(t) /\ Queue!Sleep(t)
    BY <1>2, Zenon DEF worker_take, Queue!tryTake
  <2>3. /\ op' \in [Threads -> Queue!OpNames] /\ op'[t] = "tryTake"
        /\ \A u \in Threads \ {t} : op'[u] = op[u]
    BY <2>1 DEF QueueTypes, Queue!OpNames, Queue!Takes, Queue!TimedTakes
  <2> QED
    BY <1>1, <1>2, <2>1, <2>2, <2>3
<1>3. CASE QueueContinue(t) /\ Queue!tryTake_resume(t)
  <2>1. /\ op[t] \in {"tryTake", "tryTake_0"} /\ op' = op /\ UNCHANGED poolVars
        /\ pc[t] \in {"woken", "expired"}
    BY <1>3 DEF Queue!tryTake_resume, Queue!Stay, QueueContinue, Queue!TimedTakes
  <2>2. at[t] = "taking" /\ erc[t] = "none" /\ op[t] = "tryTake" /\ t \in Workers
    BY <2>1 DEF Callers, Agree, AgreeAt, Queue!Blocked
  <2>3. \/ Queue!Pop(t, "popped")
        \/ m_buffer = <<>> /\ m_state = "closing" /\ Queue!NoValue(t) /\ Queue!Return(t, "closed")
        \/ Queue!NoValue(t) /\ (Queue!Sleep(t) \/ Queue!Return(t, "timeout"))
    BY <1>3, Zenon DEF Queue!tryTake_resume
  <2>4. at' = [at EXCEPT ![t] = "taking"]
    BY <2>1, <2>2 DEF poolVars
  <2>5. UNCHANGED <<policy, m_poolState, locks, threads, arg, frames, terminated, history>>
    BY <2>1 DEF poolVars
  <2>6. /\ op' \in [Threads -> Queue!OpNames] /\ op'[t] = "tryTake"
        /\ \A u \in Threads \ {t} : op'[u] = op[u]
    BY <2>1, <2>2 DEF QueueTypes
  <2> QED
    BY <1>1, <2>2, <2>3, <2>4, <2>5, <2>6, Zenon
<1> QED BY <1>2, <1>3

\* Every step in the queue is a step of a put, of a take, of close, or moves threads.
LEMMA QueueSteps ==
  ASSUME Callers, NEW t \in Threads, InQueue(t)
  PROVE  QueueStep(t)
<1>   Types /\ QueueTypes /\ AgreeAt(t)
  BY DEF Callers, Agree
<1>1. CASE put_enqueue(t) \/ (QueueContinue(t) /\ Queue!put_wait_resume(t))
  BY <1>1, PutSteps
<1>2. CASE (t \in Workers /\ worker_take(t)) \/ (QueueContinue(t) /\ Queue!tryTake_resume(t))
  BY <1>2, TakeSteps
<1>3. CASE shutdown_close(t)
  <2>1. /\ at' = [at EXCEPT ![t] = "closing"] /\ at[t] = "close"
        /\ UNCHANGED <<policy, m_poolState, locks, threads, arg, frames, terminated, history>>
        /\ Queue!close(t)
    BY <1>3 DEF shutdown_close, Goto
  <2>2. /\ op' = [op EXCEPT ![t] = "close"] /\ item' = [item EXCEPT ![t] = 0]
        /\ m_state' = "closing" /\ pc' = [pc EXCEPT ![t] = "close_1"]
        /\ UNCHANGED <<m_buffer, erc, accepted>>
    BY <2>1 DEF Queue!close, Queue!Enter, Queue!NoItem, Queue!At
  <2> QED
    BY <2>1, <2>2
    DEF QueueStep, CloseStep, Elsewhere, QueueTypes, Queue!OpNames, Queue!Points
<1>4. ASSUME UNCHANGED poolVars, UNCHANGED Queue!calls, pc' \in [Threads -> Queue!Points],
             \A u \in Threads \ {t} : pc'[u] = pc[u] \/ (pc[u] = "asleep" /\ pc'[u] = "woken"),
             \/ pc[t] = "popped" /\ pc'[t] = "idle"
             \/ pc[t] = "close_1" /\ pc'[t] = "close_2"
             \/ pc[t] = "close_2" /\ pc'[t] = "idle"
             \/ pc[t] = "asleep" /\ pc'[t] \in {"woken", "expired"}
      PROVE  QueueStep(t)
  BY <1>4 DEF QueueStep, MoveStep, Elsewhere, QueueTypes, poolVars, Queue!calls
<1>5. ASSUME NEW S \in {Queue!NotEmptySleepers, Queue!NotFullSleepers}, NEW p \in Queue!Points, pc[t] # "asleep",
             Queue!notify_one(S, Queue!At(t, p)) \/ Queue!notify_all(S, Queue!At(t, p))
      PROVE  /\ pc' \in [Threads -> Queue!Points] /\ pc'[t] = p
             /\ \A u \in Threads \ {t} : pc'[u] = pc[u] \/ (pc[u] = "asleep" /\ pc'[u] = "woken")
  <2>1. S \in SUBSET {u \in Threads : pc[u] = "asleep"}
    BY DEF Queue!NotEmptySleepers, Queue!NotFullSleepers
  <2> QED BY <1>5, <2>1, Notified, Zenon DEF QueueTypes
<1>6. {"idle", "close_2", "woken", "expired"} \subseteq Queue!Points
  BY DEF Queue!Points
<1>7. CASE QueueContinue(t) /\ Queue!tryTake_notify(t)
  BY <1>4, <1>5, <1>6, <1>7, Zenon DEF QueueContinue, Queue!tryTake_notify
<1>8. CASE QueueContinue(t) /\ Queue!close_notify_empty(t)
  BY <1>4, <1>5, <1>6, <1>8 DEF QueueContinue, Queue!close_notify_empty
<1>9. CASE QueueContinue(t) /\ Queue!close_notify_full(t)
  BY <1>4, <1>5, <1>6, <1>9 DEF QueueContinue, Queue!close_notify_full
<1>10. CASE QueueExpire(t)
  BY <1>4, <1>6, <1>10 DEF QueueExpire, Queue!expire, Queue!At, QueueTypes
<1>11. CASE QueueSpurious(t)
  BY <1>4, <1>6, <1>11 DEF QueueSpurious, Queue!spurious, Queue!At, QueueTypes
<1>12. ~Queue!take_resume(t)
  BY DEF Queue!take_resume, Queue!Stay, AgreeAt
<1> QED
  BY <1>1, <1>2, <1>3, <1>7, <1>8, <1>9, <1>10, <1>11, <1>12 DEF InQueue, QueueContinue, Queue!Continue
-----------------------------------------------------------------------------
\* Where a step of one thread leaves the threads.
LEMMA GotoFacts ==
  ASSUME Types, NEW t \in Threads, NEW p \in Places, Goto(t, p)
  PROVE  /\ at' \in [Threads -> Places] /\ at'[t] = p
         /\ \A u \in Threads \ {t} : at'[u] = at[u]
BY DEF Types, Goto

\* The constructing client is a thread; workers and periodic workers are other threads.
LEMMA ThreadFacts ==
  /\ Creator \in Clients /\ Clients \subseteq Threads
  /\ Workers \subseteq Threads /\ Periodics \subseteq Threads
  /\ Clients \cap Workers = {} /\ Clients \cap Periodics = {} /\ Workers \cap Periodics = {}
BY PoolAssumption DEF Creator, Threads, PoolAssumption

\* An index of a sequence is below all that is past its end.
LEMMA IndexFacts ==
  ASSUME NEW n \in Nat, NEW i \in 1..n
  PROVE  i \in Nat /\ \A m \in Nat : m > n => i < m
OBVIOUS

\* The threads join waits for are threads of the pool.
LEMMA JoinOrderType ==
  ASSUME Types
  PROVE  /\ JoinOrder \in Seq(Workers \cup Periodics) /\ Len(JoinOrder) \in Nat
         /\ \A i \in 1..Len(JoinOrder) : JoinOrder[i] \in Workers \cup Periodics
         /\ Range(JoinOrder) = Range(m_periodicWorkers) \cup Range(m_activeWorkers)
<1>1. m_periodicWorkers \in Seq(Workers \cup Periodics) /\ m_activeWorkers \in Seq(Workers \cup Periodics)
  BY DEF Types
<1>2. JoinOrder \in Seq(Workers \cup Periodics)
  BY <1>1 DEF JoinOrder
<1>3. Range(JoinOrder) = Range(m_periodicWorkers) \cup Range(m_activeWorkers)
  BY <1>1, ConcatFacts DEF JoinOrder
<1> QED
  BY <1>2, <1>3

\* A thread that neither begins nor ends, and takes no part in stopping, changes
\* nothing about it.
LEMMA ControlGoto ==
  ASSUME Types, Stopping, Stopped, NEW t \in Threads, NEW p \in Places, Goto(t, p),
         UNCHANGED <<m_poolState, m_mtx, m_state, shutReturned, threads, next>>,
         at[t] \notin {"unborn", "exited", "close"},
         p \notin {"unborn", "close", "closing", "join_lock", "join_loop"}
  PROVE  Stopping' /\ Stopped'
<1>1. at'[t] = p /\ \A u \in Threads \ {t} : at'[u] = at[u]
  BY GotoFacts
<1>2. Stopping'
  BY <1>1 DEF Stopping
<1>3. Stopped'
  <2>1. JoinOrder' = JoinOrder /\ UNCHANGED <<m_activeWorkers, m_periodicWorkers>>
    BY DEF JoinOrder, threads
  <2>2. m_poolState' = "stopped" =>
          m_state' = "closing" /\ \A u \in Workers \cup Periodics : at'[u] \in {"unborn", "exited"}
    BY <1>1, ThreadFacts DEF Stopped
  <2>3. ASSUME NEW u \in Threads, at'[u] = "join_loop", NEW i \in 1..Len(JoinOrder), i < next'[u]
        PROVE  at'[JoinOrder[i]] = "exited"
    <3>1. JoinOrder[i] \in Threads
      BY JoinOrderType, ThreadFacts
    <3>2. at[u] = "join_loop" /\ at[JoinOrder[i]] = "exited"
      BY <1>1, <2>3 DEF Stopped
    <3> QED BY <1>1, <3>1, <3>2
  <2>4. /\ {w \in Workers : at'[w] # "unborn"} = {w \in Workers : at[w] # "unborn"}
        /\ {q \in Periodics : at'[q] # "unborn"} = {q \in Periodics : at[q] # "unborn"}
    BY <1>1, ThreadFacts
  <2> QED BY <2>1, <2>2, <2>3, <2>4 DEF Stopped
<1> QED BY <1>2, <1>3

\* A step in the queue keeps the types, the stacks and what runs.
LEMMA QueueTypesStep ==
  ASSUME Inv, NEW t \in Threads, QueueStep(t)
  PROVE  Types' /\ Stacks' /\ Running' /\ Lateness'
<1>   /\ Types /\ Stacks /\ Running /\ Lateness
      /\ UNCHANGED <<policy, m_poolState, locks, threads, arg, frames, terminated, history>>
  BY DEF Inv, QueueStep, PutStep, TakeStep, CloseStep, MoveStep, Elsewhere
<1>1. /\ at' \in [Threads -> Places] /\ \A u \in Threads \ {t} : at'[u] = at[u]
      /\ \/ at'[t] = at[t]
         \/ at[t] = "enqueue" /\ at'[t] = "queued"
         \/ at[t] = "loop" /\ at'[t] = "taking" /\ t \in Workers
         \/ at[t] = "close" /\ at'[t] = "closing"
  BY Zenon DEF QueueStep, PutStep, TakeStep, CloseStep, MoveStep, Types, Places, CallPlaces
<1>2. Types'
  BY <1>1 DEF Types, locks, threads, history
<1>3. Stacks'
  BY <1>1 DEF Stacks, StackAt, StackOf, CallPlaces
<1>4. Running'
  BY DEF Running, history
<1>5. Lateness'
  BY <1>1, ThreadFacts DEF Lateness, history, BeforeRun
<1> QED BY <1>2, <1>3, <1>4, <1>5

\* The places in the pool and in the queue still agree.
LEMMA QueueAgreeStep ==
  ASSUME Inv, NEW t \in Threads, QueueStep(t)
  PROVE  Agree'
<1>   Types /\ QueueTypes /\ QueueTypes' /\ Agree /\ arg' = arg /\ Elsewhere(t)
  BY DEF Inv, QueueStep, PutStep, TakeStep, CloseStep, MoveStep, Elsewhere
<1>1. ASSUME NEW u \in Threads, u # t, at'[u] = at[u] PROVE AgreeAt(u)'
  BY <1>1, ZenonT(30) DEF Agree, AgreeAt, Elsewhere, Queue!Blocked
<1>2. CASE PutStep(t)
  <2>1. at'[t] = "queued" /\ \A u \in Threads \ {t} : at'[u] = at[u]
    BY <1>2 DEF PutStep, Types
  <2>2. AgreeAt(t)'
    BY <1>2, <2>1 DEF AgreeAt, PutStep, Stores, Idles, Unaccepted, Queue!Blocked
  <2> QED BY <1>1, <2>1, <2>2 DEF Agree
<1>3. CASE TakeStep(t)
  <2>1. at'[t] = "taking" /\ \A u \in Threads \ {t} : at'[u] = at[u]
    BY <1>3 DEF TakeStep, Types
  <2>2. Removes(t) => item'[t] \in Tasks
    BY PopFacts DEF Removes, QueueTypes
  <2>3. AgreeAt(t)'
    BY <1>3, <2>1, <2>2, Zenon DEF AgreeAt, TakeStep, Removes, Idles, Queue!Blocked
  <2> QED BY <1>1, <2>1, <2>3 DEF Agree
<1>4. CASE CloseStep(t)
  <2>1. at'[t] = "closing" /\ \A u \in Threads \ {t} : at'[u] = at[u]
    BY <1>4 DEF CloseStep, Types
  <2>2. AgreeAt(t)'
    BY <1>4, <2>1 DEF AgreeAt, CloseStep
  <2> QED BY <1>1, <2>1, <2>2 DEF Agree
<1>5. CASE MoveStep(t)
  <2>1. AgreeAt(t)'
    BY <1>5 DEF Agree, AgreeAt, MoveStep, Queue!Blocked
  <2> QED BY <1>1, <1>5, <2>1 DEF Agree, MoveStep
<1> QED BY <1>2, <1>3, <1>4, <1>5 DEF QueueStep

\* A step in the queue and the stopping of the pool.
LEMMA QueueControlStep ==
  ASSUME Inv, NEW t \in Threads, QueueStep(t)
  PROVE  Stopping' /\ Stopped'
<1>   /\ Types /\ Stopping /\ Stopped
      /\ UNCHANGED <<m_poolState, m_mtx, shutReturned, threads, next>>
  BY Zenon DEF Inv, QueueStep, PutStep, TakeStep, CloseStep, MoveStep, Elsewhere, locks, history
<1>1. CASE PutStep(t)
  BY <1>1, ControlGoto, Zenon DEF PutStep, Stores, Idles, Goto, Places, CallPlaces
<1>2. CASE TakeStep(t)
  BY <1>2, ControlGoto, Zenon DEF TakeStep, Removes, Idles, Goto, Places, CallPlaces
<1>3. CASE CloseStep(t)
  <2>1. /\ at[t] = "close" /\ at'[t] = "closing" /\ m_state' = "closing"
        /\ \A u \in Threads \ {t} : at'[u] = at[u]
    BY <1>3, Zenon DEF CloseStep, Types
  <2>2. Stopping'
    BY <2>1 DEF Stopping
  <2>3. Stopped'
    <3>1. JoinOrder' = JoinOrder /\ UNCHANGED <<m_activeWorkers, m_periodicWorkers>>
      BY DEF JoinOrder, threads
    <3>2. m_poolState' = "stopped" =>
            m_state' = "closing" /\ \A u \in Workers \cup Periodics : at'[u] \in {"unborn", "exited"}
      BY <2>1, ThreadFacts DEF Stopped
    <3>3. ASSUME NEW u \in Threads, at'[u] = "join_loop", NEW i \in 1..Len(JoinOrder), i < next'[u]
          PROVE  at'[JoinOrder[i]] = "exited"
      <4>1. JoinOrder[i] \in Threads
        BY JoinOrderType, ThreadFacts
      <4>2. at[u] = "join_loop" /\ at[JoinOrder[i]] = "exited"
        BY <2>1, <3>3 DEF Stopped
      <4> QED BY <2>1, <4>1, <4>2
    <3>4. /\ {w \in Workers : at'[w] # "unborn"} = {w \in Workers : at[w] # "unborn"}
          /\ {q \in Periodics : at'[q] # "unborn"} = {q \in Periodics : at[q] # "unborn"}
      BY <2>1, ThreadFacts
    <3> QED BY <3>1, <3>2, <3>3, <3>4 DEF Stopped
  <2> QED BY <2>2, <2>3
<1>4. CASE MoveStep(t)
  <2>1. at' = at /\ m_state' = m_state /\ JoinOrder' = JoinOrder /\ UNCHANGED <<m_activeWorkers, m_periodicWorkers>>
    BY <1>4 DEF MoveStep, JoinOrder, threads
  <2> QED BY <2>1 DEF Stopping, Stopped
<1> QED BY <1>1, <1>2, <1>3, <1>4 DEF QueueStep

\* A worker is told "closed" only of an empty queue, into which nothing is put again.
LEMMA QueueDrainedStep ==
  ASSUME Inv, NEW t \in Threads, QueueStep(t)
  PROVE  Drained'
<1>   Types /\ Drained /\ Elsewhere(t) /\ m_state \in {"open", "closing"}
  BY DEF Inv, QueueTypes, QueueStep, PutStep, TakeStep, CloseStep, MoveStep
<1>1. ASSUME NEW w \in Workers, at'[w] = "exited" \/ (at'[w] = "taking" /\ erc'[w] = "closed")
      PROVE  m_state' = "closing" /\ m_buffer' = <<>>
  <2>1. w \in Threads
    BY ThreadFacts
  <2>2. CASE PutStep(t)
    <3>1. w # t /\ at'[w] = at[w] /\ erc'[w] = erc[w]
      BY <1>1, <2>1, <2>2 DEF PutStep, Elsewhere, Types
    <3> QED BY <1>1, <2>2, <3>1 DEF Drained, PutStep, Stores, Idles
  <2>3. CASE TakeStep(t)
    <3>1. CASE w = t
      BY <1>1, <2>1, <2>3, <3>1 DEF TakeStep, Removes, Idles, Types
    <3>2. CASE w # t
      <4>1. at'[w] = at[w] /\ erc'[w] = erc[w]
        BY <2>1, <2>3, <3>2, Zenon DEF TakeStep, Elsewhere, Types
      <4> QED BY <1>1, <2>3, <4>1, Zenon DEF Drained, TakeStep, Removes, Idles
    <3> QED BY <3>1, <3>2
  <2>4. CASE CloseStep(t)
    <3>1. w # t /\ at'[w] = at[w] /\ erc'[w] = erc[w]
      BY <1>1, <2>1, <2>4 DEF CloseStep, Elsewhere, Types
    <3> QED BY <1>1, <2>4, <3>1 DEF Drained, CloseStep
  <2>5. CASE MoveStep(t)
    BY <1>1, <2>5, Zenon DEF Drained, MoveStep
  <2> QED BY <2>2, <2>3, <2>4, <2>5 DEF QueueStep
<1> QED BY <1>1 DEF Drained

\* Before the constructor is done the queue is used by idle workers and closed.
LEMMA QueueConstructionStep ==
  ASSUME Inv, NEW t \in Threads, QueueStep(t)
  PROVE  Construction'
<1>   /\ Types /\ Construction /\ Stopping /\ Elsewhere(t)
      /\ m_poolState' = m_poolState /\ frames' = frames
      /\ t \in Clients \cup Workers \cup Periodics
  BY Zenon DEF Inv, QueueStep, PutStep, TakeStep, CloseStep, MoveStep, Elsewhere, Threads
<1>1. /\ \A u \in Threads \ {t} : at'[u] = at[u] /\ erc'[u] = erc[u]
      /\ \/ at'[t] = at[t]
         \/ at[t] = "enqueue" /\ at'[t] = "queued"
         \/ at[t] = "loop" /\ at'[t] = "taking"
         \/ at[t] = "close" /\ at'[t] = "closing"
  BY Zenon DEF QueueStep, PutStep, TakeStep, CloseStep, MoveStep, Types, Elsewhere
<1>2. Unborn(Workers)' = Unborn(Workers) /\ Unconstructed' = Unconstructed
  BY <1>1, ThreadFacts, Zenon DEF Unborn, Unconstructed
<1>3. \A u \in Threads : at'[u] = "ctor" => u = Creator
  BY <1>1, Zenon DEF Construction
<1>4. at'[Creator] = "ctor" =>
        m_poolState' = "running" /\ \A c \in Clients \ {Creator} : at'[c] = "outside"
  BY <1>1, ThreadFacts DEF Construction
<1>5. ASSUME Unconstructed'
      PROVE  /\ m_buffer' = <<>> /\ accepted' = <<>>
             /\ \A w \in Workers :
                  at'[w] \in {"unborn", "loop", "taking", "exited"} /\ erc'[w] # "item"
             /\ \A p \in Periodics : at'[p] = "unborn"
             /\ \A c \in Clients : at'[c] \notin {"enqueue", "queued", "body"} /\ frames'[c] = <<>>
             /\ m_poolState' = "running" =>
                  \A c \in Clients : at'[c] \in {"ctor", "outside", "shutdown"}
  <2>1. /\ m_buffer = <<>> /\ accepted = <<>>
        /\ \A w \in Workers :
             at[w] \in {"unborn", "loop", "taking", "exited"} /\ erc[w] # "item"
        /\ \A p \in Periodics : at[p] = "unborn"
        /\ \A c \in Clients : at[c] \notin {"enqueue", "queued", "body"} /\ frames[c] = <<>>
        /\ m_poolState = "running" => \A c \in Clients : at[c] \in {"ctor", "outside", "shutdown"}
    BY <1>2, <1>5 DEF Construction
  <2>2. at[t] \notin {"enqueue", "queued"}
    BY <2>1
  <2>3. /\ m_buffer' = m_buffer /\ accepted' = accepted
        /\ t \in Workers => erc'[t] # "item"
    BY <2>1, <2>2 DEF QueueStep, PutStep, TakeStep, CloseStep, MoveStep, Removes, Idles
  <2>4. \A w \in Workers :
          at'[w] \in {"unborn", "loop", "taking", "exited"} /\ erc'[w] # "item"
    BY <1>1, <2>1, <2>3, ThreadFacts
  <2>5. /\ \A p \in Periodics : at'[p] = "unborn"
        /\ \A c \in Clients : at'[c] \notin {"enqueue", "queued", "body"} /\ frames'[c] = <<>>
    BY <1>1, <2>1, ThreadFacts
  <2>6. m_poolState' = "running" => \A c \in Clients : at'[c] \in {"ctor", "outside", "shutdown"}
    BY <1>1, <2>1, ThreadFacts
  <2> QED BY <2>1, <2>3, <2>4, <2>5, <2>6
<1> QED BY <1>3, <1>4, <1>5 DEF Construction

\* What the submitters are told still agrees with what was accepted.
LEMMA QueueLedgerStep ==
  ASSUME Inv, NEW t \in Threads, QueueStep(t)
  PROVE  Ledger'
<1>0. Types /\ QueueTypes /\ Ledger /\ Elsewhere(t) /\ UNCHANGED <<arg, told>>
  BY Zenon DEF Inv, QueueStep, PutStep, TakeStep, CloseStep, MoveStep, Elsewhere, history
<1>1. /\ \A u \in Threads \ {t} : at'[u] = at[u] /\ erc'[u] = erc[u]
      /\ \A u \in Threads : Putting(u)' <=> Putting(u)
  BY <1>0, Zenon DEF QueueStep, PutStep, TakeStep, CloseStep, MoveStep, Types, Elsewhere, Putting
<1>2. /\ \A u \in Threads : Putting(u)' => arg'[u] \in Tasks /\ told'[arg'[u]] = "nothing"
      /\ \A v, u \in Threads : Putting(v)' /\ Putting(u)' /\ arg'[v] = arg'[u] => v = u
  BY <1>0, <1>1, Zenon DEF Ledger
<1>3. \A u \in Threads \ {t} : Admitted(u)' <=> Admitted(u)
  BY <1>1 DEF Admitted
<1>4. CASE PutStep(t) /\ Stores(t)
  <2>1. arg[t] \in Tasks /\ ~Admitted(t) /\ Admitted(t)'
    BY <1>0, <1>4 DEF Ledger, Putting, PutStep, Stores, Admitted, Types
  <2>2. Range(accepted') = Range(accepted) \cup {arg[t]}
    <3>1. accepted \in Seq(Tasks) /\ accepted' = Append(accepted, arg[t])
      BY <1>0, <1>4, Zenon DEF Stores, QueueTypes
    <3>2. Range(Append(accepted, arg[t])) = Range(accepted) \cup {arg[t]}
      BY <2>1, <3>1, AppendFacts
    <3> QED BY <3>1, <3>2
  <2> QED BY <1>0, <1>2, <1>3, <2>1, <2>2, Zenon DEF Ledger
<1>5. CASE ~(PutStep(t) /\ Stores(t))
  <2>1. accepted' = accepted
    BY <1>5, Zenon DEF QueueStep, PutStep, TakeStep, CloseStep, MoveStep, Removes, Idles
  <2>2. Admitted(t)' <=> Admitted(t)
    BY <1>0, <1>5, Zenon DEF QueueStep, PutStep, TakeStep, CloseStep, MoveStep, Idles, Admitted, Types
  <2> QED BY <1>0, <1>2, <1>3, <2>1, <2>2, Zenon DEF Ledger
<1> QED BY <1>4, <1>5

\* The container hands each accepted task to one worker.
LEMMA QueueCustodyStep ==
  ASSUME Inv, NEW t \in Threads, QueueStep(t)
  PROVE  Custody'
<1>0. /\ Types /\ QueueTypes /\ Ledger /\ Custody /\ Elsewhere(t)
      /\ UNCHANGED <<arg, told, runs>> /\ Range(accepted) \subseteq Tasks
  BY RangeIs, Zenon DEF Inv, QueueTypes, QueueStep, PutStep, TakeStep, CloseStep, MoveStep, Elsewhere, history
<1>1. \A u \in Threads \ {t} : at'[u] = at[u] /\ erc'[u] = erc[u] /\ item'[u] = item[u]
  BY <1>0, Zenon DEF QueueStep, PutStep, TakeStep, CloseStep, MoveStep, Types, Elsewhere
<1>2. \A u \in Threads \ {t} : \A k \in Tasks : Holds(u, k)' <=> Holds(u, k)
  BY <1>1, Zenon DEF Holds
<1>3. CASE PutStep(t) /\ Stores(t)
  <2> DEFINE x == arg[t]
  <2>1. x \in Tasks /\ told[x] = "nothing" /\ Putting(t) /\ ~Admitted(t)
    BY <1>0, <1>3 DEF Ledger, Putting, PutStep, Stores, Admitted
  <2>2. x \notin Range(accepted)
    BY <1>0, <2>1 DEF Ledger, Admitted, Putting
  <2>3. x \notin Range(m_buffer) /\ runs[x] = 0 /\ \A w \in Threads : ~Holds(w, x)
    BY <1>0, <2>1, <2>2, Zenon DEF Custody
  <2>4. /\ Range(accepted') = Range(accepted) \cup {x}
        /\ Range(m_buffer') = Range(m_buffer) \cup {x} /\ IsInjective(m_buffer')
    <3>1. /\ accepted \in Seq(Tasks) /\ accepted' = Append(accepted, x)
          /\ m_buffer \in Seq(Tasks) /\ m_buffer' = Append(m_buffer, x)
          /\ IsInjective(m_buffer)
      BY <1>0, <1>3, Zenon DEF Stores, QueueTypes, Custody
    <3>2. Range(Append(accepted, x)) = Range(accepted) \cup {x}
      BY <2>1, <3>1, AppendRange
    <3>3. Range(Append(m_buffer, x)) = Range(m_buffer) \cup {x} /\ IsInjective(Append(m_buffer, x))
      BY <2>1, <2>3, <3>1, AppendFacts, SMTT(30)
    <3> QED BY <3>1, <3>2, <3>3
  <2>5. \A k \in Tasks : ~Holds(t, k) /\ ~Holds(t, k)'
    BY <1>0, <1>3, Zenon DEF PutStep, Holds, Types
  <2> HIDE DEF x
  <2>6. Range(m_buffer) \subseteq Tasks
    BY <1>0, RangeIs DEF QueueTypes
  <2>7. \A k \in Range(m_buffer)' :
          k \in Range(accepted)' /\ runs'[k] = 0 /\ \A w \in Threads : ~Holds(w, k)'
    BY <1>0, <1>2, <2>1, <2>3, <2>4, <2>5, <2>6, ZenonT(30) DEF Custody
  <2>8. \A w \in Threads : \A k \in Tasks : Holds(w, k)' =>
          k \in Range(accepted)' /\ runs'[k] = 0 /\ \A v \in Threads : Holds(v, k)' => v = w
    BY <1>0, <1>2, <2>4, <2>5, ZenonT(30) DEF Custody
  <2>9. \A k \in Range(accepted)' :
          k \in Range(m_buffer)' \/ (\E w \in Threads : Holds(w, k)') \/ runs'[k] = 1
    <3> SUFFICES ASSUME NEW k \in Range(accepted), k \notin Range(m_buffer)
                 PROVE  (\E w \in Threads : Holds(w, k)') \/ runs'[k] = 1
      BY <2>4, Zenon
    <3>1. CASE runs[k] = 1
      BY <1>0, <3>1
    <3>2. CASE runs[k] # 1
      <4>1. k \in Tasks
        BY <1>0, Zenon
      <4>2. PICK w \in Threads : Holds(w, k)
        BY <1>0, <3>2, Zenon DEF Custody
      <4> QED BY <1>2, <2>5, <4>1, <4>2, Zenon
    <3> QED BY <3>1, <3>2
  <2>10. \A k \in Tasks : k \notin Range(accepted)' => runs'[k] = IF told'[k] = "inline" THEN 1 ELSE 0
    BY <1>0, <2>4, Zenon DEF Custody
  <2> QED BY <2>4, <2>7, <2>8, <2>9, <2>10, Zenon DEF Custody
<1>4. CASE TakeStep(t) /\ Removes(t)
  <2> DEFINE x == item'[t]
  <2>1. /\ x \in Range(m_buffer) /\ x \in Tasks
        /\ Range(m_buffer') = Range(m_buffer) \ {x} /\ IsInjective(m_buffer')
    BY <1>0, <1>4, PopFacts, Zenon DEF Removes, QueueTypes, Custody
  <2>2. x \in Range(accepted) /\ runs[x] = 0 /\ \A w \in Threads : ~Holds(w, x)
    BY <1>0, <2>1 DEF Custody
  <2>3. \A k \in Tasks : ~Holds(t, k) /\ (Holds(t, k)' <=> k = x)
    BY <1>0, <1>4, Zenon DEF TakeStep, Removes, Holds, Types
  <2>4. accepted' = accepted
    BY <1>4 DEF Removes
  <2> HIDE DEF x
  <2>5. Range(m_buffer) \subseteq Tasks
    BY <1>0, RangeIs DEF QueueTypes
  <2>6. \A k \in Range(m_buffer)' :
          k \in Range(accepted)' /\ runs'[k] = 0 /\ \A w \in Threads : ~Holds(w, k)'
    BY <1>0, <1>2, <2>1, <2>3, <2>4, <2>5, Zenon DEF Custody
  <2>7. \A w \in Threads : \A k \in Tasks : Holds(w, k)' =>
          k \in Range(accepted)' /\ runs'[k] = 0 /\ \A v \in Threads : Holds(v, k)' => v = w
    <3> SUFFICES ASSUME NEW w \in Threads, NEW k \in Tasks, Holds(w, k)'
                 PROVE  k \in Range(accepted)' /\ runs'[k] = 0 /\ \A v \in Threads : Holds(v, k)' => v = w
      BY Zenon
    <3>1. CASE w = t
      <4>1. k = x
        BY <2>3, <3>1, Zenon
      <4>2. \A v \in Threads : Holds(v, k)' => v = w
        BY <1>2, <2>2, <3>1, <4>1, Zenon
      <4> QED BY <1>0, <2>2, <2>4, <4>1, <4>2
    <3>2. CASE w # t
      <4>1. Holds(w, k)
        BY <1>2, <3>2, Zenon
      <4>2. k \in Range(accepted) /\ runs[k] = 0 /\ \A v \in Threads : Holds(v, k) => v = w
        BY <1>0, <4>1, Zenon DEF Custody
      <4>3. k # x
        BY <2>2, <4>1, Zenon
      <4>4. \A v \in Threads : Holds(v, k)' => v = w
        BY <1>2, <2>3, <4>2, <4>3, Zenon
      <4> QED BY <1>0, <2>4, <4>2, <4>4
    <3> QED BY <3>1, <3>2
  <2>8. \A k \in Range(accepted)' :
          k \in Range(m_buffer)' \/ (\E w \in Threads : Holds(w, k)') \/ runs'[k] = 1
    <3> SUFFICES ASSUME NEW k \in Range(accepted), k \notin Range(m_buffer)'
                 PROVE  (\E w \in Threads : Holds(w, k)') \/ runs'[k] = 1
      BY <2>4, Zenon
    <3>1. k \in Tasks
      BY <1>0, Zenon
    <3>2. CASE k = x
      BY <2>3, <3>1, <3>2, Zenon
    <3>3. CASE k # x
      <4>1. k \notin Range(m_buffer)
        BY <2>1, <3>3
      <4>2. (\E w \in Threads : Holds(w, k)) \/ runs[k] = 1
        BY <1>0, <4>1, Zenon DEF Custody
      <4>3. CASE runs[k] = 1
        BY <1>0, <4>3
      <4>4. CASE runs[k] # 1
        <5>1. PICK w \in Threads : Holds(w, k)
          BY <4>2, <4>4, Zenon
        <5> QED BY <1>2, <2>3, <3>1, <5>1, Zenon
      <4> QED BY <4>3, <4>4
    <3> QED BY <3>2, <3>3
  <2>9. \A k \in Tasks : k \notin Range(accepted)' => runs'[k] = IF told'[k] = "inline" THEN 1 ELSE 0
    BY <1>0, <2>4 DEF Custody
  <2> QED BY <2>1, <2>6, <2>7, <2>8, <2>9, Zenon DEF Custody
<1>5. CASE ~(PutStep(t) /\ Stores(t)) /\ ~(TakeStep(t) /\ Removes(t))
  <2>1. m_buffer' = m_buffer /\ accepted' = accepted
    BY <1>5, Zenon DEF QueueStep, PutStep, TakeStep, CloseStep, MoveStep, Idles
  <2>2. \A k \in Tasks : Holds(t, k)' <=> Holds(t, k)
    BY <1>0, <1>5, Zenon DEF QueueStep, PutStep, TakeStep, CloseStep, MoveStep, Idles, Holds, Types
  <2>3. \A u \in Threads : \A k \in Tasks : Holds(u, k)' <=> Holds(u, k)
    BY <1>2, <2>2
  <2>4. Range(m_buffer) \subseteq Tasks
    BY <1>0, RangeIs DEF QueueTypes
  <2> QED BY <1>0, <2>1, <2>3, <2>4, Zenon DEF Custody
<1> QED BY <1>3, <1>4, <1>5

\* A step in the queue preserves the invariant.
LEMMA QueueInv ==
  ASSUME Inv, NEW t \in Threads, InQueue(t)
  PROVE  Inv'
<1>1. Callers
  BY DEF Inv, Callers, Ledger
<1>2. QueueStep(t) /\ QueueTypes'
  BY <1>1, QueueSteps DEF QueueStep
<1> QED
  BY <1>2, QueueTypesStep, QueueAgreeStep, QueueControlStep, QueueDrainedStep,
     QueueConstructionStep, QueueLedgerStep, QueueCustodyStep, Zenon DEF Inv
-----------------------------------------------------------------------------
\* Places whose threads the ledger and the container know of.
Busy == {"enqueue", "queued", "taking"}

\* Steps outside the queue that move idle threads and start, end or submit no task.
QuietMove ==
  /\ UNCHANGED <<queueVars, arg, frames, told, runs>>
  /\ at' \in [Threads -> Places]
  /\ \A u \in Threads : at'[u] # at[u] =>
       /\ at[u] \notin Busy /\ at'[u] \notin Busy \cup {"closing"}
       /\ at[u] = "closing" => pc[u] = "idle"
       /\ StackOf(u, at'[u])
       /\ u \in Workers => at'[u] # "exited"

\* Such a step leaves the tasks alone.
LEMMA QuietInv ==
  ASSUME Inv, QuietMove
  PROVE  QueueTypes' /\ Agree' /\ Stacks' /\ Drained' /\ Ledger' /\ Custody' /\ Running'
<1>   /\ Types /\ QueueTypes /\ Agree /\ Stacks /\ Drained /\ Ledger /\ Custody /\ Running
      /\ UNCHANGED <<m_buffer, m_state, op, pc, item, erc, accepted, arg, frames, told, runs>>
  BY DEF Inv, QuietMove, queueVars
<1>1. QueueTypes' /\ Running'
  BY Zenon DEF QueueTypes, Running
<1>2. Agree'
  BY DEF Agree, AgreeAt, QuietMove, Busy
<1>3. Stacks'
  <2> SUFFICES ASSUME NEW u \in Threads PROVE StackOf(u, at[u])'
    BY Zenon DEF Stacks, StackAt
  <2>1. StackOf(u, at[u])
    BY DEF Stacks, StackAt
  <2>2. StackOf(u, at'[u])
    BY <2>1, Zenon DEF QuietMove
  <2> QED BY <2>2 DEF StackOf
<1>4. Drained'
  BY ThreadFacts, Zenon DEF Drained, QuietMove, Busy
<1>5. \A u \in Threads : /\ Putting(u)' <=> Putting(u)
                         /\ Admitted(u)' <=> Admitted(u)
                         /\ \A k \in Tasks : Holds(u, k)' <=> Holds(u, k)
  BY Zenon DEF QuietMove, Busy, Putting, Admitted, Holds
<1>6. Ledger'
  BY <1>5, Zenon DEF Ledger
<1>7. Custody'
  <2>1. Range(m_buffer) \subseteq Tasks /\ Range(accepted) \subseteq Tasks
    BY RangeIs DEF QueueTypes
  <2> QED BY <1>5, <2>1, Zenon DEF Custody
<1> QED BY <1>1, <1>2, <1>3, <1>4, <1>6, <1>7

\* What may move while the pool is not constructed.
MayMove(t, p) ==
  Unconstructed =>
    \/ /\ t \in Clients /\ p \notin {"enqueue", "queued", "body"}
       /\ m_poolState' = "running" => p = "shutdown"
    \/ t \in Workers /\ p \in {"loop", "exited"} /\ m_poolState' = m_poolState

\* A step of a thread's control alone that construction allows keeps the constructor's
\* part of the invariant.
LEMMA ConstructionGoto ==
  ASSUME Inv, NEW t \in Threads, NEW p \in Places \ {"unborn", "ctor"}, Goto(t, p),
         UNCHANGED <<m_buffer, accepted, erc, frames>>, at[t] # "outside",
         m_poolState' = "running" => m_poolState = "running", MayMove(t, p)
  PROVE  Construction'
<1>   Types /\ Construction
  BY DEF Inv
<1>1. at'[t] = p /\ \A u \in Threads \ {t} : at'[u] = at[u]
  BY GotoFacts
<1>2. Unconstructed' => Unconstructed
  BY <1>1, ThreadFacts DEF Unconstructed, Unborn
<1>3. \A u \in Threads : at'[u] = "ctor" => u = Creator
  BY <1>1 DEF Construction
<1>4. ASSUME at'[Creator] = "ctor"
      PROVE  m_poolState' = "running" /\ \A c \in Clients \ {Creator} : at'[c] = "outside"
  <2>1. /\ at[Creator] = "ctor" /\ t # Creator /\ Unconstructed /\ m_poolState = "running"
        /\ \A c \in Clients \ {Creator} : at[c] = "outside"
    BY <1>1, <1>4, ThreadFacts, Zenon DEF Construction, Unconstructed
  <2>2. t \notin Clients
    BY <2>1
  <2>3. m_poolState' = m_poolState
    BY <2>1, <2>2 DEF MayMove
  <2> QED BY <1>1, <2>1, <2>2, <2>3, ThreadFacts
<1>5. ASSUME Unconstructed'
      PROVE  /\ m_buffer' = <<>> /\ accepted' = <<>>
             /\ \A w \in Workers :
                  at'[w] \in {"unborn", "loop", "taking", "exited"} /\ erc'[w] # "item"
             /\ \A q \in Periodics : at'[q] = "unborn"
             /\ \A c \in Clients : at'[c] \notin {"enqueue", "queued", "body"} /\ frames'[c] = <<>>
             /\ m_poolState' = "running" =>
                  \A c \in Clients : at'[c] \in {"ctor", "outside", "shutdown"}
  <2>1. /\ m_buffer = <<>> /\ accepted = <<>>
        /\ \A w \in Workers :
             at[w] \in {"unborn", "loop", "taking", "exited"} /\ erc[w] # "item"
        /\ \A q \in Periodics : at[q] = "unborn"
        /\ \A c \in Clients : at[c] \notin {"enqueue", "queued", "body"} /\ frames[c] = <<>>
        /\ m_poolState = "running" => \A c \in Clients : at[c] \in {"ctor", "outside", "shutdown"}
    BY <1>2, <1>5 DEF Construction
  <2>2. \/ /\ t \in Clients /\ p \notin {"enqueue", "queued", "body"}
           /\ m_poolState' = "running" => p = "shutdown"
        \/ t \in Workers /\ p \in {"loop", "exited"}
    BY <1>2, <1>5 DEF MayMove
  <2> QED BY <1>1, <2>1, <2>2, ThreadFacts, Zenon
<1> QED BY <1>3, <1>4, <1>5 DEF Construction

\* A thread gets before a run again only while the pool is running.
LEMMA LatenessGoto ==
  ASSUME Inv, NEW t \in Threads, NEW p \in Places, Goto(t, p), late' = late,
         shutReturned => shutReturned',
         p \in BeforeRun => at[t] \in BeforeRun \/ m_poolState = "running"
  PROVE  Lateness'
<1>1. at'[t] = p /\ \A u \in Threads \ {t} : at'[u] = at[u]
  BY GotoFacts DEF Inv
<1>2. m_poolState = "running" => ~shutReturned
  BY DEF Inv, Stopping
<1> QED BY <1>1, <1>2, ThreadFacts, Zenon DEF Inv, Lateness

\* A step of one thread that only moves it.
LEMMA PlainMove ==
  ASSUME Inv, NEW t \in Threads, NEW p \in Places, Goto(t, p),
         UNCHANGED <<queueVars, m_poolState, m_mtx, shutReturned, threads, next, arg, frames,
                     told, runs, late>>,
         m_joinMtx' \subseteq Threads,
         at[t] \notin {"unborn", "exited", "close", "outside"} \cup Busy,
         p \notin {"unborn", "close", "closing", "join_lock", "join_loop", "ctor"} \cup Busy,
         at[t] = "closing" => pc[t] = "idle", StackOf(t, p), t \in Workers => p # "exited",
         p \in BeforeRun => at[t] \in BeforeRun \/ m_poolState = "running", MayMove(t, p)
  PROVE  Inv'
<1>   Types /\ Stopping /\ Stopped
  BY DEF Inv
<1>1. at' \in [Threads -> Places] /\ at'[t] = p /\ \A u \in Threads \ {t} : at'[u] = at[u]
  BY GotoFacts, Zenon
<1>2. QuietMove
  BY <1>1 DEF QuietMove
<1>3. Types'
  BY <1>1 DEF Types, threads
<1>4. Stopping' /\ Stopped'
  BY ControlGoto, Zenon DEF queueVars
<1>5. Construction'
  BY ConstructionGoto, Zenon DEF queueVars
<1>6. Lateness'
  BY LatenessGoto, Zenon
<1> QED BY <1>2, <1>3, <1>4, <1>5, <1>6, QuietInv, Zenon DEF Inv

\* User code that calls the pool.
LEMMA UserFacts ==
  ASSUME Inv, NEW t \in Threads, NEW S, MayCall(t, S)
  PROVE  /\ at[t] \in {"idle", "body", "p_body"} /\ pc[t] = "idle"
         /\ t \in Workers => frames[t] # <<>>
         /\ Unconstructed => t \in Clients /\ m_poolState # "running"
         /\ m_poolState = "stopped" => t \notin Workers \cup Periodics
<1>1. at[t] \in {"idle", "body", "p_body"}
  BY DEF MayCall
<1>2. pc[t] = "idle" /\ (t \in Workers => frames[t] # <<>>)
  BY <1>1 DEF Inv, Agree, AgreeAt, Stacks, StackAt, StackOf
<1>3. Unconstructed => t \in Clients /\ m_poolState # "running"
  BY <1>1, ThreadFacts DEF Inv, Construction, Threads
<1>4. m_poolState = "stopped" => t \notin Workers \cup Periodics
  BY <1>1, Zenon DEF Inv, Stopped
<1> QED BY <1>1, <1>2, <1>3, <1>4
-----------------------------------------------------------------------------
\* A thread that is created: it was unborn, and joins the list of its kind.
LEMMA BornStep ==
  ASSUME Inv, m_poolState = "running", NEW w \in Threads, NEW p \in {"loop", "p_check"},
         UNCHANGED <<queueVars, m_poolState, m_mtx, m_joinMtx, shutReturned, next, arg, frames,
                     told, runs, late>>,
         at[w] = "unborn", Goto(w, p),
         \/ /\ w \in Workers /\ p = "loop" /\ at[Creator] = "ctor"
            /\ m_activeWorkers' = Append(m_activeWorkers, w) /\ UNCHANGED m_periodicWorkers
         \/ /\ w \in Periodics /\ p = "p_check" /\ ~Unconstructed
            /\ m_periodicWorkers' = Append(m_periodicWorkers, w) /\ UNCHANGED m_activeWorkers
  PROVE  Inv'
<1>0. Types /\ Stopping /\ Stopped /\ Construction /\ Lateness /\ Stacks
  BY DEF Inv
<1>1. at' \in [Threads -> Places] /\ at'[w] = p /\ \A u \in Threads \ {w} : at'[u] = at[u]
  BY <1>0, GotoFacts DEF Places
<1>2. frames[w] = <<>>
  BY <1>0, Zenon DEF Stacks, StackAt, StackOf, CallPlaces
<1>3. QuietMove
  BY <1>1, <1>2, ThreadFacts, Zenon DEF QuietMove, StackOf, CallPlaces, Busy
<1>4. /\ m_activeWorkers' \in Seq(Workers) /\ m_periodicWorkers' \in Seq(Periodics)
      /\ Range(m_activeWorkers') = Range(m_activeWorkers) \cup ({w} \cap Workers)
      /\ Range(m_periodicWorkers') = Range(m_periodicWorkers) \cup ({w} \cap Periodics)
  <2>1. m_activeWorkers \in Seq(Workers) /\ m_periodicWorkers \in Seq(Periodics)
    BY <1>0 DEF Types
  <2>2. CASE w \in Workers
    <3>1. w \notin Periodics /\ m_periodicWorkers' = m_periodicWorkers /\ m_activeWorkers' = Append(m_activeWorkers, w)
      BY <2>2, ThreadFacts
    <3>2. Append(m_activeWorkers, w) \in Seq(Workers)
      BY <2>1, <2>2, SMTT(30)
    <3>3. Range(Append(m_activeWorkers, w)) = Range(m_activeWorkers) \cup {w}
      BY <2>1, <2>2, AppendRange
    <3>4. {w} \cap Workers = {w} /\ {w} \cap Periodics = {}
      BY <2>2, <3>1
    <3>5. Range(m_activeWorkers) \cup {} = Range(m_activeWorkers) /\ Range(m_periodicWorkers) \cup {} = Range(m_periodicWorkers)
      OBVIOUS
    <3> QED BY <2>1, <3>1, <3>2, <3>3, <3>4, <3>5, Zenon
  <2>3. CASE w \in Periodics
    <3>1. w \notin Workers /\ m_activeWorkers' = m_activeWorkers /\ m_periodicWorkers' = Append(m_periodicWorkers, w)
      BY <2>3, ThreadFacts
    <3>2. Append(m_periodicWorkers, w) \in Seq(Periodics)
      BY <2>1, <2>3, SMTT(30)
    <3>3. Range(Append(m_periodicWorkers, w)) = Range(m_periodicWorkers) \cup {w}
      BY <2>1, <2>3, AppendRange
    <3>4. {w} \cap Periodics = {w} /\ {w} \cap Workers = {}
      BY <2>3, <3>1
    <3>5. Range(m_activeWorkers) \cup {} = Range(m_activeWorkers) /\ Range(m_periodicWorkers) \cup {} = Range(m_periodicWorkers)
      OBVIOUS
    <3> QED BY <2>1, <3>1, <3>2, <3>3, <3>4, <3>5, Zenon
  <2> QED BY <2>2, <2>3
<1>5. Types'
  BY <1>0, <1>1, <1>4 DEF Types
<1>6. Stopping'
  BY <1>0, <1>1 DEF Stopping, queueVars
<1>7. Stopped'
  <2>1. \A u \in Threads : at'[u] # "join_loop"
    BY <1>0, <1>1 DEF Stopping
  <2>2. /\ Range(m_activeWorkers') = {v \in Workers : at'[v] # "unborn"}
        /\ Range(m_periodicWorkers') = {v \in Periodics : at'[v] # "unborn"}
    BY <1>0, <1>1, <1>4, ThreadFacts DEF Stopped
  <2> QED BY <2>1, <2>2, Zenon DEF Stopped
<1>8. Construction'
  <2>1. CASE w \in Workers /\ at[Creator] = "ctor" /\ p = "loop"
    <3>1. Unconstructed /\ at'[Creator] = "ctor"
      BY <1>1, <2>1, ThreadFacts DEF Unconstructed
    <3> QED BY <1>0, <1>1, <2>1, <3>1, ThreadFacts, Zenon DEF Construction, queueVars
  <2>2. CASE w \in Periodics /\ ~Unconstructed
    <3>1. ~Unconstructed'
      BY <1>1, <2>2, ThreadFacts DEF Unconstructed, Unborn
    <3>2. at'[Creator] = at[Creator] /\ at[Creator] # "ctor"
      BY <1>1, <2>2, ThreadFacts DEF Unconstructed
    <3> QED BY <1>0, <1>1, <3>1, <3>2, Zenon DEF Construction
  <2> QED BY <2>1, <2>2
<1>9. Lateness'
  BY <1>0, <1>1, ThreadFacts DEF Lateness, BeforeRun
<1> QED BY <1>3, <1>5, <1>6, <1>7, <1>8, <1>9, QuietInv, Zenon DEF Inv

\* The constructor, whether or not a thread can be created.
LEMMA SetupStep ==
  ASSUME Inv, NEW t \in Threads, setup_threads(t)
  PROVE  Inv'
<1>   /\ Types /\ Stopping /\ Stopped /\ Construction /\ Lateness /\ Stacks
      /\ UNCHANGED <<queueVars, policy, m_poolState, m_mtx, m_joinMtx, next,
                     m_periodicWorkers, arg, frames, terminated, history>>
      /\ at[t] = "ctor" /\ t = Creator /\ m_poolState = "running" /\ Unconstructed
  BY Zenon DEF Inv, setup_threads, Construction, Unconstructed
<1>1. UNCHANGED <<told, runs, late, shutReturned>>
  BY DEF history
<1>2. CASE /\ Unborn(Workers) # {} /\ Goto(Newest(Workers), "loop")
           /\ m_activeWorkers' = Append(m_activeWorkers, Newest(Workers))
  <2>1. PICK w \in Workers : w = Newest(Workers) /\ at[w] = "unborn"
    BY <1>2 DEF Newest, Unborn
  <2>2. Goto(w, "loop") /\ m_activeWorkers' = Append(m_activeWorkers, w) /\ w \in Threads
    BY <1>2, <2>1, ThreadFacts
  <2> QED BY <1>1, <2>1, <2>2, BornStep
<1>3. CASE Unborn(Workers) # {} /\ Goto(t, "shutdown") /\ UNCHANGED m_activeWorkers
  <2>1. MayMove(t, "shutdown") /\ t \notin Workers
    BY ThreadFacts DEF MayMove
  <2>2. StackOf(t, "shutdown") /\ "shutdown" \in Places /\ m_joinMtx' \subseteq Threads
    BY <2>1 DEF StackOf, Places, CallPlaces, Types
  <2>3. UNCHANGED threads
    BY <1>3 DEF threads
  <2> QED BY <1>1, <1>3, <2>1, <2>2, <2>3, PlainMove, Zenon DEF Busy, BeforeRun
<1>4. CASE /\ Unborn(Workers) = {} /\ UNCHANGED m_activeWorkers
           /\ at' = [c \in Threads |-> IF c \in Clients THEN "idle" ELSE at[c]]
  <2>1. /\ at' \in [Threads -> Places] /\ \A c \in Clients : at'[c] = "idle"
        /\ \A u \in Threads \ Clients : at'[u] = at[u]
        /\ \A c \in Clients : at[c] \in {"ctor", "outside"}
    BY <1>4, ThreadFacts DEF Types, Places, Construction
  <2>2. \A c \in Clients : frames[c] = <<>>
    BY Zenon DEF Construction
  <2>3. QuietMove
    BY <1>1, <2>1, <2>2, ThreadFacts, Zenon DEF QuietMove, StackOf, CallPlaces, Busy
  <2>4. Types'
    BY <1>1, <1>4, <2>1 DEF Types
  <2>5. \A u \in Threads : at'[u] \in {"close", "closing", "join_lock", "join_loop", "unborn", "exited"}
          <=> at[u] \in {"close", "closing", "join_lock", "join_loop", "unborn", "exited"}
    BY <2>1
  <2>6. Stopping'
    BY <1>1, <2>1 DEF Stopping, queueVars
  <2>7. Stopped'
    <3>1. \A u \in Threads : at'[u] # "join_loop"
      BY <2>1 DEF Stopping
    <3>2. \A u \in Workers \cup Periodics : at'[u] = at[u]
      BY <2>1, ThreadFacts
    <3> QED BY <1>4, <3>1, <3>2, ZenonT(30) DEF Stopped
  <2>8. Construction'
    <3>1. ~Unconstructed' /\ at'[Creator] = "idle"
      BY <1>4, <2>1, ThreadFacts DEF Unconstructed, Unborn
    <3> QED BY <2>1, <3>1, Zenon DEF Construction
  <2>9. Lateness'
    BY <1>1, <2>1, ThreadFacts DEF Lateness
  <2> QED BY <2>3, <2>4, <2>6, <2>7, <2>8, <2>9, QuietInv, Zenon DEF Inv
<1> QED BY <1>2, <1>3, <1>4 DEF setup_threads

\* A call of shutdown_graceful or join begins.
LEMMA ShutdownCallStep ==
  ASSUME Inv, NEW t \in Threads, NEW b \in BOOLEAN, shutdown_call(t, b)
  PROVE  Inv'
<1>1. /\ MayCall(t, Joiners) /\ Goto(t, "shutdown")
      /\ UNCHANGED <<queueVars, m_poolState, m_mtx, m_joinMtx, next, threads, arg, frames,
                     told, runs, late, shutReturned>>
  BY DEF shutdown_call, history
<1>2. /\ at[t] \in {"idle", "body", "p_body"} /\ (t \in Workers => frames[t] # <<>>)
      /\ Unconstructed => t \in Clients /\ m_poolState # "running"
  BY <1>1, UserFacts
<1>3. StackOf(t, "shutdown") /\ "shutdown" \in Places /\ MayMove(t, "shutdown") /\ m_joinMtx' \subseteq Threads
  BY <1>1, <1>2 DEF StackOf, Places, CallPlaces, MayMove, Inv, Types
<1> QED BY <1>1, <1>2, <1>3, PlainMove, Zenon DEF Busy, BeforeRun

\* put_periodic creates a periodic thread.
LEMMA PutPeriodicStep ==
  ASSUME Inv, NEW t \in Threads, put_periodic(t)
  PROVE  Inv'
<1>1. /\ MayCall(t, Submitters) /\ m_poolState = "running" /\ Unborn(Periodics) # {}
      /\ m_periodicWorkers' = Append(m_periodicWorkers, Newest(Periodics))
      /\ Goto(Newest(Periodics), "p_check")
      /\ UNCHANGED <<queueVars, m_poolState, m_mtx, m_joinMtx, next, m_activeWorkers, arg, frames,
                     told, runs, late, shutReturned>>
  BY DEF put_periodic, MayAddPeriodic, locks, history
<1>2. ~Unconstructed
  BY <1>1, UserFacts, Zenon
<1>3. PICK w \in Periodics : w = Newest(Periodics) /\ at[w] = "unborn"
  BY <1>1 DEF Newest, Unborn
<1>4. Goto(w, "p_check") /\ m_periodicWorkers' = Append(m_periodicWorkers, w) /\ w \in Threads
  BY <1>1, <1>3, ThreadFacts
<1> QED BY <1>1, <1>2, <1>3, <1>4, BornStep

\* A periodic thread's tests and waits.
LEMMA PeriodicStep ==
  ASSUME Inv, NEW t \in Periodics,
         \/ periodic_check(t) \/ periodic_wait(t) \/ periodic_recheck(t) \/ periodic_done(t)
         \/ periodic_expire(t) \/ periodic_spurious(t)
  PROVE  Inv'
<1>   t \in Threads /\ t \notin Workers
  BY ThreadFacts
<1>1. PICK p \in {"exited", "p_lock", "p_recheck", "p_asleep", "p_expired", "p_woken", "p_run", "p_check"} :
        /\ Move(t, p)
        /\ at[t] \in {"p_check", "p_lock", "p_woken", "p_expired", "p_asleep", "p_recheck", "p_body"}
        /\ p \in BeforeRun => at[t] \in BeforeRun \/ m_poolState = "running"
  BY DEF periodic_check, periodic_wait, periodic_recheck, periodic_done, periodic_expire,
         periodic_spurious, PeriodicSeesStop, BeforeRun
<1>2. /\ Goto(t, p)
      /\ UNCHANGED <<queueVars, m_poolState, m_mtx, m_joinMtx, next, threads, arg, frames,
                     told, runs, late, shutReturned>>
  BY <1>1 DEF Move, locks, history
<1>3. StackOf(t, p) /\ m_joinMtx' \subseteq Threads /\ p \in Places
  BY <1>1, <1>2, Zenon DEF StackOf, Inv, Types, Stacks, StackAt, CallPlaces, Places
<1>4. MayMove(t, p)
  BY <1>1, Zenon DEF MayMove, Inv, Construction
<1> QED BY <1>1, <1>2, <1>3, <1>4, PlainMove, Zenon DEF Busy

\* A periodic thread begins a run, perhaps after a shutdown has returned.
LEMMA PeriodicRunStep ==
  ASSUME Inv, NEW t \in Periodics, periodic_run(t)
  PROVE  Inv'
<1>   t \in Threads /\ t \notin Workers /\ Types /\ Stopping /\ Stopped /\ Lateness /\ "p_body" \in Places
  BY ThreadFacts DEF Inv, Places
<1>1. /\ at[t] = "p_run" /\ Goto(t, "p_body")
      /\ UNCHANGED <<queueVars, m_poolState, m_mtx, m_joinMtx, next, threads, arg, frames,
                     told, runs, shutReturned>>
      /\ late' = [late EXCEPT ![t] = IF shutReturned THEN @ + 1 ELSE @]
  BY DEF periodic_run, locks
<1>2. at' \in [Threads -> Places] /\ at'[t] = "p_body" /\ \A u \in Threads \ {t} : at'[u] = at[u]
  BY <1>1, GotoFacts
<1>3. late[t] = 0 /\ late \in [Periodics -> Nat]
  BY <1>1 DEF Lateness, BeforeRun, Types
<1>4. Lateness' /\ late' \in [Periodics -> Nat]
  BY <1>1, <1>2, <1>3, ThreadFacts DEF Lateness, BeforeRun
<1>5. Types'
  BY <1>1, <1>2, <1>4 DEF Types, threads
<1>6. frames[t] = <<>>
  BY <1>1, Zenon DEF Inv, Stacks, StackAt, StackOf, CallPlaces
<1>7. QuietMove
  BY <1>1, <1>2, <1>6, Zenon DEF QuietMove, StackOf, CallPlaces, Busy
<1>8. Stopping' /\ Stopped'
  BY <1>1, ControlGoto DEF queueVars
<1>9. MayMove(t, "p_body")
  BY <1>1, Zenon DEF MayMove, Inv, Construction
<1>10. Construction'
  BY <1>1, <1>9, ConstructionGoto DEF queueVars
<1> QED BY <1>4, <1>5, <1>7, <1>8, <1>10, QuietInv, Zenon DEF Inv
-----------------------------------------------------------------------------
\* Where a call of the pool returns to.
LEMMA HereFacts ==
  ASSUME Inv, NEW t \in Threads, at[t] \in CallPlaces
  PROVE  /\ Here(t) \in {"body", "idle", "p_body"} /\ StackOf(t, Here(t))
         /\ Unconstructed => t \in Clients /\ Here(t) # "body"
<1>1. t \in Workers => frames[t] # <<>>
  BY Zenon DEF Inv, Stacks, StackAt, StackOf
<1>2. Here(t) \in {"body", "idle", "p_body"} /\ StackOf(t, Here(t))
  BY <1>1, ThreadFacts DEF Here, UserCode, StackOf, CallPlaces
<1>3. ASSUME Unconstructed PROVE t \in Clients
  BY <1>3 DEF Inv, Construction, Threads, CallPlaces
<1>4. ASSUME Unconstructed PROVE frames[t] = <<>>
  BY <1>3, <1>4 DEF Inv, Construction
<1> QED BY <1>2, <1>3, <1>4 DEF Here, UserCode

\* shutdown_graceful returns when the queue is closed.
LEMMA StopReturn ==
  ASSUME Inv, NEW t \in Threads, at[t] \in {"shutdown", "closing"},
         at[t] = "closing" => pc[t] = "idle", m_state = "closing", Goto(t, AfterShutdown(t)),
         UNCHANGED <<queueVars, m_poolState, m_joinMtx, next, threads, arg, frames, told, runs, late>>,
         shutReturned' = TRUE, m_mtx' \subseteq Threads,
         \A u \in Threads \ {t} : at[u] \in {"close", "closing"} => m_mtx' = {u}
  PROVE  Inv'
<1>   Types /\ Stopping /\ Stopped /\ m_poolState # "running"
  BY Zenon DEF Inv, Stopping
<1> DEFINE p == AfterShutdown(t)
<1>1. /\ p \in {"join_lock", "body", "idle", "p_body"} /\ StackOf(t, p) /\ p \in Places
      /\ Unconstructed => t \in Clients /\ p # "body"
  <2>1. at[t] \in CallPlaces /\ (t \in Workers => frames[t] # <<>>)
    BY Zenon DEF CallPlaces, Inv, Stacks, StackAt, StackOf
  <2>2. StackOf(t, "join_lock")
    BY <2>1 DEF StackOf, CallPlaces
  <2> QED BY <2>1, <2>2, HereFacts, Zenon DEF AfterShutdown, Places, CallPlaces
<1>2. Goto(t, p)
  OBVIOUS
<1> HIDE DEF p
<1>3. at' \in [Threads -> Places] /\ at'[t] = p /\ \A u \in Threads \ {t} : at'[u] = at[u]
  BY <1>1, <1>2, GotoFacts, Zenon
<1>4. QuietMove
  BY <1>1, <1>3, Zenon DEF QuietMove, Busy
<1>5. Types'
  BY <1>3 DEF Types, threads
<1>6. Stopping'
  BY <1>1, <1>3, Zenon DEF Stopping, queueVars
<1>7. Stopped'
  <2>1. JoinOrder' = JoinOrder /\ UNCHANGED <<m_activeWorkers, m_periodicWorkers, m_state>>
    BY Zenon DEF JoinOrder, threads, queueVars
  <2>2. m_poolState' = "stopped" =>
          m_state' = "closing" /\ \A u \in Workers \cup Periodics : at'[u] \in {"unborn", "exited"}
    BY <1>3, <2>1, ThreadFacts, Zenon DEF Stopped
  <2>3. ASSUME NEW u \in Threads, at'[u] = "join_loop", NEW i \in 1..Len(JoinOrder), i < next'[u]
        PROVE  at'[JoinOrder[i]] = "exited"
    <3>1. JoinOrder[i] \in Threads
      BY JoinOrderType, ThreadFacts, Zenon
    <3>2. at[u] = "join_loop" /\ at[JoinOrder[i]] = "exited"
      BY <1>1, <1>3, <2>3, Zenon DEF Stopped
    <3> QED BY <1>3, <3>1, <3>2, Zenon
  <2>4. /\ {w \in Workers : at'[w] # "unborn"} = {w \in Workers : at[w] # "unborn"}
        /\ {q \in Periodics : at'[q] # "unborn"} = {q \in Periodics : at[q] # "unborn"}
    BY <1>1, <1>3, ThreadFacts
  <2> QED BY <2>1, <2>2, <2>3, <2>4 DEF Stopped
<1>8. Construction'
  <2>1. MayMove(t, p) /\ p \notin {"unborn", "ctor"}
    BY <1>1, Zenon DEF MayMove
  <2> QED BY <1>1, <1>2, <2>1, ConstructionGoto, Zenon DEF queueVars
<1>9. Lateness'
  BY <1>1, <1>2, LatenessGoto, Zenon DEF BeforeRun
<1> QED BY <1>4, <1>5, <1>6, <1>7, <1>8, <1>9, QuietInv, Zenon DEF Inv

\* The first shutdown_graceful stops the pool under m_mtx; a later one waits for it.
LEMMA ShutdownStep ==
  ASSUME Inv, NEW t \in Threads, shutdown_graceful(t)
  PROVE  Inv'
<1>   /\ Types /\ Stopping /\ Stopped /\ Construction /\ Lateness /\ Stacks
      /\ at[t] = "shutdown" /\ m_mtx = {}
      /\ UNCHANGED <<queueVars, m_joinMtx, next, threads, arg, frames, told, runs, late>>
  BY DEF Inv, shutdown_graceful
<1>1. CASE /\ m_poolState # "running" /\ Goto(t, AfterShutdown(t)) /\ shutReturned' = TRUE
           /\ UNCHANGED <<m_poolState, m_mtx>>
  <2>1. m_state = "closing" /\ \A u \in Threads : at[u] \notin {"close", "closing"}
    BY <1>1 DEF Stopping
  <2> QED BY <1>1, <2>1, StopReturn DEF Types
<1>2. CASE /\ m_poolState = "running" /\ m_poolState' = "stopping" /\ m_mtx' = {t}
           /\ at' = [u \in Threads |-> IF u \in PeriodicSleepers THEN "p_woken"
                                       ELSE IF u = t THEN "close" ELSE at[u]]
           /\ UNCHANGED shutReturned
  <2>1. /\ at' \in [Threads -> Places] /\ at'[t] = "close"
        /\ \A u \in Threads \ {t} : at'[u] = at[u] \/ (at[u] = "p_asleep" /\ at'[u] = "p_woken" /\ u \in Periodics)
    BY <1>2, ThreadFacts DEF Types, Places, CallPlaces, PeriodicSleepers
  <2>2. QuietMove
    <3>1. ASSUME NEW u \in Threads, at[u] = "p_asleep", u \in Periodics PROVE StackOf(u, "p_woken")
      BY <3>1 DEF Stacks, StackAt, StackOf, CallPlaces
    <3>2. StackOf(t, "close")
      BY DEF Stacks, StackAt, StackOf, CallPlaces
    <3> QED BY <2>1, <3>1, <3>2, Zenon DEF QuietMove, Busy
  <2>3. Types'
    BY <1>2, <2>1 DEF Types, threads
  <2>4. Stopping'
    BY <1>2, <2>1 DEF Stopping, queueVars
  <2>5. Stopped'
    <3>1. \A u \in Threads : at'[u] # "join_loop"
      BY <1>2, <2>1 DEF Stopping
    <3>2. \A u \in Threads : at'[u] # "unborn" <=> at[u] # "unborn"
      BY <2>1
    <3>3. /\ {w \in Workers : at'[w] # "unborn"} = {w \in Workers : at[w] # "unborn"}
          /\ {q \in Periodics : at'[q] # "unborn"} = {q \in Periodics : at[q] # "unborn"}
      BY <3>2, ThreadFacts, Zenon
    <3> QED BY <1>2, <3>1, <3>3, Zenon DEF Stopped, threads
  <2>6. at[Creator] # "ctor"
    BY ThreadFacts DEF Construction, Unconstructed, Threads
  <2>7. Unconstructed' => Unconstructed
    BY <2>1, ThreadFacts DEF Unconstructed, Unborn
  <2>8. Construction'
    BY <1>2, <2>1, <2>6, <2>7, ThreadFacts, Zenon DEF Construction, queueVars
  <2>9. Lateness'
    BY <1>2, <2>1, ThreadFacts, Zenon DEF Lateness, BeforeRun
  <2> QED BY <2>2, <2>3, <2>4, <2>5, <2>8, <2>9, QuietInv, Zenon DEF Inv
<1> QED BY <1>1, <1>2, Zenon DEF shutdown_graceful, Locked

\* It returns, and releases m_mtx, when the queue is closed.
LEMMA ShutdownReturnStep ==
  ASSUME Inv, NEW t \in Threads, shutdown_return(t)
  PROVE  Inv'
<1>   /\ Types /\ Stopping /\ at[t] = "closing" /\ pc[t] = "idle" /\ m_mtx' = m_mtx \ {t}
      /\ UNCHANGED <<queueVars, m_poolState, m_joinMtx, next, threads, arg, frames, told, runs, late>>
      /\ Goto(t, AfterShutdown(t)) /\ shutReturned' = TRUE
  BY Zenon DEF Inv, shutdown_return, Unlocked
<1>1. /\ m_state = "closing" /\ m_mtx' \subseteq Threads
      /\ \A u \in Threads \ {t} : at[u] \in {"close", "closing"} => m_mtx' = {u}
  BY DEF Stopping, Types
<1> QED BY <1>1, StopReturn, Zenon

\* join waits for m_joinMtx, and finds the pool stopped or begins its loop.
LEMMA JoinLockStep ==
  ASSUME Inv, NEW t \in Threads, join_lock(t)
  PROVE  Inv'
<1>0. /\ Types /\ Stopping /\ Stopped /\ at[t] = "join_lock" /\ at[t] \in CallPlaces
      /\ UNCHANGED <<queueVars, m_poolState, m_mtx, threads, arg, frames, told, runs, late, shutReturned>>
      /\ m_poolState # "running" /\ m_state = "closing"
  BY DEF Inv, join_lock, history, CallPlaces, Stopping
<1>1. CASE Goto(t, AfterJoin(t)) /\ UNCHANGED <<m_joinMtx, next>>
  <2>1. PICK p \in {"threw", "body", "idle", "p_body"} :
          p = AfterJoin(t) /\ StackOf(t, p) /\ (Unconstructed => t \in Clients /\ p # "body")
    <3>1. StackOf(t, "threw")
      BY DEF StackOf, CallPlaces
    <3> QED BY <1>0, <3>1, HereFacts DEF AfterJoin
  <2>2. MayMove(t, p) /\ p \in Places /\ Goto(t, p) /\ m_joinMtx' \subseteq Threads
    BY <1>0, <1>1, <2>1 DEF MayMove, Places, Types
  <2> QED BY <1>0, <1>1, <2>1, <2>2, PlainMove, Zenon DEF Busy, BeforeRun
<1>2. CASE Goto(t, "join_loop") /\ m_joinMtx' = {t} /\ next' = [next EXCEPT ![t] = 1]
  <2>0. "join_loop" \in Places
    BY DEF Places, CallPlaces
  <2>1. /\ at' \in [Threads -> Places] /\ at'[t] = "join_loop"
        /\ \A u \in Threads \ {t} : at'[u] = at[u] /\ next'[u] = next[u]
        /\ next'[t] = 1 /\ next' \in [Threads -> Nat]
    BY <1>0, <1>2, <2>0, GotoFacts DEF Types
  <2>2. QuietMove
    <3>1. StackOf(t, "join_loop")
      BY <1>0 DEF Inv, Stacks, StackAt, StackOf, CallPlaces
    <3> QED BY <1>0, <2>1, <3>1 DEF QuietMove, Busy
  <2>3. Types'
    BY <1>0, <1>2, <2>1 DEF Types, threads
  <2>4. Stopping'
    BY <1>0, <2>1 DEF Stopping, queueVars
  <2>5. Stopped'
    <3>1. JoinOrder' = JoinOrder /\ UNCHANGED <<m_activeWorkers, m_periodicWorkers, m_state>>
      BY <1>0 DEF JoinOrder, threads, queueVars
    <3>2. m_poolState' = "stopped" =>
            m_state' = "closing" /\ \A u \in Workers \cup Periodics : at'[u] \in {"unborn", "exited"}
      BY <1>0, <2>1, <3>1, ThreadFacts, Zenon DEF Stopped
    <3>3. ASSUME NEW u \in Threads, at'[u] = "join_loop", NEW i \in 1..Len(JoinOrder), i < next'[u]
          PROVE  at'[JoinOrder[i]] = "exited"
      <4>1. JoinOrder[i] \in Threads /\ u # t
        <5>1. JoinOrder[i] \in Workers \cup Periodics
          BY <1>0, JoinOrderType, Zenon
        <5>2. u # t
          BY <2>1, <3>3
        <5> QED BY <5>1, <5>2, ThreadFacts, Zenon
      <4>2. at[u] = "join_loop" /\ at[JoinOrder[i]] = "exited"
        BY <1>0, <2>1, <3>3, <4>1 DEF Stopped
      <4> QED BY <1>0, <2>1, <4>1, <4>2, Zenon
    <3>4. /\ {w \in Workers : at'[w] # "unborn"} = {w \in Workers : at[w] # "unborn"}
          /\ {q \in Periodics : at'[q] # "unborn"} = {q \in Periodics : at[q] # "unborn"}
      BY <1>0, <2>1, ThreadFacts
    <3> QED BY <1>0, <3>1, <3>2, <3>3, <3>4, Zenon DEF Stopped
  <2>6. MayMove(t, "join_loop")
    BY <1>0, HereFacts DEF MayMove
  <2>7. Construction'
    BY <1>0, <1>2, <2>0, <2>6, ConstructionGoto DEF queueVars
  <2>8. Lateness'
    BY <1>0, <1>2, <2>0, LatenessGoto DEF BeforeRun
  <2> QED BY <2>2, <2>3, <2>4, <2>5, <2>7, <2>8, QuietInv, Zenon DEF Inv
<1> QED BY <1>1, <1>2, Zenon DEF join_lock, Locked
-----------------------------------------------------------------------------
\* The loop of join passes a thread that exited, or terminates the process.
LEMMA JoinLoopStep ==
  ASSUME Inv, NEW t \in Threads, blocking_thread_stopping(t)
  PROVE  Inv'
<1>0. /\ Types /\ Stopping /\ Stopped /\ at[t] = "join_loop" /\ next[t] <= Len(JoinOrder)
      /\ UNCHANGED <<queueVars, m_poolState, m_mtx, m_joinMtx, threads, at, arg, frames,
                     told, runs, late, shutReturned>>
      /\ next[t] \in Nat /\ Len(JoinOrder) \in Nat
  BY JoinOrderType, Zenon DEF Inv, blocking_thread_stopping, history, Types
<1>1. /\ next' \in [Threads -> Nat]
      /\ next' = next \/ (/\ next' = [next EXCEPT ![t] = next[t] + 1]
                          /\ at[JoinOrder[next[t]]] = "exited")
  <2>1. next' = next \/ (/\ next' = [next EXCEPT ![t] = next[t] + 1]
                        /\ at[JoinOrder[next[t]]] = "exited")
    BY Zenon DEF blocking_thread_stopping, Joined
  <2> QED BY <1>0, <2>1 DEF Types
<1>2. QuietMove
  BY <1>0 DEF QuietMove, Types
<1>3. Types'
  BY <1>0, <1>1 DEF Types, threads
<1>4. Stopping'
  BY <1>0, Zenon DEF Stopping, queueVars
<1>5. Stopped'
  <2>1. JoinOrder' = JoinOrder /\ UNCHANGED <<m_activeWorkers, m_periodicWorkers, m_state>>
    BY <1>0, Zenon DEF JoinOrder, threads, queueVars
  <2>2. ASSUME NEW u \in Threads, at[u] = "join_loop", NEW i \in 1..Len(JoinOrder), i < next'[u]
        PROVE  at[JoinOrder[i]] = "exited"
    <3>0. next[u] \in Nat /\ (i < next[u] => at[JoinOrder[i]] = "exited")
      BY <1>0, <2>2, Zenon DEF Stopped, Types
    <3>1. next[u] \in Nat /\ i \in Nat /\ (i < next[u] => at[JoinOrder[i]] = "exited")
      BY <1>0, <3>0, IndexFacts, Zenon
    <3>2. i < next[u] \/ (u = t /\ i = next[t] /\ at[JoinOrder[next[t]]] = "exited")
      BY <1>0, <1>1, <2>2, <3>1 DEF Types
    <3> QED BY <3>1, <3>2
  <2> QED BY <1>0, <2>1, <2>2, Zenon DEF Stopped
<1>6. Construction' /\ Lateness'
  BY <1>0, Zenon DEF Inv, Construction, Lateness, Unconstructed, Unborn, queueVars
<1> QED BY <1>2, <1>3, <1>4, <1>5, <1>6, QuietInv, Zenon DEF Inv

\* The loop of join is done: every thread of the pool has exited, so that none of them
\* is the thread that joins.
LEMMA JoinDoneFacts ==
  ASSUME Inv, NEW t \in Threads, at[t] = "join_loop", next[t] > Len(JoinOrder)
  PROVE  \A u \in Workers \cup Periodics : at[u] \in {"unborn", "exited"}
<1>   Types /\ Stopped /\ next[t] \in Nat
  BY DEF Inv, Types
<1>1. /\ JoinOrder \in Seq(Workers \cup Periodics) /\ Len(JoinOrder) \in Nat
      /\ Range(JoinOrder) = Range(m_periodicWorkers) \cup Range(m_activeWorkers)
  BY JoinOrderType
<1>2. Range(JoinOrder) = {JoinOrder[i] : i \in 1..Len(JoinOrder)}
  BY <1>1, RangeIs
<1>3. \A i \in 1..Len(JoinOrder) : at[JoinOrder[i]] = "exited"
  <2> SUFFICES ASSUME NEW i \in 1..Len(JoinOrder) PROVE at[JoinOrder[i]] = "exited"
    BY Zenon
  <2>1. i < next[t]
    BY <1>1, IndexFacts, Zenon
  <2> QED BY <2>1, Zenon DEF Stopped
<1>4. \A u \in Range(JoinOrder) : at[u] = "exited"
  BY <1>2, <1>3
<1> QED BY <1>1, <1>4, Zenon DEF Stopped

\* join returns and the pool is stopped.
LEMMA JoinReturnStep ==
  ASSUME Inv, NEW t \in Threads, join_return(t)
  PROVE  Inv'
<1>   /\ Types /\ Stopping /\ Stopped /\ at[t] = "join_loop" /\ at[t] \in CallPlaces
      /\ UNCHANGED <<queueVars, m_mtx, next, threads, arg, frames, told, runs, late, shutReturned>>
      /\ m_poolState' = "stopped" /\ m_joinMtx' = m_joinMtx \ {t}
      /\ Goto(t, AfterJoin(t)) /\ next[t] > Len(JoinOrder)
      /\ m_poolState # "running" /\ m_state = "closing"
  BY Zenon DEF Inv, join_return, Unlocked, history, CallPlaces, Stopping
<1>1. PICK p \in {"threw", "body", "idle", "p_body"} :
        p = AfterJoin(t) /\ StackOf(t, p) /\ (Unconstructed => t \in Clients /\ p # "body")
  <2>1. StackOf(t, "threw")
    BY Zenon DEF StackOf, CallPlaces
  <2> QED BY <2>1, HereFacts, Zenon DEF AfterJoin
<1>2. Goto(t, p) /\ p \in Places /\ MayMove(t, p)
  BY <1>1 DEF MayMove, Places
<1>3. at' \in [Threads -> Places] /\ at'[t] = p /\ \A u \in Threads \ {t} : at'[u] = at[u]
  BY <1>2, GotoFacts, Zenon
<1>4. QuietMove
  BY <1>1, <1>3, Zenon DEF QuietMove, Busy
<1>5. Types'
  BY <1>3 DEF Types, threads
<1>6. Stopping'
  BY <1>3, Zenon DEF Stopping, queueVars
<1>7. Stopped'
  <2>1. JoinOrder' = JoinOrder /\ UNCHANGED <<m_activeWorkers, m_periodicWorkers, m_state>>
    BY DEF JoinOrder, threads, queueVars
  <2>2. \A u \in Workers \cup Periodics : at[u] \in {"unborn", "exited"} /\ u # t
    BY JoinDoneFacts
  <2>3. \A u \in Workers \cup Periodics : at'[u] = at[u]
    BY <1>3, <2>2, ThreadFacts, Zenon
  <2>4. ASSUME NEW u \in Threads, at'[u] = "join_loop", NEW i \in 1..Len(JoinOrder), i < next'[u]
        PROVE  at'[JoinOrder[i]] = "exited"
    <3>1. JoinOrder[i] \in Workers \cup Periodics
      BY JoinOrderType
    <3>2. at[u] = "join_loop" /\ at[JoinOrder[i]] = "exited"
      BY <1>3, <2>4, Zenon DEF Stopped
    <3> QED BY <2>3, <3>1, <3>2
  <2> QED BY <2>1, <2>2, <2>3, <2>4, Zenon DEF Stopped
<1>8. Construction'
  BY <1>1, <1>2, ConstructionGoto, Zenon DEF queueVars
<1>9. Lateness'
  BY <1>2, LatenessGoto, Zenon DEF BeforeRun
<1> QED BY <1>4, <1>5, <1>6, <1>7, <1>8, <1>9, QuietInv, Zenon DEF Inv
=============================================================================
