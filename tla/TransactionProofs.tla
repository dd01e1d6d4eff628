--------------------------- MODULE TransactionProofs ---------------------------
(***************************************************************************)
(* What with_retry, savepoints and the pool do together, for any number of *)
(* threads, connections, retries, statements and savepoints.               *)
(***************************************************************************)
EXTENDS Transaction, SequenceTheorems, TLAPS

\* Where a thread is, with a lease in its hands or without.
Holding == {"begin", "isolation", "body", "unwind", "finish", "release", "reset"}
Places  == Holding \cup {"outside", "acquire", "waiting", "spent"}
Outcomes == Errors \cup {"none", "constructor", "logic"}
Savepoints == [id : Nat, active : BOOLEAN]
Records == [at : Places, mode : Modes, i : Nat, err : Outcomes,
            stmts : Nat, next : Nat, sps : Seq(Savepoints)]
Sessions == [st : {"none", "ok", "failed"}, sps : SUBSET Nat]

Types ==
  /\ transaction_active \subseteq Conns
  /\ server \in [Conns -> Sessions]
  /\ tx \in [Threads -> Records]
  /\ durable \in [Threads -> Nat]
  /\ inDoubt \in [Threads -> BOOLEAN]
  /\ silent \in [Threads -> SUBSET (Errors \cup {"handled"})]
  /\ disordered \in [Threads -> BOOLEAN]
  /\ selfEnded \in [Threads -> BOOLEAN]

\* What of the pool's state the transactions rely on; nobody has two leases.
PoolTypes ==
  /\ connections \in Seq(Conns) /\ idle_connections = Len(connections)
  /\ owner \in [Conns -> Threads \cup {Nobody}]
  /\ open \subseteq Conns
  /\ at \in [Threads -> {"idle", "asleep", "woken", "expired"}]

OneLease == \A c, d \in Conns : owner[c] = owner[d] /\ owner[c] # Nobody => c = d

PoolOK == PoolTypes /\ Pool!OnePlace /\ Pool!IdleAreOpen /\ OneLease

\* A thread has a lease exactly from the acquire to the release, and is in the pool's
\* wait exactly in between.
Placed(t) ==
  /\ tx[t].at \in Holding <=> \E c \in Conns : owner[c] = t
  /\ tx[t].at = "waiting" <=> at[t] # "idle"

\* Nothing was committed, or fn ended an attempt by itself and nothing is promised.
NoEffect(t) == selfEnded[t] \/ durable[t] = 0

\* What was committed, by where the call is: nothing before COMMIT; after it the attempt
\* succeeded, or the exception is the one with_retry does not take for a conflict.
Committed(t) ==
  /\ \/ NoEffect(t)
     \/ /\ durable[t] = 1 /\ inDoubt[t] /\ tx[t].err = "aborted"
        /\ tx[t].at \in {"finish", "release", "outside"}
     \/ durable[t] = 1 /\ tx[t].err = "none" /\ tx[t].at \in {"release", "outside"}
  /\ tx[t].at \in {"acquire", "waiting", "begin", "isolation", "body"} => tx[t].err = "none"
  /\ tx[t].at \in {"unwind", "finish"} => tx[t].err # "none"
  /\ tx[t].at = "release" /\ tx[t].err = "none" /\ silent[t] = {} /\ ~selfEnded[t] => durable[t] = 1

\* The savepoints in scope are numbered in the order in which they were made, in fn.
Numbered(t) ==
  /\ \A i \in DOMAIN tx[t].sps : tx[t].sps[i].id <= tx[t].next
  /\ \A i, j \in DOMAIN tx[t].sps : i < j => tx[t].sps[i].id < tx[t].sps[j].id
  /\ tx[t].at \in {"acquire", "waiting", "begin", "isolation", "reset"} => tx[t].sps = <<>>
  /\ "query" \in silent[t] => disordered[t]

ThreadOK(t) == Placed(t) /\ Committed(t) /\ Numbered(t)

\* A connection in nobody's hands, or in those of a thread that has not begun or has
\* finished, carries no transaction.
Clean(c) == c \notin transaction_active /\ server[c] = NoTx

\* The session of the lease that t holds: in order as long as nothing was swallowed, and
\* it knows every savepoint in scope that is active.
Session(t, c) ==
  /\ tx[t].at \in {"begin", "release", "reset"} => Clean(c)
  /\ tx[t].at \in {"isolation", "body"} /\ c \in open /\ silent[t] = {} => server[c].st = "ok"
  /\ tx[t].at \in {"body", "unwind"} /\ c \in open /\ ~disordered[t] =>
       \A i \in DOMAIN tx[t].sps : tx[t].sps[i].active => tx[t].sps[i].id \in server[c].sps

ConnOK(c) ==
  /\ owner[c] = Nobody => Clean(c)
  /\ \A t \in Threads : owner[c] = t => Session(t, c)

Inv ==
  /\ Types /\ PoolOK
  /\ \A t \in Threads : ThreadOK(t)
  /\ \A c \in Conns : ConnOK(c)
-----------------------------------------------------------------------------
\* The lease of a thread that holds one, and that it holds no other.
LEMMA LeaseOwned ==
  ASSUME PoolOK, NEW t \in Threads, Placed(t), tx[t].at \in Holding
  PROVE  /\ Lease(t) \in Conns /\ owner[Lease(t)] = t /\ t # Nobody
         /\ \A d \in Conns : d # Lease(t) => owner[d] # t
<1>1. \E c \in Conns : owner[c] = t
  BY Zenon DEF Placed
<1>2. Lease(t) \in Conns /\ owner[Lease(t)] = t
  BY <1>1, Zenon DEF Lease
<1>3. t # Nobody
  BY TransactionAssumption DEF TransactionAssumption
<1> QED BY <1>2, <1>3 DEF PoolOK, OneLease

\* What a step that leaves thread u alone, or connection d, does not change.
SameThread(u) ==
  /\ tx'[u] = tx[u] /\ durable'[u] = durable[u] /\ inDoubt'[u] = inDoubt[u]
  /\ silent'[u] = silent[u] /\ disordered'[u] = disordered[u] /\ selfEnded'[u] = selfEnded[u]
  /\ at'[u] # "idle" <=> at[u] # "idle"

SameConn(d) ==
  /\ owner'[d] = owner[d] /\ server'[d] = server[d]
  /\ d \in open' <=> d \in open
  /\ d \in transaction_active' <=> d \in transaction_active

\* What the invariant says of a thread and its lease, neither of which a step touches.
LEMMA UntouchedSession ==
  ASSUME NEW u \in Threads, NEW d \in Conns, SameThread(u), SameConn(d), Session(u, d)
  PROVE  Session(u, d)'
<1>1. Clean(d)' <=> Clean(d)
  BY DEF SameConn, Clean, NoTx
<1>2. tx[u].at \in {"begin", "release", "reset"} => Clean(d)
  BY DEF Session
<1>3. tx[u].at \in {"isolation", "body"} /\ d \in open /\ silent[u] = {} => server[d].st = "ok"
  BY DEF Session
<1>4. tx[u].at \in {"body", "unwind"} /\ d \in open /\ ~disordered[u] =>
       \A i \in DOMAIN tx[u].sps : tx[u].sps[i].active => tx[u].sps[i].id \in server[d].sps
  BY DEF Session
<1>5. /\ tx'[u] = tx[u] /\ silent'[u] = silent[u] /\ disordered'[u] = disordered[u] /\ selfEnded'[u] = selfEnded[u]
      /\ server'[d] = server[d] /\ (d \in open' <=> d \in open)
  BY Zenon DEF SameThread, SameConn
<1> QED BY <1>1, <1>2, <1>3, <1>4, <1>5, Zenon DEF Session

\* The same for the thread by itself.
LEMMA UntouchedThread ==
  ASSUME NEW u \in Threads, SameThread(u), ThreadOK(u),
         (\E c \in Conns : owner'[c] = u) <=> (\E c \in Conns : owner[c] = u)
  PROVE  ThreadOK(u)'
<1>1. Placed(u)'
  <2>1. /\ tx[u].at \in Holding <=> \E c \in Conns : owner[c] = u
        /\ tx[u].at = "waiting" <=> at[u] # "idle"
    BY DEF ThreadOK, Placed
  <2>2. tx'[u] = tx[u] /\ (at'[u] # "idle" <=> at[u] # "idle")
    BY DEF SameThread
  <2> QED BY <2>1, <2>2 DEF Placed
<1>2. Committed(u)'
  BY Zenon DEF ThreadOK, Committed, NoEffect, SameThread
<1>3. Numbered(u)'
  BY Zenon DEF ThreadOK, Numbered, SameThread
<1> QED BY <1>1, <1>2, <1>3 DEF ThreadOK

\* A step of thread t with its lease c, or which gives it c or takes it back, keeps the
\* invariant if it does so for the two of them.
LEMMA LeaseStep ==
  ASSUME Inv, NEW t \in Threads, NEW c \in Conns,
         owner[c] \in {t, Nobody}, owner'[c] \in {t, Nobody},
         \A d \in Conns : d # c => owner[d] # t /\ SameConn(d),
         \A u \in Threads : u # t => SameThread(u),
         Types', PoolOK', ThreadOK(t)', ConnOK(c)'
  PROVE  Inv'
<1>1. ASSUME NEW u \in Threads, u # t PROVE ThreadOK(u)'
  <2>1. owner[c] # u /\ owner'[c] # u
    BY <1>1, TransactionAssumption DEF TransactionAssumption
  <2>2. \A d \in Conns : owner'[d] = u <=> owner[d] = u
    BY <2>1, Zenon DEF SameConn
  <2>3. (\E d \in Conns : owner'[d] = u) <=> (\E d \in Conns : owner[d] = u)
    BY <2>2, Zenon
  <2>4. ThreadOK(u) /\ SameThread(u)
    BY <1>1, Zenon DEF Inv
  <2> QED BY <2>3, <2>4, UntouchedThread, Zenon
<1>2. ASSUME NEW d \in Conns, d # c PROVE ConnOK(d)'
  <2>1. SameConn(d) /\ owner[d] # t /\ ConnOK(d) /\ owner'[d] = owner[d]
    BY <1>2, Zenon DEF Inv, SameConn
  <2>2. owner'[d] = Nobody => Clean(d)'
    BY <2>1 DEF ConnOK, Clean, SameConn, NoTx
  <2>3. ASSUME NEW u \in Threads, owner'[d] = u PROVE Session(u, d)'
    <3>1. u # t /\ owner[d] = u
      BY <2>1, <2>3
    <3>2. SameThread(u) /\ Session(u, d)
      BY <2>1, <3>1, Zenon DEF ConnOK
    <3> QED BY <2>1, <3>2, UntouchedSession, Zenon
  <2> QED BY <2>2, <2>3, Zenon DEF ConnOK
<1> QED BY <1>1, <1>2, Zenon DEF Inv

\* So does a step of t that touches no connection.
LEMMA ThreadStep ==
  ASSUME Inv, NEW t \in Threads, \A d \in Conns : SameConn(d),
         \A u \in Threads : u # t => SameThread(u),
         Types', PoolOK', ThreadOK(t)', \A c \in Conns : owner[c] = t => Session(t, c)'
  PROVE  Inv'
<1>1. ASSUME NEW u \in Threads, u # t PROVE ThreadOK(u)'
  <2>1. (\E d \in Conns : owner'[d] = u) <=> (\E d \in Conns : owner[d] = u)
    BY Zenon DEF SameConn
  <2>2. ThreadOK(u) /\ SameThread(u)
    BY <1>1, Zenon DEF Inv
  <2> QED BY <2>1, <2>2, UntouchedThread, Zenon
<1>2. ASSUME NEW d \in Conns PROVE ConnOK(d)'
  <2>1. SameConn(d) /\ ConnOK(d) /\ owner'[d] = owner[d]
    BY Zenon DEF Inv, SameConn
  <2>2. owner'[d] = Nobody => Clean(d)'
    BY <2>1 DEF ConnOK, Clean, SameConn, NoTx
  <2>3. ASSUME NEW u \in Threads, owner'[d] = u PROVE Session(u, d)'
    <3>1. CASE u = t
      BY <2>1, <2>3, <3>1, Zenon
    <3>2. CASE u # t
      <4>1. SameThread(u) /\ Session(u, d)
        BY <2>1, <2>3, <3>2, Zenon DEF ConnOK
      <4> QED BY <2>1, <4>1, UntouchedSession, Zenon
    <3> QED BY <3>1, <3>2
  <2> QED BY <2>2, <2>3, Zenon DEF ConnOK
<1> QED BY <1>1, <1>2, Zenon DEF Inv
-----------------------------------------------------------------------------
\* A sequence without its last element, and that element.
Front(s) == SubSeq(s, 1, Len(s) - 1)
Last(s)  == s[Len(s)]

\* The last element of a sequence and what precedes it.
LEMMA FrontLast ==
  ASSUME NEW S, NEW s \in Seq(S), s # <<>>
  PROVE  /\ Len(s) \in Nat \ {0} /\ Last(s) \in S /\ Last(s) = s[Len(s)]
         /\ Front(s) \in Seq(S) /\ Len(Front(s)) = Len(s) - 1
         /\ \A i \in 1..(Len(s) - 1) : Front(s)[i] = s[i]
<1>1. Len(s) \in Nat \ {0} /\ \A i \in 1..Len(s) : s[i] \in S
  BY ElementOfSeq, LenProperties, EmptySeq
<1> DEFINE f == SubSeq(s, 1, Len(s) - 1)
<1>2. 1 \in Int /\ Len(s) - 1 \in Int /\ \A i \in 1..(Len(s) - 1) : s[i] \in S
  BY <1>1
<1>3. f \in Seq(S) /\ Len(f) = Len(s) - 1
  <2>1. f \in Seq(S)
    BY <1>2, SubSeqProperties
  <2>2. Len(f) = IF 1 <= Len(s) - 1 THEN (Len(s) - 1) - 1 + 1 ELSE 0
    BY <1>2, SubSeqProperties
  <2> HIDE DEF f
  <2>3. \A n \in Nat \ {0} : (1 <= n - 1 => (n - 1) - 1 + 1 = n - 1) /\ (~(1 <= n - 1) => n - 1 = 0)
    OBVIOUS
  <2> QED
    BY <1>1, <2>1, <2>2, <2>3, Zenon
<1>4. ASSUME NEW i \in 1..(Len(s) - 1) PROVE f[i] = s[i]
  <2>1. i \in 1..((Len(s) - 1) - 1 + 1)
    BY <1>1
  <2>2. f[i] = s[1 + i - 1]
    BY <1>2, <2>1, SubSeqProperties
  <2>3. 1 + i - 1 = i
    OBVIOUS
  <2> QED
    BY <2>2, <2>3
<1>5. Front(s) = f /\ Last(s) = s[Len(s)]
  BY DEF Front, Last
<1> HIDE DEF f
<1> QED
  BY <1>1, <1>3, <1>4, <1>5

\* What leases c to t: an idle connection popped from the list, or a new one.
Leases(t, c) ==
  owner[c] = Nobody /\ owner' = [owner EXCEPT ![c] = t] /\ open' = open \cup {c}

\* take_connection_locked gives t one free connection, or none when connecting fails.
LEMMA TakeKeepsPool ==
  ASSUME PoolOK, NEW t \in Threads, Pool!take_connection_locked(t), \A c \in Conns : owner[c] # t
  PROVE  /\ PoolOK' /\ at' = [at EXCEPT ![t] = "idle"]
         /\ UNCHANGED <<owner, open>> \/ \E c \in Conns : Leases(t, c)
<1>0. PoolTypes /\ Pool!OnePlace /\ Pool!IdleAreOpen /\ OneLease /\ t # Nobody
  BY TransactionAssumption DEF PoolOK, TransactionAssumption
<1>1. at' = [at EXCEPT ![t] = "idle"] /\ at' \in [Threads -> {"idle", "asleep", "woken", "expired"}]
  BY <1>0 DEF Pool!take_connection_locked, Pool!init_new_connection_locked, PoolTypes
<1>2. ASSUME NEW c \in Conns, Leases(t, c) PROVE OneLease' /\ owner' \in [Conns -> Threads \cup {Nobody}]
  <2>1. owner'[c] = t /\ \A d \in Conns : d # c => owner'[d] = owner[d] /\ owner[d] # t
    BY <1>0, <1>2 DEF PoolTypes, Leases
  <2>2. owner' \in [Conns -> Threads \cup {Nobody}]
    BY <1>0, <1>2 DEF PoolTypes, Leases
  <2> QED BY <1>0, <2>1, <2>2 DEF OneLease
<1>3. CASE idle_connections > 0 /\ connections' = Pool!Popped
  <2> DEFINE c == Last(connections)
             n == Len(connections)
  <2>0. Pool!Popped = Front(connections) /\ connections[Len(connections)] = Last(connections)
    BY DEF Pool!Popped, Front, Last
  <2>1. connections # <<>> /\ n = idle_connections /\ n \in Nat
    BY <1>0, <1>3, EmptySeq, LenProperties DEF PoolTypes
  <2>2. /\ c \in Conns /\ c = connections[n] /\ connections' \in Seq(Conns)
        /\ Len(connections') = n - 1
        /\ \A i \in 1..(n - 1) : connections'[i] = connections[i]
    BY <1>0, <1>3, <2>1, <2>0, FrontLast DEF PoolTypes
  <2>3. idle_connections' = idle_connections - 1 /\ owner' = [owner EXCEPT ![c] = t] /\ open' = open
    BY <1>3, <2>0, <2>1 DEF Pool!take_connection_locked
  <2>4. DOMAIN connections = 1..n /\ DOMAIN connections' = 1..(n - 1) /\ n \in 1..n
    BY <1>0, <1>3, <2>1, <2>2, LenProperties DEF PoolTypes
  <2>5. owner[c] = Nobody /\ c \in open
    BY <1>0, <2>2, <2>4 DEF Pool!OnePlace, Pool!IdleAreOpen
  <2> HIDE DEF c
  <2>6. Leases(t, c)
    BY <2>3, <2>5 DEF Leases
  <2>7. PoolTypes'
    BY <1>0, <1>1, <1>2, <2>1, <2>2, <2>3, <2>6 DEF PoolTypes
  <2>8. Pool!OnePlace'
    <3>1. \A i \in 1..(n - 1) : connections[i] # c /\ connections[i] \in Conns /\ i \in 1..n
      BY <1>0, <2>1, <2>2, <2>4, ElementOfSeq DEF Pool!OnePlace, PoolTypes
    <3>2. ASSUME NEW i \in 1..(n - 1), NEW j \in 1..(n - 1), connections'[i] = connections'[j]
          PROVE  i = j
      BY <1>0, <2>2, <2>4, <3>1, <3>2, Zenon DEF Pool!OnePlace
    <3>3. ASSUME NEW i \in 1..(n - 1) PROVE owner'[connections'[i]] = Nobody
      <4>1. connections'[i] = connections[i] /\ owner[connections[i]] = Nobody
        BY <1>0, <2>2, <2>4, <3>1, Zenon DEF Pool!OnePlace
      <4> QED BY <1>0, <2>3, <3>1, <4>1 DEF PoolTypes
    <3> QED BY <2>4, <3>2, <3>3 DEF Pool!OnePlace
  <2>9. Pool!IdleAreOpen'
    BY <1>0, <2>1, <2>2, <2>3, <2>4 DEF Pool!IdleAreOpen
  <2> QED BY <1>1, <1>2, <2>2, <2>6, <2>7, <2>8, <2>9 DEF PoolOK
<1>4. ASSUME NEW c \in Conns, c \notin Range(connections), Leases(t, c),
             UNCHANGED <<connections, idle_connections>>
      PROVE  PoolOK'
  <2>1. \A i \in DOMAIN connections : connections[i] # c /\ connections[i] \in Conns
    BY <1>0, <1>4, ElementOfSeq, LenProperties DEF Range, PoolTypes
  <2>2. PoolTypes'
    BY <1>0, <1>1, <1>2, <1>4 DEF PoolTypes, Leases
  <2>3. Pool!OnePlace'
    BY <1>0, <1>4, <2>1 DEF Pool!OnePlace, PoolTypes, Leases
  <2>4. Pool!IdleAreOpen'
    BY <1>0, <1>4 DEF Pool!IdleAreOpen, Leases
  <2> QED BY <1>2, <1>4, <2>2, <2>3, <2>4 DEF PoolOK
<1>5. CASE UNCHANGED <<connections, idle_connections, owner, open>>
  BY <1>0, <1>1, <1>5 DEF PoolOK, PoolTypes, Pool!OnePlace, Pool!IdleAreOpen, OneLease
<1>6. CASE idle_connections = 0 /\ Pool!init_new_connection_locked(t)
  <2>1. UNCHANGED <<connections, idle_connections>>
    BY <1>6 DEF Pool!init_new_connection_locked
  <2>2. \/ UNCHANGED <<owner, open>>
        \/ \E c \in Conns : Leases(t, c) /\ c \notin Range(connections)
    BY <1>6 DEF Pool!init_new_connection_locked, Leases, Pool!Range, Range
  <2> QED BY <1>1, <1>4, <1>5, <2>1, <2>2
<1> QED BY <1>3, <1>6 DEF Pool!take_connection_locked

\* A wait, and a wake-up of some thread, move threads only.
LEMMA MoveKeepsPool ==
  ASSUME PoolOK, at' \in [Threads -> {"idle", "asleep", "woken", "expired"}],
         UNCHANGED <<connections, idle_connections, owner, open>>
  PROVE  PoolOK'
BY DEF PoolOK, PoolTypes, Pool!OnePlace, Pool!IdleAreOpen, OneLease

\* mark_broken closes a connection that is not in the idle list.
LEMMA BreakKeepsPool ==
  ASSUME PoolOK, NEW t \in Threads, NEW c \in Conns, Pool!mark_broken(t, c)
  PROVE  PoolOK' /\ UNCHANGED <<owner, at>> /\ open' = open \ {c}
<1>1. /\ owner[c] = t /\ t # Nobody /\ open' = open \ {c}
      /\ UNCHANGED <<connections, idle_connections, owner, at>>
  BY TransactionAssumption DEF Pool!mark_broken, TransactionAssumption
<1>2. \A i \in DOMAIN connections : connections[i] # c
  BY <1>1 DEF PoolOK, Pool!OnePlace
<1>3. PoolTypes' /\ OneLease' /\ Pool!OnePlace'
  BY <1>1 DEF PoolOK, PoolTypes, OneLease, Pool!OnePlace
<1>4. Pool!IdleAreOpen'
  BY <1>1, <1>2 DEF PoolOK, Pool!IdleAreOpen
<1> QED BY <1>1, <1>3, <1>4 DEF PoolOK

\* return_connection puts an open connection back and drops one that is not; waking a
\* sleeper leaves it in its wait.
LEMMA ReturnKeepsPool ==
  ASSUME PoolOK, NEW t \in Threads, NEW c \in Conns, Pool!return_connection(t, c)
  PROVE  /\ PoolOK' /\ owner' = [owner EXCEPT ![c] = Nobody] /\ UNCHANGED open
         /\ \A u \in Threads : at'[u] # "idle" <=> at[u] # "idle"
<1> DEFINE n == Len(connections)
<1>0. PoolTypes /\ Pool!OnePlace /\ Pool!IdleAreOpen /\ OneLease
  BY DEF PoolOK
<1>1. /\ owner[c] = t /\ t # Nobody /\ owner' = [owner EXCEPT ![c] = Nobody] /\ open' = open
      /\ owner' \in [Conns -> Threads \cup {Nobody}]
      /\ owner'[c] = Nobody /\ \A d \in Conns : d # c => owner'[d] = owner[d]
  BY <1>0, TransactionAssumption DEF Pool!return_connection, TransactionAssumption, PoolTypes
<1>2. OneLease'
  BY <1>0, <1>1 DEF OneLease
<1>3. /\ at' \in [Threads -> {"idle", "asleep", "woken", "expired"}]
      /\ \A u \in Threads : at'[u] # "idle" <=> at[u] # "idle"
  BY <1>0 DEF Pool!return_connection, Pool!notify_one, Pool!Sleepers, PoolTypes
<1>4. n \in Nat /\ DOMAIN connections = 1..n /\ \A i \in 1..n : connections[i] # c /\ connections[i] \in Conns
  BY <1>0, <1>1, ElementOfSeq, LenProperties DEF Pool!OnePlace, PoolTypes
<1>5. CASE /\ c \in open /\ connections' = Append(connections, c)
           /\ idle_connections' = idle_connections + 1
  <2>1. /\ connections' \in Seq(Conns) /\ Len(connections') = n + 1
        /\ \A i \in 1..n : connections'[i] = connections[i]
        /\ connections'[n + 1] = c
    BY <1>0, <1>5, AppendProperties, LenProperties DEF PoolTypes
  <2>2. DOMAIN connections' = 1..(n + 1)
    BY <2>1, LenProperties
  <2>3. PoolTypes'
    BY <1>0, <1>1, <1>3, <1>5, <2>1 DEF PoolTypes
  <2>4. \A i \in 1..(n + 1) : i = n + 1 \/ i \in 1..n
    BY <1>4
  <2>5. Pool!OnePlace'
    <3>1. \A i \in 1..n : owner[connections[i]] = Nobody
      BY <1>0, <1>4 DEF Pool!OnePlace
    <3>2. \A i \in 1..n : owner'[connections'[i]] = Nobody
      BY <1>1, <1>4, <2>1, <3>1
    <3>3. \A i \in 1..(n + 1) : owner'[connections'[i]] = Nobody
      BY <1>1, <2>1, <2>4, <3>2
    <3>4. \A i, j \in 1..(n + 1) : connections'[i] = connections'[j] => i = j
      BY <1>0, <1>4, <2>1, <2>4 DEF Pool!OnePlace
    <3> QED BY <2>2, <3>3, <3>4 DEF Pool!OnePlace
  <2>6. Pool!IdleAreOpen'
    BY <1>0, <1>1, <1>4, <1>5, <2>1, <2>2, <2>4 DEF Pool!IdleAreOpen
  <2> QED BY <1>1, <1>2, <1>3, <2>3, <2>5, <2>6 DEF PoolOK
<1>6. CASE UNCHANGED <<connections, idle_connections>>
  <2>1. PoolTypes'
    BY <1>0, <1>1, <1>3, <1>6 DEF PoolTypes
  <2>2. Pool!OnePlace' /\ Pool!IdleAreOpen'
    BY <1>0, <1>1, <1>4, <1>6 DEF Pool!OnePlace, Pool!IdleAreOpen
  <2> QED BY <1>1, <1>2, <1>3, <2>1, <2>2 DEF PoolOK
<1> QED BY <1>5, <1>6 DEF Pool!return_connection, Pool!Reusable
-----------------------------------------------------------------------------
Kinds == {"statement", "savepoint", "rollback_to", "release"}

\* The savepoints of the session after a statement that was no error.
SpsAfter(s, kind, n) ==
  IF kind = "statement" THEN s.sps
  ELSE IF kind = "savepoint" THEN s.sps \cup {n}
  ELSE IF kind = "rollback_to" THEN UpTo(s, n) ELSE UpTo(s, n - 1)

\* What the database's answers do to the session: an error changes none of its
\* savepoints, and rolling back to a savepoint it knows is no error.
LEMMA ReplyFacts ==
  ASSUME NEW s \in Sessions, NEW kind \in Kinds, NEW n \in Nat, NEW r \in Replies(s, kind, n)
  PROVE  /\ r[2] \in Sessions
         /\ translate(r[1]) # "none" => r[2].sps = s.sps
         /\ translate(r[1]) # "none" /\ kind = "rollback_to" => n \notin s.sps
         /\ translate(r[1]) = "none" => r[2].st = s.st \/ r[2].st = "ok"
         /\ translate(r[1]) = "none" => r[2].sps = SpsAfter(s, kind, n)
<1>0. /\ translate("ok") = "none" /\ translate("sql_error") = "query"
      /\ translate("serialization_failure") = "serialization"
      /\ translate("deadlock_detected") = "deadlock"
  BY DEF translate
<1>1. /\ s.st \in {"none", "ok", "failed"} /\ s.sps \subseteq Nat
      /\ Failed(s) \in Sessions /\ Failed(s).sps = s.sps
      /\ UpTo(s, n) \subseteq Nat /\ UpTo(s, n - 1) \subseteq Nat
  BY DEF Sessions, Failed, UpTo
<1>2. CASE kind = "rollback_to"
  <2>1. CASE n \in s.sps
    <3>1. r = <<"ok", [st |-> "ok", sps |-> UpTo(s, n)]>>
      BY <1>2, <2>1 DEF Replies
    <3> QED BY <1>0, <1>1, <1>2, <3>1 DEF Sessions, SpsAfter
  <2>2. CASE n \notin s.sps
    <3>1. r = <<"sql_error", Failed(s)>>
      BY <1>2, <2>2 DEF Replies
    <3> QED BY <1>0, <1>1, <1>2, <2>2, <3>1
  <2> QED BY <2>1, <2>2
<1>3. CASE kind # "rollback_to" /\ s.st = "failed"
  <2>1. r = <<"sql_error", s>>
    BY <1>3 DEF Replies
  <2> QED BY <1>0, <1>3, <2>1
<1>4. CASE kind = "savepoint" /\ s.st # "failed"
  <2>1. r = <<"ok", [s EXCEPT !.sps = @ \cup {n}]>>
    BY <1>4 DEF Replies
  <2>2. [s EXCEPT !.sps = @ \cup {n}] \in Sessions
    BY DEF Sessions
  <2> QED BY <1>0, <1>4, <2>1, <2>2 DEF Sessions, SpsAfter
<1>5. CASE kind = "release" /\ s.st # "failed"
  <2>1. CASE n \in s.sps
    <3>1. r = <<"ok", [s EXCEPT !.sps = UpTo(s, n - 1)]>>
      BY <1>5, <2>1 DEF Replies
    <3>2. [s EXCEPT !.sps = UpTo(s, n - 1)] \in Sessions
      BY <1>1 DEF Sessions
    <3> QED BY <1>0, <1>5, <3>1, <3>2 DEF Sessions, SpsAfter
  <2>2. CASE n \notin s.sps
    <3>1. r = <<"sql_error", Failed(s)>>
      BY <1>5, <2>2 DEF Replies
    <3> QED BY <1>0, <1>1, <1>5, <3>1
  <2> QED BY <2>1, <2>2
<1>6. CASE kind = "statement" /\ s.st # "failed"
  <2>1. r = <<"ok", s>> \/ \E e \in {"sql_error", "serialization_failure", "deadlock_detected"} :
                              r = <<e, Failed(s)>>
    BY <1>6 DEF Replies
  <2> QED BY <1>0, <1>1, <1>6, <2>1 DEF SpsAfter
<1> QED BY <1>2, <1>3, <1>4, <1>5, <1>6 DEF Kinds

\* A step that leaves the pool alone.
LEMMA SamePool == ASSUME PoolOK, UNCHANGED poolVars PROVE PoolOK'
BY DEF PoolOK, PoolTypes, Pool!OnePlace, Pool!IdleAreOpen, OneLease, poolVars

\* A lost connection: the session is gone and the lease is broken.
LEMMA LostEffect ==
  ASSUME PoolOK, server \in [Conns -> Sessions], NEW t \in Threads, NEW c \in Conns,
         c = Lease(t), owner[c] = t, Lost(t)
  PROVE  /\ PoolOK' /\ UNCHANGED <<owner, at>>
         /\ server' \in [Conns -> Sessions] /\ server'[c] = NoTx /\ c \notin open'
         /\ \A d \in Conns : d # c => server'[d] = server[d] /\ (d \in open' <=> d \in open)
<1>1. NoTx \in Sessions
  BY DEF NoTx, Sessions
<1>2. server' = [server EXCEPT ![c] = NoTx]
  BY DEF Lost
<1>3. /\ server' \in [Conns -> Sessions] /\ server'[c] = NoTx
      /\ \A d \in Conns : d # c => server'[d] = server[d]
  BY <1>1, <1>2
<1>4. CASE c \in open
  <2>1. Pool!mark_broken(t, c)
    BY <1>4 DEF Lost
  <2>2. PoolOK' /\ UNCHANGED <<owner, at>> /\ open' = open \ {c}
    BY <2>1, BreakKeepsPool
  <2> QED BY <1>3, <2>2
<1>5. CASE c \notin open
  <2>1. UNCHANGED poolVars
    BY <1>5 DEF Lost
  <2>2. PoolOK' /\ UNCHANGED <<owner, at, open>>
    BY <2>1, SamePool DEF poolVars
  <2> QED BY <1>3, <1>5, <2>2
<1> QED BY <1>4, <1>5

\* What t and the session of its lease c know after a statement that raised e.
Answered(c, kind, n, e) ==
  /\ c \notin open' => e = "connection"
  /\ c \in open' =>
       /\ c \in open
       /\ e # "none" => server'[c].sps = server[c].sps /\ (kind = "rollback_to" => n \notin server[c].sps)
       /\ e = "none" => /\ server'[c].st = server[c].st \/ server'[c].st = "ok"
                        /\ server'[c].sps = SpsAfter(server[c], kind, n)

\* A statement: the database answers, or the connection is lost.
LEMMA ExecEffect ==
  ASSUME PoolOK, server \in [Conns -> Sessions], NEW t \in Threads, NEW c \in Conns,
         c = Lease(t), owner[c] = t,
         NEW kind \in Kinds, NEW n \in Nat, NEW e, exec(t, kind, n, e)
  PROVE  /\ PoolOK' /\ UNCHANGED <<owner, at>>
         /\ server' \in [Conns -> Sessions]
         /\ \A d \in Conns : d # c => server'[d] = server[d] /\ (d \in open' <=> d \in open)
         /\ Answered(c, kind, n, e)
<1>1. CASE e = "connection" /\ Lost(t)
  <2>1. /\ PoolOK' /\ UNCHANGED <<owner, at>> /\ server' \in [Conns -> Sessions] /\ c \notin open'
        /\ \A d \in Conns : d # c => server'[d] = server[d] /\ (d \in open' <=> d \in open)
    BY <1>1, LostEffect, Zenon
  <2> QED BY <1>1, <2>1, Zenon DEF Answered
<1>2. ASSUME c \in open, UNCHANGED poolVars, NEW r \in Replies(server[c], kind, n),
             e = translate(r[1]), server' = [server EXCEPT ![c] = r[2]]
      PROVE  /\ PoolOK' /\ UNCHANGED <<owner, at, open>>
             /\ server' \in [Conns -> Sessions] /\ Answered(c, kind, n, e)
             /\ \A d \in Conns : d # c => server'[d] = server[d]
  <2>1. PoolOK' /\ UNCHANGED <<owner, at, open>>
    BY <1>2, SamePool DEF poolVars
  <2>2. server[c] \in Sessions
    OBVIOUS
  <2>3. /\ r[2] \in Sessions
        /\ e # "none" => r[2].sps = server[c].sps
        /\ e # "none" /\ kind = "rollback_to" => n \notin server[c].sps
        /\ e = "none" => r[2].st = server[c].st \/ r[2].st = "ok"
        /\ e = "none" => r[2].sps = SpsAfter(server[c], kind, n)
    BY <1>2, <2>2, ReplyFacts
  <2>4. /\ server' \in [Conns -> Sessions] /\ server'[c] = r[2]
        /\ \A d \in Conns : d # c => server'[d] = server[d]
    BY <1>2, <2>3
  <2>5. Answered(c, kind, n, e)
    BY <1>2, <2>1, <2>3, <2>4, Zenon DEF Answered
  <2> QED BY <2>1, <2>4, <2>5
<1> QED BY <1>1, <1>2 DEF exec
-----------------------------------------------------------------------------
\* What the call records of thread u that a step leaves alone.
SameRecord(u) ==
  /\ tx'[u] = tx[u] /\ durable'[u] = durable[u] /\ inDoubt'[u] = inDoubt[u]
  /\ silent'[u] = silent[u] /\ disordered'[u] = disordered[u] /\ selfEnded'[u] = selfEnded[u]

\* A step of t that keeps its lease c.
LEMMA HeldStep ==
  ASSUME Inv, NEW t \in Threads, NEW c \in Conns, tx[t].at \in Holding, c = Lease(t),
         UNCHANGED <<owner, at>>, PoolOK', Types',
         \A d \in Conns : d # c => /\ server'[d] = server[d] /\ (d \in open' <=> d \in open)
                                   /\ d \in transaction_active' <=> d \in transaction_active,
         \A u \in Threads : u # t => SameRecord(u),
         tx'[t].at \in Holding, Committed(t)', Numbered(t)', Session(t, c)'
  PROVE  Inv'
<1>0. PoolOK /\ ThreadOK(t) /\ Placed(t)
  BY Zenon DEF Inv, ThreadOK
<1>1. owner[c] = t /\ t # Nobody /\ \A d \in Conns : d # c => owner[d] # t
  BY <1>0, LeaseOwned, Zenon
<1>2. \A d \in Conns : d # c => owner[d] # t /\ SameConn(d)
  BY <1>1, Zenon DEF SameConn
<1>3. \A u \in Threads : u # t => SameThread(u)
  BY DEF SameRecord, SameThread
<1>4. Placed(t)'
  <2>1. tx'[t].at # "waiting" /\ tx[t].at # "waiting"
    BY DEF Holding
  <2>2. at'[t] = "idle"
    BY <1>0, <2>1 DEF Placed
  <2>3. \E d \in Conns : owner'[d] = t
    BY <1>1
  <2> QED BY <2>1, <2>2, <2>3 DEF Placed
<1>5. ThreadOK(t)'
  BY <1>4 DEF ThreadOK
<1>6. ConnOK(c)'
  BY <1>1 DEF ConnOK
<1> QED BY <1>1, <1>2, <1>3, <1>5, <1>6, LeaseStep, Zenon

\* What the invariant says of a thread that holds a lease.
LEMMA HeldFacts ==
  ASSUME Inv, NEW t \in Threads, tx[t].at \in Holding
  PROVE  /\ Types /\ PoolOK /\ Committed(t) /\ Numbered(t)
         /\ Lease(t) \in Conns /\ owner[Lease(t)] = t /\ Session(t, Lease(t))
         /\ tx[t] \in Records /\ server[Lease(t)] \in Sessions
<1>0. Types /\ PoolOK /\ Placed(t) /\ Committed(t) /\ Numbered(t)
  BY Zenon DEF Inv, ThreadOK
<1>1. Lease(t) \in Conns /\ owner[Lease(t)] = t
  BY <1>0, LeaseOwned, Zenon
<1>2. ConnOK(Lease(t))
  BY <1>1, Zenon DEF Inv
<1>3. Session(t, Lease(t))
  BY <1>1, <1>2, Zenon DEF ConnOK
<1>4. tx[t] \in Records /\ server[Lease(t)] \in Sessions
  BY <1>0, <1>1 DEF Types
<1> QED BY <1>0, <1>1, <1>3, <1>4

\* A record without savepoints is in order.
LEMMA NoSavepoints ==
  ASSUME NEW t \in Threads, tx'[t].sps = <<>>, "query" \in silent'[t] => disordered'[t]
  PROVE  Numbered(t)'
<1>1. DOMAIN <<>> = {}
  BY EmptySeq
<1> QED BY <1>1, Zenon DEF Numbered

\* A thread's record changes and the rest of its history does not.
LEMMA RecordTypes ==
  ASSUME Types, NEW t \in Threads, NEW r \in Records, tx' = [tx EXCEPT ![t] = r],
         server' \in [Conns -> Sessions], transaction_active' \subseteq Conns, UNCHANGED history
  PROVE  /\ Types' /\ tx'[t] = r /\ \A u \in Threads : u # t => SameRecord(u)
         /\ durable'[t] = durable[t] /\ inDoubt'[t] = inDoubt[t] /\ selfEnded'[t] = selfEnded[t]
         /\ silent'[t] = silent[t] /\ disordered'[t] = disordered[t]
<1>1. tx' \in [Threads -> Records] /\ tx'[t] = r /\ \A u \in Threads : u # t => tx'[u] = tx[u]
  BY DEF Types
<1>2. UNCHANGED <<durable, inDoubt, silent, disordered, selfEnded>>
  BY DEF history
<1> QED BY <1>1, <1>2 DEF Types, SameRecord

\* A step of t, with its lease, that only moves the call on, with or without an error.
LEMMA MovesOn ==
  ASSUME Inv, NEW t \in Threads, NEW c \in Conns, tx[t].at \in Holding, c = Lease(t),
         NEW p \in Holding, NEW e \in Outcomes,
         Throws(t, p, e), UNCHANGED history,
         UNCHANGED <<owner, at>>, PoolOK',
         server' \in [Conns -> Sessions], transaction_active' \subseteq Conns,
         \A d \in Conns : d # c => /\ server'[d] = server[d] /\ (d \in open' <=> d \in open)
                                   /\ d \in transaction_active' <=> d \in transaction_active,
         p \in {"isolation", "body"} => e = "none" /\ tx[t].sps = <<>>,
         p \in {"unwind", "finish", "release"} => e # "none",
         NoEffect(t) \/ (e = tx[t].err /\ p = "release" /\ tx[t].at = "finish"),
         p \notin {"begin", "reset"}, p = "release" => Clean(c)',
         p \in {"isolation", "body"} /\ c \in open' /\ silent[t] = {} => server'[c].st = "ok",
         p = "unwind" => tx[t].at = "body" /\ server' = server /\ open' = open
  PROVE  Inv'
<1>0. Types /\ Committed(t) /\ Numbered(t) /\ Session(t, c) /\ tx[t] \in Records
  BY HeldFacts, Zenon
<1> DEFINE r == [tx[t] EXCEPT !.at = p, !.err = e]
<1>1. r \in Records /\ r.at = p /\ r.err = e /\ r.sps = tx[t].sps /\ r.next = tx[t].next
  BY <1>0, Zenon DEF Records, Places
<1>2. tx' = [tx EXCEPT ![t] = r]
  BY <1>0, Zenon DEF Throws, Types
<1> HIDE DEF r
<1>3. /\ Types' /\ tx'[t] = r /\ \A u \in Threads : u # t => SameRecord(u)
      /\ durable'[t] = durable[t] /\ inDoubt'[t] = inDoubt[t] /\ selfEnded'[t] = selfEnded[t]
      /\ silent'[t] = silent[t] /\ disordered'[t] = disordered[t]
  BY <1>0, <1>1, <1>2, RecordTypes, Zenon
<1>4. Committed(t)'
  <2>1. NoEffect(t) \/ (durable[t] = 1 /\ inDoubt[t] /\ tx[t].err = "aborted")
    BY <1>0, Zenon DEF Committed
  <2>2. NoEffect(t)' <=> NoEffect(t)
    BY <1>3, Zenon DEF NoEffect
  <2> QED BY <1>1, <1>3, <2>1, <2>2 DEF Committed, Holding
<1>5. Numbered(t)'
  BY <1>0, <1>1, <1>3, Zenon DEF Numbered, Holding
<1>6. Session(t, c)'
  <2>1. tx'[t].at \in {"begin", "release", "reset"} => Clean(c)'
    BY <1>1, <1>3, Zenon
  <2>2. tx'[t].at \in {"isolation", "body"} /\ c \in open' /\ silent'[t] = {} => server'[c].st = "ok"
    BY <1>1, <1>3, Zenon
  <2>3. p = "body" => DOMAIN tx[t].sps = {}
    BY EmptySeq
  <2>4. p = "unwind" /\ c \in open' /\ ~disordered[t] =>
          \A i \in DOMAIN tx[t].sps : tx[t].sps[i].active => tx[t].sps[i].id \in server'[c].sps
    BY <1>0 DEF Session
  <2>5. tx'[t].at \in {"body", "unwind"} /\ c \in open' /\ ~disordered'[t] =>
          \A i \in DOMAIN tx'[t].sps : tx'[t].sps[i].active => tx'[t].sps[i].id \in server'[c].sps
    BY <1>1, <1>3, <2>3, <2>4, Zenon
  <2> QED BY <2>1, <2>2, <2>5, Zenon DEF Session
<1>7. tx'[t].at \in Holding
  BY <1>1, <1>3
<1> QED BY <1>3, <1>4, <1>5, <1>6, <1>7, HeldStep, Zenon

\* Goto keeps the error the record has.
LEMMA GotoThrows ==
  ASSUME Types, NEW t \in Threads, NEW p, Goto(t, p)
  PROVE  Throws(t, p, tx[t].err)
<1>1. tx[t] \in Records
  BY DEF Types
<1>2. [tx[t] EXCEPT !.at = p] = [tx[t] EXCEPT !.at = p, !.err = tx[t].err]
  BY <1>1, Zenon DEF Records
<1> QED BY <1>1, <1>2, Zenon DEF Goto, Throws, Types

\* Connection::begin_transaction: the session starts a transaction, or the lease goes back.
LEMMA BeginStep ==
  ASSUME Inv, NEW t \in Threads, begin(t)
  PROVE  Inv'
<1>0. tx[t].at = "begin" /\ tx[t].at \in Holding /\ UNCHANGED history
  BY DEF begin, At, Holding
<1>a. PICK c \in Conns : c = Lease(t)
  BY <1>0, HeldFacts, Zenon
<1>1. /\ Types /\ PoolOK /\ Committed(t) /\ Numbered(t) /\ owner[c] = t /\ Session(t, c)
      /\ tx[t] \in Records /\ server[c] \in Sessions /\ server \in [Conns -> Sessions]
  BY <1>0, <1>a, HeldFacts, Zenon DEF Types
<1>2. /\ c \notin transaction_active /\ server[c] = NoTx /\ tx[t].err = "none"
      /\ tx[t].sps = <<>> /\ NoEffect(t)
  BY <1>0, <1>1, Zenon DEF Session, Clean, Committed, Numbered
<1>3. CASE /\ c \in open /\ server' = [server EXCEPT ![c].st = "ok"]
           /\ transaction_active' = transaction_active \cup {c}
           /\ Goto(t, IF tx[t].mode = "direct" THEN "body" ELSE "isolation")
           /\ UNCHANGED poolVars
  <2> DEFINE p == IF tx[t].mode = "direct" THEN "body" ELSE "isolation"
  <2>1. PoolOK' /\ UNCHANGED <<owner, at, open>>
    BY <1>1, <1>3, SamePool DEF poolVars
  <2>2. server' \in [Conns -> Sessions] /\ server'[c].st = "ok" /\ \A d \in Conns : d # c => server'[d] = server[d]
    BY <1>1, <1>3 DEF Types, Sessions
  <2>3. transaction_active' \subseteq Conns /\ \A d \in Conns : d # c => (d \in transaction_active' <=> d \in transaction_active)
    BY <1>1, <1>3 DEF Types
  <2>4. p \in {"body", "isolation"} /\ p \in Holding
    BY DEF Holding
  <2>5. Throws(t, p, "none")
    BY <1>1, <1>2, <1>3, GotoThrows
  <2> HIDE DEF p
  <2>6. /\ p \notin {"unwind", "finish", "release", "begin", "reset"}
        /\ "none" \in Outcomes /\ NoEffect(t)
    BY <1>2, <2>4 DEF Outcomes
  <2>7. /\ tx[t].sps = <<>> /\ UNCHANGED history
        /\ \A d \in Conns : d # c => /\ server'[d] = server[d] /\ (d \in open' <=> d \in open)
                                     /\ d \in transaction_active' <=> d \in transaction_active
    BY <1>0, <1>1, <1>2, <2>1, <2>2, <2>3, Zenon
  <2> QED BY <1>0, <1>a, <2>1, <2>2, <2>3, <2>4, <2>5, <2>6, <2>7, MovesOn, Zenon
<1>4. CASE Lost(t) /\ Throws(t, "release", "constructor") /\ UNCHANGED transaction_active
  <2>1. /\ PoolOK' /\ UNCHANGED <<owner, at>>
        /\ server' \in [Conns -> Sessions] /\ server'[c] = NoTx
        /\ \A d \in Conns : d # c => server'[d] = server[d] /\ (d \in open' <=> d \in open)
    BY <1>1, <1>a, <1>4, LostEffect, Zenon
  <2>2. Clean(c)'
    BY <1>2, <1>4, <2>1, Zenon DEF Clean, NoTx
  <2>3. transaction_active' \subseteq Conns
    BY <1>1, <1>4 DEF Types
  <2>4. "release" \in Holding /\ "constructor" \in Outcomes
    BY DEF Holding, Outcomes
  <2>5. \A d \in Conns : d # c => /\ server'[d] = server[d] /\ (d \in open' <=> d \in open)
                                  /\ d \in transaction_active' <=> d \in transaction_active
    BY <1>4, <2>1
  <2>6. "release" \notin {"isolation", "body", "unwind", "begin", "reset"} /\ "constructor" # "none"
    OBVIOUS
  <2> QED BY <1>0, <1>1, <1>2, <1>4, <2>1, <2>2, <2>3, <2>4, <2>5, <2>6, <1>a, MovesOn, Zenon
<1> QED BY <1>a, <1>2, <1>3, <1>4 DEF begin

\* setIsolationLevel, and the constructor that fails with it.
LEMMA IsolationStep ==
  ASSUME Inv, NEW t \in Threads, setIsolationLevel(t)
  PROVE  Inv'
<1>0. tx[t].at = "isolation" /\ tx[t].at \in Holding /\ UNCHANGED <<transaction_active, history>>
  BY DEF setIsolationLevel, At, Holding
<1>a. PICK c \in Conns : c = Lease(t)
  BY <1>0, HeldFacts, Zenon
<1>1. /\ Types /\ PoolOK /\ Committed(t) /\ Numbered(t) /\ owner[c] = t /\ Session(t, c)
      /\ tx[t] \in Records /\ server[c] \in Sessions /\ server \in [Conns -> Sessions]
  BY <1>0, <1>a, HeldFacts, Zenon DEF Types
<1>2. /\ tx[t].err = "none" /\ tx[t].sps = <<>> /\ NoEffect(t)
      /\ c \in open /\ silent[t] = {} => server[c].st = "ok"
  BY <1>0, <1>1, Zenon DEF Session, Committed, Numbered
<1>3. PICK e \in Errors \cup {"none"} :
        /\ exec(t, "statement", 0, e)
        /\ IF e = "none" THEN Goto(t, "body") ELSE Throws(t, "finish", "constructor")
  BY DEF setIsolationLevel
<1>4. "statement" \in Kinds /\ 0 \in Nat
  BY DEF Kinds
<1>5. /\ PoolOK' /\ UNCHANGED <<owner, at>> /\ server' \in [Conns -> Sessions]
      /\ \A d \in Conns : d # c => server'[d] = server[d] /\ (d \in open' <=> d \in open)
      /\ c \in open' => c \in open /\ (e = "none" => server'[c].st = server[c].st \/ server'[c].st = "ok")
  <2>1. /\ PoolOK' /\ UNCHANGED <<owner, at>> /\ server' \in [Conns -> Sessions]
        /\ \A d \in Conns : d # c => server'[d] = server[d] /\ (d \in open' <=> d \in open)
        /\ Answered(c, "statement", 0, e)
    BY <1>a, <1>1, <1>3, <1>4, ExecEffect, Zenon
  <2> QED BY <2>1, Zenon DEF Answered
<1>6. /\ transaction_active' \subseteq Conns
      /\ \A d \in Conns : d # c => /\ server'[d] = server[d] /\ (d \in open' <=> d \in open)
                                   /\ d \in transaction_active' <=> d \in transaction_active
  BY <1>0, <1>1, <1>5 DEF Types
<1>7. /\ "body" \in Holding /\ "finish" \in Holding
      /\ {"none", "constructor"} \subseteq Outcomes
  BY DEF Holding, Outcomes
<1>8. CASE e = "none"
  <2>1. Throws(t, "body", "none")
    BY <1>1, <1>2, <1>3, <1>8, GotoThrows, Zenon
  <2>2. c \in open' /\ silent[t] = {} => server'[c].st = "ok"
    BY <1>2, <1>5, <1>8
  <2> QED BY <1>0, <1>a, <1>2, <1>5, <1>6, <1>7, <2>1, <2>2, MovesOn, Zenon
<1>9. CASE e # "none"
  <2>1. Throws(t, "finish", "constructor")
    BY <1>3, <1>9
  <2> QED BY <1>0, <1>a, <1>2, <1>5, <1>6, <1>7, <2>1, MovesOn, Zenon
<1> QED BY <1>8, <1>9

\* fn throws, and the exception has passed fn's locals.
LEMMA ThrowStep ==
  ASSUME Inv, NEW t \in Threads, throw(t) \/ unwound(t)
  PROVE  Inv'
<1>0. /\ tx[t].at \in Holding /\ tx[t].at \in {"body", "unwind"}
      /\ UNCHANGED <<poolVars, transaction_active, server, history>>
  BY DEF throw, unwound, At, Holding
<1>a. PICK c \in Conns : c = Lease(t)
  BY <1>0, HeldFacts, Zenon
<1>1. /\ Types /\ PoolOK /\ Committed(t) /\ server \in [Conns -> Sessions]
      /\ transaction_active \subseteq Conns
  BY <1>0, <1>a, HeldFacts, Zenon DEF Types
<1>2. NoEffect(t)
  BY <1>0, <1>1, Zenon DEF Committed
<1>3. PoolOK' /\ UNCHANGED <<owner, at, open, server, transaction_active, history>>
  BY <1>0, <1>1, SamePool DEF poolVars
<1>4. server' \in [Conns -> Sessions] /\ transaction_active' \subseteq Conns
  BY <1>1, <1>3
<1>5. \A d \in Conns : d # c => /\ server'[d] = server[d] /\ (d \in open' <=> d \in open)
                                /\ d \in transaction_active' <=> d \in transaction_active
  BY <1>3
<1>6. "unwind" \in Holding /\ "finish" \in Holding
  BY Zenon DEF Holding
<1>7. CASE throw(t)
  <2>1. PICK e \in {"query", "serialization", "deadlock"} : Throws(t, "unwind", e)
    BY <1>7 DEF throw
  <2>2. e \in Outcomes /\ e # "none"
    BY Zenon DEF Errors, Outcomes
  <2>3. tx[t].at = "body"
    BY <1>7, Zenon DEF throw, At
  <2> QED BY <1>0, <1>a, <1>2, <1>3, <1>4, <1>5, <1>6, <2>1, <2>2, <2>3, MovesOn, Zenon
<1>8. CASE unwound(t)
  <2>1. tx[t].at = "unwind" /\ tx[t] \in Records
    BY <1>1, <1>8 DEF unwound, At, Types
  <2>2. tx[t].err # "none" /\ tx[t].err \in Outcomes
    BY <1>1, <2>1, Zenon DEF Committed, Records
  <2>3. Throws(t, "finish", tx[t].err)
    BY <1>1, <1>8, GotoThrows, Zenon DEF unwound
  <2> QED BY <1>0, <1>a, <1>2, <1>3, <1>4, <1>5, <1>6, <2>2, <2>3, MovesOn, Zenon
<1> QED BY <1>7, <1>8, Zenon

\* Transaction::rollback leaves a clean session behind.
LEMMA RollbackStep ==
  ASSUME Inv, NEW t \in Threads, rollback(t)
  PROVE  Inv'
<1>0. tx[t].at = "finish" /\ tx[t].at \in Holding /\ UNCHANGED history
  BY DEF rollback, At, Holding
<1>a. PICK c \in Conns : c = Lease(t)
  BY <1>0, HeldFacts, Zenon
<1>1. Types /\ PoolOK /\ Committed(t) /\ tx[t] \in Records /\ NoTx \in Sessions
  BY <1>0, <1>a, HeldFacts DEF NoTx, Sessions
<1>2. tx[t].err # "none" /\ tx[t].err \in Outcomes
  BY <1>0, <1>1 DEF Committed, Records
<1>3. /\ server' \in [Conns -> Sessions] /\ transaction_active' \subseteq Conns /\ Clean(c)'
      /\ \A d \in Conns : d # c => /\ server'[d] = server[d]
                                   /\ d \in transaction_active' <=> d \in transaction_active
  BY <1>a, <1>1, Zenon DEF rollback, finish, Types, Clean, NoTx
<1>4. Throws(t, "release", tx[t].err)
  BY <1>1, GotoThrows DEF rollback
<1>5. PoolOK' /\ UNCHANGED <<owner, at>> /\ \A d \in Conns : d # c => (d \in open' <=> d \in open)
  <2>1. CASE UNCHANGED poolVars
    BY <1>1, <2>1, SamePool DEF poolVars
  <2>2. CASE Pool!mark_broken(t, c)
    <3>1. PoolOK' /\ UNCHANGED <<owner, at>> /\ open' = open \ {c}
      BY <1>1, <2>2, BreakKeepsPool
    <3> QED BY <3>1
  <2> QED BY <1>a, <2>1, <2>2 DEF rollback
<1>6. "release" \in Holding
  BY DEF Holding
<1> QED BY <1>0, <1>a, <1>2, <1>3, <1>4, <1>5, <1>6, MovesOn, Zenon

\* COMMIT: accepted, refused, or lost with its answer.
LEMMA CommitStep ==
  ASSUME Inv, NEW t \in Threads, commit(t)
  PROVE  Inv'
<1>0. /\ tx[t].at = "body" /\ tx[t].at \in Holding /\ tx[t].sps = <<>>
      /\ UNCHANGED <<silent, disordered, selfEnded>>
  BY Zenon DEF commit, At, Holding
<1>a. PICK c \in Conns : c = Lease(t)
  BY <1>0, HeldFacts, Zenon
<1>1. /\ Types /\ PoolOK /\ Committed(t) /\ Numbered(t) /\ owner[c] = t /\ Session(t, c)
      /\ tx[t] \in Records /\ server[c] \in Sessions /\ server \in [Conns -> Sessions]
  BY <1>0, <1>a, HeldFacts, Zenon DEF Types
<1>2. /\ tx[t].err = "none" /\ durable[t] \in Nat /\ NoEffect(t) /\ NoTx \in Sessions
      /\ c \in open /\ silent[t] = {} => server[c].st = "ok"
  <2>1. durable[t] \in Nat /\ tx[t].err = "none" /\ NoEffect(t)
    BY <1>0, <1>1 DEF Committed, Types
  <2>2. c \in open /\ silent[t] = {} => server[c].st = "ok"
    BY <1>0, <1>1, Zenon DEF Session
  <2> QED BY <2>1, <2>2 DEF NoTx, Sessions
<1>3. /\ {"release", "finish"} \subseteq Holding
      /\ "finish" \notin {"begin", "isolation", "body", "unwind", "release"}
      /\ translate("serialization_failure") = "serialization" /\ translate("deadlock_detected") = "deadlock"
      /\ translate("sql_error") = "query" /\ translate("in_doubt_error") = "aborted"
      /\ translate("broken_connection") = "connection"
  BY DEF Holding, translate
<1>4. CASE /\ c \in open /\ finish(c) /\ Goto(t, "release")
           /\ durable' = [durable EXCEPT ![t] = IF server[c].st = "ok" THEN @ + 1 ELSE @]
           /\ UNCHANGED <<poolVars, inDoubt>>
  <2>1. PoolOK' /\ UNCHANGED <<owner, at, open>>
    BY <1>1, <1>4, SamePool, Zenon DEF poolVars
  <2>2. /\ server' \in [Conns -> Sessions] /\ transaction_active' \subseteq Conns /\ Clean(c)'
        /\ \A d \in Conns : d # c => /\ server'[d] = server[d] /\ (d \in open' <=> d \in open)
                                     /\ d \in transaction_active' <=> d \in transaction_active
    BY <1>1, <1>2, <1>4, <2>1, Zenon DEF finish, Types, Clean, NoTx
  <2>3. /\ tx' \in [Threads -> Records] /\ \A u \in Threads : u # t => tx'[u] = tx[u]
        /\ tx'[t].at = "release" /\ tx'[t].err = "none" /\ tx'[t].sps = <<>> /\ tx'[t].next = tx[t].next
    BY <1>0, <1>1, <1>2, <1>4, Zenon DEF Goto, Types, Records, Places, Holding
  <2>4. /\ durable' \in [Threads -> Nat] /\ \A u \in Threads : u # t => durable'[u] = durable[u]
        /\ durable'[t] = IF server[c].st = "ok" THEN durable[t] + 1 ELSE durable[t]
        /\ selfEnded'[t] = selfEnded[t]
    BY <1>0, <1>1, <1>2, <1>4 DEF Types
  <2>5. Types' /\ \A u \in Threads : u # t => SameRecord(u)
    BY <1>0, <1>1, <1>4, <2>2, <2>3, <2>4, Zenon DEF Types, SameRecord
  <2>6. Committed(t)'
    <3>1. selfEnded[t] \/ durable'[t] = IF server[c].st = "ok" THEN 1 ELSE 0
      BY <1>2, <2>4 DEF NoEffect
    <3> QED BY <1>0, <1>2, <1>4, <2>3, <2>4, <3>1, Zenon DEF Committed, NoEffect
  <2>7. Numbered(t)'
    BY <1>0, <1>1, <2>3, EmptySeq, ZenonT(30) DEF Numbered
  <2>8. Session(t, c)' /\ tx'[t].at \in Holding
    BY <1>3, <2>2, <2>3, Zenon DEF Session
  <2> QED BY <1>0, <1>a, <2>1, <2>2, <2>5, <2>6, <2>7, <2>8, HeldStep, Zenon
<1>5. ASSUME c \in open, server' = [server EXCEPT ![c] = NoTx],
             UNCHANGED <<poolVars, transaction_active, durable, inDoubt>>,
             NEW x \in {"serialization_failure", "deadlock_detected", "sql_error"},
             Throws(t, "finish", translate(x))
      PROVE  Inv'
  <2>1. PoolOK' /\ UNCHANGED <<owner, at, open, transaction_active, history>>
    BY <1>0, <1>1, <1>5, SamePool, Zenon DEF poolVars, history
  <2>2. /\ server' \in [Conns -> Sessions] /\ transaction_active' \subseteq Conns
        /\ \A d \in Conns : d # c => /\ server'[d] = server[d] /\ (d \in open' <=> d \in open)
                                     /\ d \in transaction_active' <=> d \in transaction_active
    BY <1>1, <1>2, <1>5, <2>1 DEF Types
  <2>3. PICK e \in {"serialization", "deadlock", "query"} : e = translate(x)
    BY <1>3, <1>5
  <2>4. e \in Outcomes /\ e # "none" /\ "finish" \in Holding
    BY <1>3 DEF Errors, Outcomes
  <2>5. Throws(t, "finish", e)
    BY <1>5, <2>3, Zenon
  <2>6. NoEffect(t) /\ "finish" \notin {"begin", "isolation", "body", "unwind", "release"}
    BY <1>2, <1>3
  <2> QED BY <1>0, <1>a, <2>1, <2>2, <2>4, <2>5, <2>6, MovesOn, Zenon
<1>6. ASSUME Lost(t) PROVE
        /\ PoolOK' /\ UNCHANGED <<owner, at>> /\ c \notin open' /\ server' \in [Conns -> Sessions]
        /\ \A d \in Conns : d # c => server'[d] = server[d] /\ (d \in open' <=> d \in open)
  BY <1>a, <1>1, <1>6, LostEffect, Zenon
<1>7. CASE /\ Lost(t) /\ Throws(t, "finish", translate("in_doubt_error"))
           /\ inDoubt' = [inDoubt EXCEPT ![t] = TRUE]
           /\ \/ durable' = [durable EXCEPT ![t] = @ + 1]
              \/ UNCHANGED durable
           /\ UNCHANGED transaction_active
  <2>1. /\ tx' \in [Threads -> Records] /\ \A u \in Threads : u # t => tx'[u] = tx[u]
        /\ tx'[t].at = "finish" /\ tx'[t].err = "aborted" /\ tx'[t].sps = <<>> /\ tx'[t].next = tx[t].next
    <3>1. Throws(t, "finish", "aborted")
      BY <1>3, <1>7
    <3> QED BY <1>0, <1>1, <3>1, Zenon DEF Throws, Types, Records, Places, Holding, Errors, Outcomes
  <2>2. /\ durable' \in [Threads -> Nat] /\ \A u \in Threads : u # t => durable'[u] = durable[u]
        /\ selfEnded'[t] \/ durable'[t] \in {0, 1}
    <3>1. durable \in [Threads -> Nat] /\ (selfEnded'[t] \/ durable[t] = 0)
      BY <1>0, <1>1, <1>2, Zenon DEF Types, NoEffect
    <3>2. CASE durable' = [durable EXCEPT ![t] = @ + 1]
      BY <3>1, <3>2
    <3>3. CASE durable' = durable
      BY <3>1, <3>3
    <3> QED BY <1>7, <3>2, <3>3, Zenon
  <2>3. /\ inDoubt' \in [Threads -> BOOLEAN] /\ \A u \in Threads : u # t => inDoubt'[u] = inDoubt[u]
        /\ inDoubt'[t] = TRUE
    BY <1>1, <1>7 DEF Types
  <2>4. Types'
    BY <1>0, <1>1, <1>6, <1>7, <2>1, <2>2, <2>3, Zenon DEF Types
  <2>5. \A u \in Threads : u # t => SameRecord(u)
    BY <1>0, <2>1, <2>2, <2>3, Zenon DEF SameRecord
  <2>6. Committed(t)'
    BY <2>1, <2>2, <2>3, Zenon DEF Committed, NoEffect
  <2>7. Numbered(t)'
    BY <1>0, <1>1, <2>1, NoSavepoints DEF Numbered
  <2>8. Session(t, c)' /\ tx'[t].at \in Holding
    BY <1>3, <1>6, <1>7, <2>1, Zenon DEF Session
  <2>9. \A d \in Conns : d # c => /\ server'[d] = server[d] /\ (d \in open' <=> d \in open)
                                  /\ d \in transaction_active' <=> d \in transaction_active
    BY <1>6, <1>7, Zenon
  <2> QED BY <1>0, <1>a, <1>6, <1>7, <2>4, <2>5, <2>6, <2>7, <2>8, <2>9, HeldStep, Zenon
<1>8. CASE /\ Lost(t) /\ Throws(t, "finish", translate("broken_connection"))
           /\ UNCHANGED <<transaction_active, durable, inDoubt>>
  <2>1. Throws(t, "finish", "connection") /\ "finish" \in Holding
    BY <1>3, <1>8
  <2>2. transaction_active' \subseteq Conns /\ UNCHANGED history /\ "connection" \in Outcomes
    BY <1>0, <1>1, <1>8, Zenon DEF Types, history, Errors, Outcomes
  <2>3. \A d \in Conns : d # c => /\ server'[d] = server[d] /\ (d \in open' <=> d \in open)
                                  /\ d \in transaction_active' <=> d \in transaction_active
    BY <1>6, <1>8
  <2>4. /\ NoEffect(t) /\ "finish" \notin {"begin", "isolation", "body", "unwind", "release"}
        /\ "connection" # "none"
    BY <1>2, <1>3
  <2>5. PoolOK' /\ UNCHANGED <<owner, at>> /\ server' \in [Conns -> Sessions]
    BY <1>6, <1>8, Zenon
  <2> QED BY <1>0, <1>a, <2>1, <2>2, <2>3, <2>4, <2>5, MovesOn, Zenon
<1> QED BY <1>a, <1>4, <1>5, <1>7, <1>8, Zenon DEF commit

\* fn commits or rolls back by itself: from then on nothing is promised of the effect.
LEMMA EndsStep ==
  ASSUME Inv, NEW t \in Threads, fn_ends(t)
  PROVE  Inv'
<1>0. /\ tx[t].at = "body" /\ tx[t].at \in Holding /\ tx[t].sps = <<>> /\ Goto(t, "reset")
      /\ UNCHANGED <<inDoubt, silent, disordered>> /\ selfEnded' = [selfEnded EXCEPT ![t] = TRUE]
  BY Zenon DEF fn_ends, At, Holding
<1>a. PICK c \in Conns : c = Lease(t)
  BY <1>0, HeldFacts, Zenon
<1>1. Types /\ PoolOK /\ Numbered(t) /\ tx[t] \in Records /\ NoTx \in Sessions
  BY <1>0, <1>a, HeldFacts DEF NoTx, Sessions
<1>2. /\ server' \in [Conns -> Sessions] /\ transaction_active' \subseteq Conns /\ Clean(c)'
      /\ \A d \in Conns : d # c => /\ server'[d] = server[d]
                                   /\ d \in transaction_active' <=> d \in transaction_active
  BY <1>a, <1>1, Zenon DEF fn_ends, finish, Types, Clean, NoTx
<1>3. /\ PoolOK' /\ UNCHANGED <<owner, at>>
      /\ \A d \in Conns : d # c => (d \in open' <=> d \in open)
  <2>1. CASE UNCHANGED poolVars
    BY <1>1, <2>1, SamePool DEF poolVars
  <2>2. CASE Pool!mark_broken(t, c)
    <3>1. PoolOK' /\ UNCHANGED <<owner, at>> /\ open' = open \ {c}
      BY <1>1, <2>2, BreakKeepsPool
    <3> QED BY <3>1
  <2> QED BY <1>a, <2>1, <2>2, Zenon DEF fn_ends
<1>4. /\ durable' \in [Threads -> Nat] /\ \A u \in Threads : u # t => durable'[u] = durable[u]
  <2>1. CASE durable' = durable
    BY <1>1, <2>1 DEF Types
  <2>2. CASE durable' = [durable EXCEPT ![t] = IF server[c].st = "ok" THEN @ + 1 ELSE @]
    BY <1>1, <2>2 DEF Types
  <2> QED BY <1>a, <2>1, <2>2, Zenon DEF fn_ends
<1>5. /\ selfEnded' \in [Threads -> BOOLEAN] /\ selfEnded'[t] = TRUE
      /\ \A u \in Threads : u # t => selfEnded'[u] = selfEnded[u]
  BY <1>0, <1>1 DEF Types
<1>6. /\ tx' \in [Threads -> Records] /\ \A u \in Threads : u # t => tx'[u] = tx[u]
      /\ tx'[t].at = "reset" /\ tx'[t].sps = <<>>
  BY <1>0, <1>1, Zenon DEF Goto, Types, Records, Places, Holding
<1>7. Types' /\ \A u \in Threads : u # t => SameRecord(u)
  BY <1>0, <1>1, <1>2, <1>4, <1>5, <1>6, Zenon DEF Types, SameRecord
<1>8. Committed(t)' /\ tx'[t].at \in Holding /\ Session(t, c)'
  BY <1>2, <1>5, <1>6, Zenon DEF Committed, NoEffect, Session, Holding
<1>9. Numbered(t)'
  <2>1. "query" \in silent'[t] => disordered'[t]
    BY <1>0, <1>1, Zenon DEF Numbered
  <2> QED BY <1>6, <2>1, NoSavepoints, Zenon
<1> QED BY <1>0, <1>a, <1>2, <1>3, <1>7, <1>8, <1>9, HeldStep, Zenon

\* The savepoints r of a record are numbered up to m, in their order.
Ordered(r, m) ==
  /\ \A i \in DOMAIN r : r[i].id <= m
  /\ \A i, j \in DOMAIN r : i < j => r[i].id < r[j].id

\* The session of c knows the active ones of them.
Known(r, S) == \A i \in DOMAIN r : r[i].active => r[i].id \in S

\* The savepoints in scope, one by one.
LEMMA SavepointTypes ==
  ASSUME NEW s \in Seq(Savepoints)
  PROVE  /\ Len(s) \in Nat /\ DOMAIN s = 1..Len(s)
         /\ \A i \in 1..Len(s) : s[i] \in Savepoints /\ s[i].id \in Nat /\ s[i].active \in BOOLEAN
<1>1. Len(s) \in Nat /\ DOMAIN s = 1..Len(s) /\ \A i \in 1..Len(s) : s[i] \in Savepoints
  BY ElementOfSeq, LenProperties
<1>2. ASSUME NEW r \in Savepoints PROVE r.id \in Nat /\ r.active \in BOOLEAN
  BY DEF Savepoints
<1> QED BY <1>1, <1>2

\* A statement of fn: it changes the record as planned, or its error is thrown or handled.
LEMMA AttemptStep ==
  ASSUME Inv, NEW t \in Threads, tx[t].at = "body", NEW c \in Conns, c = Lease(t),
         NEW kind \in Kinds, NEW n \in Nat, NEW done \in Records, Attempt(t, kind, n, done),
         done.at = "body", done.err = "none", tx[t].next <= done.next,
         Ordered(done.sps, done.next),
         disordered' \in [Threads -> BOOLEAN], disordered[t] => disordered'[t],
         \A u \in Threads : u # t => disordered'[u] = disordered[u],
         c \in open /\ ~disordered'[t] => Known(done.sps, SpsAfter(server[c], kind, n))
  PROVE  Inv'
<1>0. tx[t].at \in Holding /\ UNCHANGED <<transaction_active, durable, inDoubt, selfEnded>>
  BY DEF Attempt, Holding
<1>1. /\ Types /\ PoolOK /\ Committed(t) /\ Numbered(t) /\ owner[c] = t /\ Session(t, c)
      /\ tx[t] \in Records /\ server[c] \in Sessions /\ server \in [Conns -> Sessions]
  BY <1>0, HeldFacts, Zenon DEF Types
<1> DEFINE rec == [tx[t] EXCEPT !.stmts = done.stmts, !.next = done.next]
<1>2. PICK e \in Errors \cup {"none"} :
        /\ exec(t, kind, n, e)
        /\ IF e = "none" THEN tx' = [tx EXCEPT ![t] = done] /\ UNCHANGED silent
           ELSE Raise(t, e, rec)
  BY DEF Attempt
<1>3. /\ PoolOK' /\ UNCHANGED <<owner, at>> /\ server' \in [Conns -> Sessions]
      /\ \A d \in Conns : d # c => server'[d] = server[d] /\ (d \in open' <=> d \in open)
      /\ Answered(c, kind, n, e)
  BY <1>1, <1>2, ExecEffect, Zenon
<1>4. /\ Ordered(tx[t].sps, tx[t].next) /\ tx[t].err = "none" /\ NoEffect(t)
      /\ c \in open /\ silent[t] = {} => server[c].st = "ok"
      /\ c \in open /\ ~disordered[t] => Known(tx[t].sps, server[c].sps)
      /\ "query" \in silent[t] => disordered[t]
  BY <1>1, Zenon DEF Numbered, Committed, Session, Ordered, Known
<1>5. /\ rec \in Records /\ rec.at = "body" /\ rec.err = "none" /\ rec.sps = tx[t].sps /\ rec.next = done.next
      /\ Ordered(rec.sps, done.next)
  <2>1. rec \in Records /\ rec.at = "body" /\ rec.err = "none" /\ rec.sps = tx[t].sps /\ rec.next = done.next
    BY <1>1, <1>4, Zenon DEF Records
  <2>2. /\ tx[t].next \in Nat /\ done.next \in Nat
        /\ \A i \in DOMAIN tx[t].sps : tx[t].sps[i].id \in Nat
    <3>1. tx[t].sps \in Seq(Savepoints) /\ tx[t].next \in Nat /\ done.next \in Nat
      BY <1>1, Zenon DEF Records
    <3> QED BY <3>1, SavepointTypes, Zenon
  <2> HIDE DEF rec
  <2>3. \A x, y, z \in Nat : x <= y /\ y <= z => x <= z
    OBVIOUS
  <2>4. Ordered(tx[t].sps, done.next)
    BY <1>4, <2>2, <2>3, ZenonT(30) DEF Ordered
  <2> QED BY <2>1, <2>4, Zenon
<1> HIDE DEF rec
<1>6. ASSUME NEW r \in Records, tx' = [tx EXCEPT ![t] = r],
             r.at \in {"body", "unwind"}, r.err = "none" <=> r.at = "body",
             Ordered(r.sps, r.next),
             c \in open' /\ ~disordered'[t] => Known(r.sps, server'[c].sps),
             silent' \in [Threads -> SUBSET (Errors \cup {"handled"})],
             \A u \in Threads : u # t => silent'[u] = silent[u],
             "query" \in silent'[t] => "query" \in silent[t],
             r.at = "body" /\ c \in open' /\ silent'[t] = {} => server'[c].st = "ok"
      PROVE  Inv'
  <2>1. tx' \in [Threads -> Records] /\ tx'[t] = r /\ \A u \in Threads : u # t => tx'[u] = tx[u]
    BY <1>1, <1>6, Zenon DEF Types
  <2>2. Types'
    BY <1>0, <1>1, <1>3, <1>6, <2>1 DEF Types
  <2>3. \A u \in Threads : u # t => SameRecord(u)
    BY <1>0, <1>6, <2>1, Zenon DEF SameRecord
  <2>4. Committed(t)'
    BY <1>0, <1>4, <1>6, <2>1, Zenon DEF Committed, NoEffect
  <2>5. Numbered(t)'
    BY <1>4, <1>6, <2>1, Zenon DEF Numbered, Ordered
  <2>6. Session(t, c)' /\ tx'[t].at \in Holding
    BY <1>6, <2>1, Zenon DEF Session, Known, Holding
  <2>7. \A d \in Conns : d # c => /\ server'[d] = server[d] /\ (d \in open' <=> d \in open)
                                  /\ d \in transaction_active' <=> d \in transaction_active
    BY <1>0, <1>3, Zenon
  <2> QED BY <1>0, <1>3, <2>2, <2>3, <2>4, <2>5, <2>6, <2>7, HeldStep, Zenon
<1>7. CASE e = "none"
  <2>1. tx' = [tx EXCEPT ![t] = done] /\ silent' = silent
    BY <1>2, <1>7, Zenon
  <2>2. c \in open' /\ ~disordered'[t] => Known(done.sps, server'[c].sps)
    BY <1>3, <1>7, Zenon DEF Answered
  <2>3. c \in open' /\ silent'[t] = {} => server'[c].st = "ok"
    BY <1>3, <1>4, <1>7, <2>1, Zenon DEF Answered
  <2>4. silent' \in [Threads -> SUBSET (Errors \cup {"handled"})]
    BY <1>1, <2>1 DEF Types
  <2> QED BY <1>6, <2>1, <2>2, <2>3, <2>4, Zenon
<1>8. ASSUME e # "none" PROVE c \in open' /\ ~disordered'[t] => Known(tx[t].sps, server'[c].sps)
  BY <1>3, <1>4, <1>8, Zenon DEF Answered
<1>9. CASE /\ e # "none" /\ UNCHANGED silent
           /\ tx' = [tx EXCEPT ![t] = [rec EXCEPT !.at = "unwind", !.err = e]]
  <2> DEFINE r == [rec EXCEPT !.at = "unwind", !.err = e]
  <2>1. /\ r \in Records /\ r.at = "unwind" /\ r.err = e /\ r.sps = tx[t].sps /\ r.next = done.next
        /\ Ordered(r.sps, r.next)
    BY <1>5, Zenon DEF Records, Places, Holding, Outcomes
  <2> HIDE DEF r
  <2>2. tx' = [tx EXCEPT ![t] = r]
    BY <1>9 DEF r
  <2>3. silent' \in [Threads -> SUBSET (Errors \cup {"handled"})]
    BY <1>1, <1>9 DEF Types
  <2>4. c \in open' /\ ~disordered'[t] => Known(r.sps, server'[c].sps)
    BY <1>8, <1>9, <2>1
  <2> QED BY <1>6, <1>9, <2>1, <2>2, <2>3, <2>4, Zenon
<1>10. CASE /\ e # "none" /\ tx' = [tx EXCEPT ![t] = rec]
            /\ silent' = [silent EXCEPT ![t] = @ \cup {"handled"}]
  <2>1. /\ silent' \in [Threads -> SUBSET (Errors \cup {"handled"})]
        /\ silent'[t] = silent[t] \cup {"handled"} /\ \A u \in Threads : u # t => silent'[u] = silent[u]
    BY <1>1, <1>10, Zenon DEF Types
  <2>2. silent'[t] # {} /\ ("query" \in silent'[t] => "query" \in silent[t])
    BY <2>1, Zenon
  <2>3. c \in open' /\ ~disordered'[t] => Known(rec.sps, server'[c].sps)
    BY <1>5, <1>8, <1>10, Zenon
  <2> QED BY <1>5, <1>6, <1>10, <2>1, <2>2, <2>3, Zenon
<1> QED BY <1>2, <1>7, <1>9, <1>10 DEF Raise

\* The same record before fn's statement.
LEMMA BodyFacts ==
  ASSUME Inv, NEW t \in Threads, tx[t].at = "body"
  PROVE  /\ Types /\ Lease(t) \in Conns /\ tx[t] \in Records /\ tx[t].err = "none"
         /\ tx[t].sps \in Seq(Savepoints) /\ tx[t].next \in Nat /\ Ordered(tx[t].sps, tx[t].next)
         /\ disordered \in [Threads -> BOOLEAN]
         /\ Lease(t) \in open /\ ~disordered[t] => Known(tx[t].sps, server[Lease(t)].sps)
<1>0. tx[t].at \in Holding
  BY Zenon DEF Holding
<1>1. /\ Types /\ Lease(t) \in Conns /\ tx[t] \in Records /\ Committed(t) /\ Numbered(t)
      /\ Session(t, Lease(t))
  BY <1>0, HeldFacts, Zenon
<1>2. tx[t].err = "none" /\ Ordered(tx[t].sps, tx[t].next)
  BY <1>1 DEF Committed, Numbered, Ordered
<1>3. tx[t].sps \in Seq(Savepoints) /\ tx[t].next \in Nat
  BY <1>1, Zenon DEF Records
<1>4. Lease(t) \in open /\ ~disordered[t] => Known(tx[t].sps, server[Lease(t)].sps)
  BY <1>1 DEF Session, Known
<1> QED BY <1>1, <1>2, <1>3, <1>4 DEF Types

\* A statement of fn leaves the savepoints alone.
LEMMA StatementStep ==
  ASSUME Inv, NEW t \in Threads, statement(t)
  PROVE  Inv'
<1> DEFINE done == [tx[t] EXCEPT !.stmts = @ + 1]
<1>0. tx[t].at = "body" /\ Attempt(t, "statement", 0, done) /\ disordered' = disordered
  BY DEF statement, At
<1>a. PICK c \in Conns : c = Lease(t)
  BY <1>0, BodyFacts, Zenon
<1>1. /\ tx[t] \in Records /\ tx[t].err = "none" /\ tx[t].next \in Nat /\ Ordered(tx[t].sps, tx[t].next)
      /\ disordered \in [Threads -> BOOLEAN]
      /\ c \in open /\ ~disordered[t] => Known(tx[t].sps, server[c].sps)
  BY <1>0, <1>a, BodyFacts, Zenon
<1>2. /\ done \in Records /\ done.at = "body" /\ done.err = "none" /\ done.next = tx[t].next
      /\ done.sps = tx[t].sps
  BY <1>0, <1>1 DEF Records
<1>3. SpsAfter(server[c], "statement", 0) = server[c].sps /\ "statement" \in Kinds /\ 0 \in Nat
  BY DEF SpsAfter, Kinds
<1> HIDE DEF done
<1>4. PICK r \in Records : r = done
  BY <1>2
<1>5. /\ Attempt(t, "statement", 0, r) /\ r.at = "body" /\ r.err = "none" /\ tx[t].next <= r.next
      /\ Ordered(r.sps, r.next)
      /\ c \in open /\ ~disordered'[t] => Known(r.sps, SpsAfter(server[c], "statement", 0))
  BY <1>0, <1>1, <1>2, <1>3, <1>4
<1>6. /\ disordered' \in [Threads -> BOOLEAN] /\ (disordered[t] => disordered'[t])
      /\ \A u \in Threads : u # t => disordered'[u] = disordered[u]
  BY <1>0, <1>1, Zenon
<1> QED BY <1>0, <1>a, <1>3, <1>5, <1>6, AttemptStep, Zenon

\* A new savepoint has the highest number and the session knows it.
LEMMA SavepointStep ==
  ASSUME Inv, NEW t \in Threads, savepoint(t)
  PROVE  Inv'
<1> DEFINE m == tx[t].next + 1
           q == Append(tx[t].sps, [id |-> m, active |-> TRUE])
           done == [tx[t] EXCEPT !.next = m, !.sps = q]
<1>0. tx[t].at = "body" /\ Attempt(t, "savepoint", m, done) /\ disordered' = disordered
  BY DEF savepoint, At
<1>a. PICK c \in Conns : c = Lease(t)
  BY <1>0, BodyFacts, Zenon
<1>1. /\ tx[t] \in Records /\ tx[t].err = "none" /\ tx[t].next \in Nat /\ Ordered(tx[t].sps, tx[t].next)
      /\ tx[t].sps \in Seq(Savepoints) /\ disordered \in [Threads -> BOOLEAN]
      /\ c \in open /\ ~disordered[t] => Known(tx[t].sps, server[c].sps)
  BY <1>0, <1>a, BodyFacts, Zenon
<1>2. m \in Nat /\ [id |-> m, active |-> TRUE] \in Savepoints
  BY <1>1 DEF Savepoints
<1> DEFINE k == Len(tx[t].sps)
<1>3. /\ q \in Seq(Savepoints) /\ k \in Nat /\ DOMAIN q = 1..(k + 1) /\ DOMAIN tx[t].sps = 1..k
      /\ \A i \in 1..k : q[i] = tx[t].sps[i] /\ q[i].id \in Nat
      /\ q[k + 1] = [id |-> m, active |-> TRUE]
  <2>1. k \in Nat /\ DOMAIN tx[t].sps = 1..k /\ \A i \in 1..k : tx[t].sps[i].id \in Nat
    BY <1>1, SavepointTypes, Zenon
  <2>2. /\ q \in Seq(Savepoints) /\ Len(q) = k + 1
        /\ \A i \in 1..k : q[i] = tx[t].sps[i] /\ q[k + 1] = [id |-> m, active |-> TRUE]
    BY <1>1, <1>2, AppendProperties
  <2>3. q[k + 1] = [id |-> m, active |-> TRUE] /\ DOMAIN q = 1..(k + 1)
    BY <1>1, <1>2, <2>2, AppendProperties, LenProperties
  <2> QED BY <2>1, <2>2, <2>3, Zenon
<1>4. done \in Records /\ done.at = "body" /\ done.err = "none" /\ done.next = m /\ done.sps = q
  BY <1>0, <1>1, <1>2, <1>3, Zenon DEF Records
<1>5. SpsAfter(server[c], "savepoint", m) = server[c].sps \cup {m} /\ "savepoint" \in Kinds
  BY DEF SpsAfter, Kinds
<1> HIDE DEF done, q
<1>6. q[k + 1].id = m /\ \A i \in 1..(k + 1) : i = k + 1 \/ i \in 1..k
  BY <1>3
<1>7. tx[t].next <= m /\ \A i \in 1..k : q[i].id < m /\ q[i].id <= m
  <2>1. \A i \in 1..k : tx[t].sps[i].id <= tx[t].next
    BY <1>1, <1>3, Zenon DEF Ordered
  <2>2. \A i \in 1..k : q[i].id <= tx[t].next /\ q[i].id \in Nat
    BY <1>3, <2>1, Zenon
  <2> HIDE DEF k
  <2> QED BY <1>1, <2>2
<1>8. Ordered(q, m)
  <2>1. \A i \in 1..(k + 1) : q[i].id <= m
    BY <1>2, <1>6, <1>7
  <2>2. \A i, j \in 1..(k + 1) : i < j => q[i].id < q[j].id
    <3>1. \A i, j \in 1..k : i < j => tx[t].sps[i].id < tx[t].sps[j].id
      BY <1>1, <1>3, Zenon DEF Ordered
    <3>2. \A i, j \in 1..k : i < j => q[i].id < q[j].id
      BY <1>3, <3>1, Zenon
    <3>3. \A i \in 1..k : q[i].id < q[k + 1].id
      BY <1>6, <1>7
    <3>4. \A i, j \in 1..(k + 1) : i < j => i \in 1..k
      BY <1>3
    <3> HIDE DEF k, m
    <3> QED BY <1>6, <3>2, <3>3, <3>4
  <2> QED BY <1>3, <2>1, <2>2 DEF Ordered
<1>9. c \in open /\ ~disordered[t] => Known(q, server[c].sps \cup {m})
  BY <1>1, <1>3, <1>6 DEF Known
<1> HIDE DEF m
<1>10. PICK r \in Records : r = done
  BY <1>4
<1>11. /\ Attempt(t, "savepoint", m, r) /\ r.at = "body" /\ r.err = "none" /\ tx[t].next <= r.next
       /\ Ordered(r.sps, r.next)
       /\ c \in open /\ ~disordered'[t] => Known(r.sps, SpsAfter(server[c], "savepoint", m))
  BY <1>0, <1>4, <1>5, <1>7, <1>8, <1>9, <1>10, Zenon
<1>12. /\ disordered' \in [Threads -> BOOLEAN] /\ (disordered[t] => disordered'[t])
       /\ \A u \in Threads : u # t => disordered'[u] = disordered[u]
  BY <1>0, <1>1, Zenon
<1>13. PICK n \in Nat : n = m
  BY <1>2
<1> QED BY <1>0, <1>a, <1>5, <1>11, <1>12, <1>13, AttemptStep

\* Ending savepoint j ends the ones after it in the session; if one of those is active,
\* the order was not the nesting order.
LEMMA SpEndStep ==
  ASSUME Inv, NEW t \in Threads, NEW j, NEW kind \in {"rollback_to", "release"}, sp_end(t, j, kind)
  PROVE  Inv'
<1> DEFINE s == tx[t].sps
           q == [s EXCEPT ![j] = [s[j] EXCEPT !.active = FALSE]]
           done == [tx[t] EXCEPT !.sps[j].active = FALSE]
           k == Len(s)
<1>0. /\ tx[t].at = "body" /\ j \in DOMAIN s /\ s[j].active /\ Attempt(t, kind, s[j].id, done)
      /\ disordered' = [disordered EXCEPT ![t] = @ \/ \E i \in DOMAIN s : i > j /\ s[i].active]
  BY DEF sp_end, At
<1>a. PICK c \in Conns : c = Lease(t)
  BY <1>0, BodyFacts, Zenon
<1>1. /\ tx[t] \in Records /\ tx[t].err = "none" /\ tx[t].next \in Nat /\ Ordered(s, tx[t].next)
      /\ s \in Seq(Savepoints) /\ disordered \in [Threads -> BOOLEAN]
      /\ c \in open /\ ~disordered[t] => Known(s, server[c].sps)
  BY <1>0, <1>a, BodyFacts, Zenon
<1>2. /\ k \in Nat /\ DOMAIN s = 1..k
      /\ \A i \in 1..k : s[i] \in Savepoints /\ s[i].id \in Nat
  BY <1>1, SavepointTypes
<1>3. /\ q \in Seq(Savepoints) /\ DOMAIN q = 1..k /\ q[j].id = s[j].id /\ q[j].active = FALSE
      /\ \A i \in 1..k : i # j => q[i] = s[i]
  <2>1. [s[j] EXCEPT !.active = FALSE] \in Savepoints
    BY <1>0, <1>2, Zenon DEF Savepoints
  <2>2. /\ [s[j] EXCEPT !.active = FALSE].id = s[j].id
        /\ [s[j] EXCEPT !.active = FALSE].active = FALSE
    BY <1>0, <1>2 DEF Savepoints
  <2>3. q \in Seq(Savepoints) /\ DOMAIN q = 1..k
    BY <1>0, <1>1, <1>2, <2>1, ExceptSeq, LenProperties
  <2> QED BY <1>0, <1>2, <2>2, <2>3
<1>4. done \in Records /\ done.at = "body" /\ done.err = "none" /\ done.next = tx[t].next /\ done.sps = q
  BY <1>0, <1>1, <1>3, Zenon DEF Records
<1> HIDE DEF done, q
<1>5. \A i \in 1..k : q[i].id = s[i].id
  BY <1>3, Zenon
<1>6. Ordered(q, tx[t].next)
  BY <1>1, <1>2, <1>3, <1>5 DEF Ordered
<1>7. /\ disordered' \in [Threads -> BOOLEAN] /\ (disordered[t] => disordered'[t])
      /\ \A u \in Threads : u # t => disordered'[u] = disordered[u]
      /\ ~disordered'[t] => ~disordered[t] /\ ~\E i \in DOMAIN s : i > j /\ s[i].active
  <2> DEFINE b == \E i \in DOMAIN s : i > j /\ s[i].active
  <2>1. b \in BOOLEAN /\ disordered' = [disordered EXCEPT ![t] = disordered[t] \/ b]
    BY <1>0, Zenon
  <2> HIDE DEF b
  <2>2. /\ disordered' \in [Threads -> BOOLEAN] /\ (disordered[t] => disordered'[t])
        /\ \A u \in Threads : u # t => disordered'[u] = disordered[u]
        /\ ~disordered'[t] => ~disordered[t] /\ ~b
    BY <1>1, <2>1, Zenon
  <2> QED BY <2>2 DEF b
<1>8. PICK n \in Nat : n = s[j].id
  BY <1>0, <1>2, Zenon
<1>9. c \in open /\ ~disordered'[t] => Known(q, SpsAfter(server[c], kind, n))
  <2> SUFFICES ASSUME c \in open, ~disordered'[t], NEW i \in 1..k, q[i].active
               PROVE  q[i].id \in SpsAfter(server[c], kind, n)
    BY <1>3, Zenon DEF Known
  <2>1. i # j /\ s[i].active /\ ~(i > j) /\ ~disordered[t]
    BY <1>2, <1>3, <1>7, Zenon
  <2>2. i < j /\ i \in Nat /\ j \in Nat
    BY <1>0, <1>2, <2>1
  <2>3. s[i].id < n /\ s[i].id \in Nat /\ s[i].id <= n - 1 /\ s[i].id <= n
    <3>1. s[i].id < s[j].id
      BY <1>0, <1>1, <1>2, <2>2, Zenon DEF Ordered
    <3>2. s[i].id \in Nat /\ s[i].id < n
      BY <1>2, <1>8, <3>1, Zenon
    <3> HIDE DEF s
    <3> QED BY <3>2
  <2>4. s[i].id \in server[c].sps
    BY <1>1, <1>2, <2>1, Zenon DEF Known
  <2>5. s[i].id \in UpTo(server[c], n) /\ s[i].id \in UpTo(server[c], n - 1)
    BY <2>3, <2>4 DEF UpTo
  <2> QED BY <1>5, <2>5, Zenon DEF SpsAfter
<1>10. PICK r \in Records : r = done
  BY <1>4
<1>11. /\ Attempt(t, kind, n, r) /\ r.at = "body" /\ r.err = "none" /\ tx[t].next <= r.next
       /\ Ordered(r.sps, r.next)
       /\ c \in open /\ ~disordered'[t] => Known(r.sps, SpsAfter(server[c], kind, n))
  <2>1. tx[t].next <= tx[t].next
    BY <1>1
  <2> QED BY <1>0, <1>4, <1>6, <1>8, <1>9, <1>10, <2>1, Zenon
<1>12. kind \in Kinds
  BY DEF Kinds
<1> QED BY <1>0, <1>a, <1>7, <1>11, <1>12, AttemptStep, Zenon

\* ~Savepoint ends the innermost one, which the session knows if the order was kept.
LEMMA DtorStep ==
  ASSUME Inv, NEW t \in Threads, savepoint_dtor(t)
  PROVE  Inv'
<1> DEFINE s == tx[t].sps
           q == Front(s)
           k == Len(s)
           l == Last(s)
           r == [tx[t] EXCEPT !.sps = q]
<1>0. /\ tx[t].at \in {"body", "unwind"} /\ tx[t].at \in Holding /\ s # <<>>
      /\ tx' = [tx EXCEPT ![t].sps = SubSeq(@, 1, Len(@) - 1)]
      /\ UNCHANGED <<transaction_active, durable, inDoubt, disordered, selfEnded>>
  BY DEF savepoint_dtor, Holding
<1>a. PICK c \in Conns : c = Lease(t)
  BY <1>0, HeldFacts, Zenon
<1>1. /\ Types /\ PoolOK /\ Committed(t) /\ Numbered(t) /\ owner[c] = t /\ Session(t, c)
      /\ tx[t] \in Records /\ server[c] \in Sessions /\ server \in [Conns -> Sessions]
  BY <1>0, <1>a, HeldFacts, Zenon DEF Types
<1>2. /\ s \in Seq(Savepoints) /\ tx[t].next \in Nat /\ Ordered(s, tx[t].next) /\ NoEffect(t)
      /\ "query" \in silent[t] => disordered[t]
      /\ tx[t].at = "body" /\ c \in open /\ silent[t] = {} => server[c].st = "ok"
      /\ c \in open /\ ~disordered[t] => Known(s, server[c].sps)
  <2>1. s \in Seq(Savepoints) /\ tx[t].next \in Nat
    BY <1>1 DEF Records
  <2> QED BY <1>0, <1>1, <2>1 DEF Numbered, Ordered, Committed, Session, Known
<1>3. /\ k \in Nat \ {0} /\ DOMAIN s = 1..k /\ q \in Seq(Savepoints) /\ DOMAIN q = 1..(k - 1)
      /\ \A i \in 1..(k - 1) : q[i] = s[i] /\ i \in 1..k
      /\ l \in Savepoints /\ l = s[k] /\ k \in 1..k
      /\ \A i \in 1..k : s[i].id \in Nat
  <2>1. k \in Nat /\ DOMAIN s = 1..k /\ \A i \in 1..k : s[i] \in Savepoints /\ s[i].id \in Nat
    BY <1>2, SavepointTypes
  <2>2. /\ k \in Nat \ {0} /\ l = s[k] /\ q \in Seq(Savepoints) /\ Len(q) = k - 1
        /\ \A i \in 1..(k - 1) : q[i] = s[i]
    <3>1. s \in Seq(Savepoints) /\ s # <<>>
      BY <1>0, <1>2, Zenon
    <3> HIDE DEF s
    <3> QED BY <3>1, FrontLast
  <2>3. DOMAIN q = 1..(k - 1)
    BY <2>2, SavepointTypes
  <2> HIDE DEF s, q, k, l
  <2>4. k \in 1..k /\ \A i \in 1..(k - 1) : i \in 1..k
    BY <2>2
  <2> QED BY <2>1, <2>2, <2>3, <2>4, Zenon
<1>4. /\ tx' = [tx EXCEPT ![t] = r] /\ r \in Records /\ r.sps = q
      /\ r.at = tx[t].at /\ r.err = tx[t].err /\ r.next = tx[t].next
  BY <1>0, <1>1, <1>3, Zenon DEF Records, Types, Front
<1> HIDE DEF q, r, l
<1>5. Ordered(q, tx[t].next)
  BY <1>2, <1>3, Zenon DEF Ordered
<1>6. ASSUME PoolOK', UNCHANGED <<owner, at>>, server' \in [Conns -> Sessions],
             \A d \in Conns : d # c => server'[d] = server[d] /\ (d \in open' <=> d \in open),
             c \in open' /\ ~disordered[t] => Known(q, server'[c].sps),
             silent' \in [Threads -> SUBSET (Errors \cup {"handled"})],
             \A u \in Threads : u # t => silent'[u] = silent[u],
             "query" \in silent'[t] => disordered[t],
             tx[t].at = "body" /\ c \in open' /\ silent'[t] = {} => server'[c].st = "ok"
      PROVE  Inv'
  <2>1. tx' \in [Threads -> Records] /\ tx'[t] = r /\ \A u \in Threads : u # t => tx'[u] = tx[u]
    BY <1>1, <1>4, Zenon DEF Types
  <2>2. Types'
    BY <1>0, <1>1, <1>6, <2>1 DEF Types
  <2>3. \A u \in Threads : u # t => SameRecord(u)
    BY <1>0, <1>6, <2>1 DEF SameRecord
  <2>4. Committed(t)'
    BY <1>0, <1>1, <1>2, <1>4, <2>1 DEF Committed, NoEffect
  <2>5. Numbered(t)'
    BY <1>0, <1>4, <1>5, <1>6, <2>1, Zenon DEF Numbered, Ordered
  <2>6. Session(t, c)' /\ tx'[t].at \in Holding
    BY <1>0, <1>4, <1>6, <2>1, Zenon DEF Session, Known
  <2>7. \A d \in Conns : d # c => /\ server'[d] = server[d] /\ (d \in open' <=> d \in open)
                                  /\ d \in transaction_active' <=> d \in transaction_active
    BY <1>0, <1>6, Zenon
  <2> QED BY <1>0, <1>a, <1>6, <2>2, <2>3, <2>4, <2>5, <2>6, <2>7, HeldStep, Zenon
<1>7. c \in open /\ ~disordered[t] => Known(q, server[c].sps)
  BY <1>2, <1>3, Zenon DEF Known
<1>8. CASE ~l.active
  <2>1. UNCHANGED <<poolVars, server, silent>>
    BY <1>8 DEF savepoint_dtor, Innermost, Last, l
  <2>2. PoolOK' /\ UNCHANGED <<owner, at, open>>
    BY <1>1, <2>1, SamePool, Zenon DEF poolVars
  <2>3. silent' \in [Threads -> SUBSET (Errors \cup {"handled"})]
    BY <1>1, <2>1 DEF Types
  <2> QED BY <1>1, <1>2, <1>6, <1>7, <2>1, <2>2, <2>3, Zenon
<1>9. CASE l.active
  <2>1. PICK e \in Errors \cup {"none"} :
          /\ exec(t, "rollback_to", l.id, e)
          /\ silent' = IF e = "none" THEN silent ELSE [silent EXCEPT ![t] = @ \cup {e}]
    BY <1>9 DEF savepoint_dtor, Innermost, Last, l
  <2>2. PICK n \in Nat : n = l.id
    BY <1>3, Zenon
  <2>3. "rollback_to" \in Kinds /\ exec(t, "rollback_to", n, e)
    BY <2>1, <2>2 DEF Kinds
  <2>4. /\ PoolOK' /\ UNCHANGED <<owner, at>> /\ server' \in [Conns -> Sessions]
        /\ \A d \in Conns : d # c => server'[d] = server[d] /\ (d \in open' <=> d \in open)
        /\ Answered(c, "rollback_to", n, e)
    BY <1>a, <1>1, <2>3, ExecEffect, Zenon
  <2>4a. /\ c \notin open' => e = "connection"
         /\ c \in open' =>
              /\ c \in open
              /\ e # "none" => server'[c].sps = server[c].sps /\ n \notin server[c].sps
              /\ e = "none" => server'[c].st = server[c].st \/ server'[c].st = "ok"
              /\ e = "none" => server'[c].sps = UpTo(server[c], n)
    <3>1. SpsAfter(server[c], "rollback_to", n) = UpTo(server[c], n)
      BY Zenon DEF SpsAfter
    <3> QED BY <2>4, <3>1, Zenon DEF Answered
  <2>5. c \in open /\ ~disordered[t] => n \in server[c].sps
    BY <1>2, <1>3, <1>9, <2>2, Zenon DEF Known
  <2>6. c \in open' /\ ~disordered[t] => Known(q, server'[c].sps)
    <3> SUFFICES ASSUME c \in open', ~disordered[t], NEW i \in 1..(k - 1), q[i].active
                 PROVE  q[i].id \in server'[c].sps
      BY <1>3 DEF Known
    <3>1. e = "none" /\ server'[c].sps = UpTo(server[c], n) /\ q[i].id \in server[c].sps
      BY <1>3, <1>7, <2>4a, <2>5, Zenon DEF Known
    <3>2. q[i].id <= n
      <4>1. i < k /\ i \in 1..k /\ k \in 1..k
        BY <1>3
      <4>2. s[i].id < s[k].id
        BY <1>2, <1>3, <4>1, Zenon DEF Ordered
      <4>3. q[i] = s[i] /\ s[i].id \in Nat /\ s[k].id = n
        BY <1>3, <2>2, <4>1, Zenon
      <4>4. \A x, y \in Nat : x < y => x <= y
        OBVIOUS
      <4> QED BY <4>2, <4>3, <4>4, Zenon
    <3> QED BY <3>1, <3>2, Zenon DEF UpTo
  <2>7. /\ silent' \in [Threads -> SUBSET (Errors \cup {"handled"})]
        /\ \A u \in Threads : u # t => silent'[u] = silent[u]
        /\ e # "none" => silent'[t] = silent[t] \cup {e}
        /\ e = "none" => silent'[t] = silent[t]
    BY <1>1, <2>1 DEF Types
  <2>8. "query" \in silent'[t] => disordered[t]
    <3>1. e = "query" => disordered[t]
      BY <2>4a, <2>5, Zenon
    <3> QED BY <1>2, <2>7, <3>1, Zenon
  <2>9. tx[t].at = "body" /\ c \in open' /\ silent'[t] = {} => server'[c].st = "ok"
    BY <1>2, <2>4a, <2>7, Zenon
  <2> QED BY <1>6, <2>4, <2>6, <2>7, <2>8, <2>9, Zenon
<1> QED BY <1>8, <1>9

\* A thread without a lease whose record changes, and no connection.
LEMMA NoLeaseStep ==
  ASSUME Inv, NEW t \in Threads, \A c \in Conns : owner[c] # t, \A d \in Conns : SameConn(d),
         \A u \in Threads : u # t => SameThread(u), Types', PoolOK',
         tx'[t].at \in {"outside", "acquire", "waiting"},
         tx'[t].at = "waiting" <=> at'[t] # "idle",
         tx'[t].at \in {"acquire", "waiting"} => tx'[t].err = "none",
         NoEffect(t)', tx'[t].sps = <<>>, "query" \in silent'[t] => disordered'[t]
  PROVE  Inv'
<1>1. \A c \in Conns : owner'[c] # t
  BY Zenon DEF SameConn
<1>2. Placed(t)'
  BY <1>1, Zenon DEF Placed, Holding
<1>3. Committed(t)'
  BY DEF Committed
<1>4. Numbered(t)'
  BY NoSavepoints, Zenon
<1> QED BY <1>2, <1>3, <1>4, ThreadStep, Zenon DEF ThreadOK

\* What the invariant says of a thread without a lease.
LEMMA NoLeaseFacts ==
  ASSUME Inv, NEW t \in Threads, tx[t].at \in {"outside", "acquire", "waiting", "spent"}
  PROVE  /\ Types /\ PoolOK /\ Committed(t) /\ Numbered(t) /\ tx[t] \in Records
         /\ \A c \in Conns : owner[c] # t
         /\ tx[t].at = "waiting" <=> at[t] # "idle"
<1>1. Types /\ PoolOK /\ Placed(t) /\ Committed(t) /\ Numbered(t)
  BY Zenon DEF Inv, ThreadOK
<1> QED BY <1>1 DEF Placed, Holding, Types

\* with_retry begins: no statement of an earlier call counts.
LEMMA StartStep ==
  ASSUME Inv, NEW t \in Threads, NEW m \in Modes, start(t, m)
  PROVE  Inv'
<1>0. tx[t].at = "outside" /\ UNCHANGED <<poolVars, transaction_active, server>>
  BY Zenon DEF start, At
<1>1. Types /\ PoolOK /\ (\A c \in Conns : owner[c] # t) /\ at[t] = "idle"
  BY <1>0, NoLeaseFacts, Zenon
<1>2. /\ tx' \in [Threads -> Records] /\ \A u \in Threads : u # t => tx'[u] = tx[u]
      /\ tx'[t].at = "acquire" /\ tx'[t].err = "none" /\ tx'[t].sps = <<>>
  <2> DEFINE r == [Fresh EXCEPT !.at = "acquire", !.mode = m]
  <2>1. <<>> \in Seq(Savepoints)
    BY EmptySeq
  <2>2. r \in Records /\ r.at = "acquire" /\ r.err = "none" /\ r.sps = <<>>
    BY <2>1, Zenon DEF Fresh, Records, Places, Holding, Outcomes
  <2> HIDE DEF r
  <2>3. tx' = [tx EXCEPT ![t] = r]
    BY DEF start, r
  <2> QED BY <1>1, <2>2, <2>3 DEF Types
<1>3. /\ durable' \in [Threads -> Nat] /\ inDoubt' \in [Threads -> BOOLEAN]
      /\ selfEnded' \in [Threads -> BOOLEAN] /\ selfEnded'[t] = FALSE
      /\ silent' \in [Threads -> SUBSET (Errors \cup {"handled"})] /\ disordered' \in [Threads -> BOOLEAN]
      /\ durable'[t] = 0 /\ silent'[t] = {}
      /\ \A u \in Threads : u # t => /\ durable'[u] = durable[u] /\ inDoubt'[u] = inDoubt[u]
                                     /\ silent'[u] = silent[u] /\ disordered'[u] = disordered[u] /\ selfEnded'[u] = selfEnded[u]
  BY <1>1, Zenon DEF start, Types
<1>4. PoolOK' /\ UNCHANGED <<owner, at, open>>
  BY <1>0, <1>1, SamePool DEF poolVars
<1>5. Types'
  BY <1>0, <1>1, <1>2, <1>3, Zenon DEF Types
<1>6. \A u \in Threads : u # t => SameThread(u)
  BY <1>2, <1>3, <1>4, Zenon DEF SameThread
<1>7. \A d \in Conns : SameConn(d)
  BY <1>0, <1>4 DEF SameConn
<1>8. at'[t] = "idle" /\ NoEffect(t)' /\ "acquire" # "waiting" /\ "query" \notin silent'[t]
  BY <1>1, <1>3, <1>4 DEF NoEffect
<1> QED BY <1>1, <1>2, <1>4, <1>5, <1>6, <1>7, <1>8, NoLeaseStep, Zenon

\* The pool's answer: a lease, a wait, or a connection that could not be made.
LEMMA AcquiredStep ==
  ASSUME Inv, NEW t \in Threads, tx[t].at \in {"acquire", "waiting"}, PoolOK',
         NEW v \in {"idle", "asleep"}, at' = [at EXCEPT ![t] = v],
         \/ UNCHANGED <<owner, open>>
         \/ v = "idle" /\ \E c \in Conns : Leases(t, c),
         Acquired(t), UNCHANGED <<transaction_active, server, history>>
  PROVE  Inv'
<1>1. /\ Types /\ PoolOK /\ Committed(t) /\ Numbered(t) /\ tx[t] \in Records
      /\ \A c \in Conns : owner[c] # t
  BY NoLeaseFacts, Zenon
<1>2. /\ tx[t].err = "none" /\ tx[t].sps = <<>> /\ NoEffect(t)
      /\ "query" \in silent[t] => disordered[t]
  BY <1>1 DEF Committed, Numbered
<1>3. /\ at'[t] = v /\ \A u \in Threads : u # t => at'[u] = at[u]
  BY <1>1, Zenon DEF PoolOK, PoolTypes
<1>4. \A u \in Threads : u # t => tx'[u] = tx[u]
  BY <1>1 DEF Acquired, Goto, Throws, Types
<1>5. /\ \A u \in Threads : u # t => SameThread(u)
      /\ durable'[t] = durable[t] /\ silent'[t] = silent[t] /\ disordered'[t] = disordered[t]
      /\ NoEffect(t)'
  BY <1>2, <1>3, <1>4, Zenon DEF SameThread, history, NoEffect
<1>6. tx' \in [Threads -> Records] => Types'
  BY <1>1 DEF Types, history
<1>7. ASSUME NEW c \in Conns, Leases(t, c), v = "idle" PROVE Inv'
  <2>1. /\ owner[c] = Nobody /\ owner'[c] = t
        /\ \A d \in Conns : d # c => owner'[d] = owner[d] /\ (d \in open' <=> d \in open)
    BY <1>1, <1>7, Zenon DEF Leases, PoolOK, PoolTypes
  <2>2. Goto(t, "begin")
    BY <2>1 DEF Acquired
  <2>3. /\ tx' \in [Threads -> Records] /\ tx'[t].at = "begin" /\ tx'[t].err = "none" /\ tx'[t].sps = <<>>
    BY <1>1, <1>2, <2>2, Zenon DEF Goto, Types, Records, Places, Holding
  <2>4. Placed(t)'
    BY <1>3, <1>7, <2>1, <2>3 DEF Placed, Holding
  <2>5. Committed(t)' /\ Numbered(t)'
    <3>1. Committed(t)'
      BY <1>2, <1>5, <2>3, Zenon DEF Committed
    <3>2. Numbered(t)'
      BY <1>2, <1>5, <2>3, NoSavepoints, Zenon
    <3> QED BY <3>1, <3>2
  <2>6. Clean(c)'
    <3>1. ConnOK(c)
      BY Zenon DEF Inv
    <3>2. Clean(c)
      BY <2>1, <3>1, Zenon DEF ConnOK
    <3> QED BY <3>2 DEF Clean, NoTx
  <2>7. Session(t, c)'
    BY <2>3, <2>6, Zenon DEF Session
  <2>8. ConnOK(c)'
    BY <2>1, <2>6, <2>7, Zenon DEF ConnOK
  <2>9. \A d \in Conns : d # c => owner[d] # t /\ SameConn(d)
    BY <1>1, <2>1 DEF SameConn
  <2> QED BY <1>5, <1>6, <2>1, <2>3, <2>4, <2>5, <2>8, <2>9, LeaseStep, Zenon DEF ThreadOK
<1>8. CASE UNCHANGED <<owner, open>>
  <2>1. \A d \in Conns : SameConn(d)
    BY <1>8, Zenon DEF SameConn
  <2>2. IF v = "asleep" THEN Goto(t, "waiting") ELSE Throws(t, "outside", "constructor")
    BY <1>1, <1>3, <1>8, Zenon DEF Acquired
  <2>3. /\ tx' \in [Threads -> Records] /\ tx'[t].sps = <<>>
        /\ v = "asleep" => tx'[t].at = "waiting" /\ tx'[t].err = "none"
        /\ v = "idle" => tx'[t].at = "outside"
    <3>1. CASE v = "asleep"
      <4>1. tx' = [tx EXCEPT ![t].at = "waiting"]
        BY <2>2, <3>1 DEF Goto
      <4> QED BY <1>1, <1>2, <3>1, <4>1, Zenon DEF Types, Records, Places
    <3>2. CASE v = "idle"
      <4>1. tx' = [tx EXCEPT ![t].at = "outside", ![t].err = "constructor"]
        BY <2>2, <3>2 DEF Throws
      <4> QED BY <1>1, <1>2, <3>2, <4>1, Zenon DEF Types, Records, Places, Outcomes
    <3> QED BY <3>1, <3>2, Zenon
  <2> QED BY <1>1, <1>2, <1>3, <1>5, <1>6, <2>1, <2>3, NoLeaseStep, Zenon
<1> QED BY <1>7, <1>8

\* Impl::Impl, from the call of acquire and from its wait.
LEMMA AcquireStep ==
  ASSUME Inv, NEW t \in Threads, acquire(t) \/ acquire_resume(t)
  PROVE  Inv'
<1>0. /\ tx[t].at \in {"acquire", "waiting"} /\ Acquired(t)
      /\ UNCHANGED <<transaction_active, server, history>>
  BY DEF acquire, acquire_resume, At
<1>1. PoolOK /\ \A c \in Conns : owner[c] # t
  BY <1>0, NoLeaseFacts
<1>2. CASE Pool!take_connection_locked(t)
  <2>1. /\ PoolOK' /\ at' = [at EXCEPT ![t] = "idle"]
        /\ UNCHANGED <<owner, open>> \/ \E c \in Conns : Leases(t, c)
    BY <1>1, <1>2, TakeKeepsPool
  <2> QED BY <1>0, <2>1, AcquiredStep, Zenon
<1>3. ASSUME NEW v \in {"idle", "asleep"}, at' = [at EXCEPT ![t] = v],
             UNCHANGED <<connections, idle_connections, owner, open>>
      PROVE  Inv'
  <2>1. at' \in [Threads -> {"idle", "asleep", "woken", "expired"}]
    BY <1>1, <1>3 DEF PoolOK, PoolTypes
  <2>2. PoolOK'
    BY <1>1, <1>3, <2>1, MoveKeepsPool
  <2> QED BY <1>0, <1>3, <2>2, AcquiredStep, Zenon
<1> QED BY <1>2, <1>3 DEF acquire, acquire_resume, Pool!acquire, Pool!acquire_resume, Pool!Wait

\* An attempt is over: the record is fresh, and what with_retry throws or not is kept.
LEMMA OverFacts ==
  ASSUME Types, NEW t \in Threads, NEW e \in Outcomes, Over(t, e),
         "query" \in silent[t] => disordered[t]
  PROVE  /\ Types' /\ tx'[t].sps = <<>>
         /\ Again(t, e) => tx'[t].at = "acquire" /\ tx'[t].err = "none"
         /\ ~Again(t, e) => tx'[t].at = "outside" /\ tx'[t].err = e
         /\ "query" \in silent'[t] => disordered'[t]
         /\ \A u \in Threads : u # t => SameRecord(u)
         /\ UNCHANGED <<transaction_active, server, durable, inDoubt, selfEnded>>
<1>1. /\ tx[t] \in Records
      /\ UNCHANGED <<transaction_active, server, durable, inDoubt, selfEnded>>
  BY DEF Over, Types
<1>2. /\ tx' \in [Threads -> Records] /\ \A u \in Threads : u # t => tx'[u] = tx[u]
      /\ tx'[t].sps = <<>>
      /\ Again(t, e) => tx'[t].at = "acquire" /\ tx'[t].err = "none"
      /\ ~Again(t, e) => tx'[t].at = "outside" /\ tx'[t].err = e
  <2> DEFINE r == IF Again(t, e) THEN [Fresh EXCEPT !.at = "acquire", !.i = tx[t].i + 1]
                  ELSE [Fresh EXCEPT !.mode = @, !.err = e]
  <2>1. /\ r \in Records /\ r.sps = <<>> /\ (Again(t, e) => r.at = "acquire" /\ r.err = "none")
        /\ ~Again(t, e) => r.at = "outside" /\ r.err = e
    <3>1. <<>> \in Seq(Savepoints) /\ tx[t].i \in Nat /\ e \in Outcomes
      BY <1>1, EmptySeq, Zenon DEF Records
    <3>2. CASE Again(t, e)
      <4> DEFINE a == [Fresh EXCEPT !.at = "acquire", !.i = tx[t].i + 1]
      <4>1. PICK j \in Nat : j = tx[t].i + 1
        <5>1. \A x \in Nat : \E j \in Nat : j = x + 1
          OBVIOUS
        <5> QED BY <3>1, <5>1, Zenon
      <4>2. Fresh \in Records /\ Fresh.sps = <<>> /\ Fresh.err = "none"
        BY <3>1 DEF Fresh, Records, Places, Modes, Outcomes
      <4>3. a \in Records /\ a.sps = <<>> /\ a.at = "acquire" /\ a.err = "none"
        <5>1. a = [Fresh EXCEPT !.at = "acquire", !.i = j]
          BY <4>1
        <5> HIDE DEF a
        <5> QED BY <4>2, <5>1, Zenon DEF Records, Places
      <4> QED BY <3>2, <4>3
    <3>3. CASE ~Again(t, e)
      BY <3>1, <3>3, Zenon DEF Fresh, Records, Places, Holding, Modes
    <3> QED BY <3>2, <3>3
  <2> HIDE DEF r
  <2>2. tx' = [tx EXCEPT ![t] = r]
    BY Zenon DEF Over, r
  <2> QED BY <1>1, <2>1, <2>2, Zenon DEF Types
<1>3. /\ disordered' \in [Threads -> BOOLEAN] /\ silent' \in [Threads -> SUBSET (Errors \cup {"handled"})]
      /\ \A u \in Threads : u # t => silent'[u] = silent[u] /\ disordered'[u] = disordered[u]
      /\ "query" \in silent'[t] => disordered'[t]
  <2>1. CASE Again(t, e)
    <3>1. disordered' = [disordered EXCEPT ![t] = FALSE] /\ silent' = [silent EXCEPT ![t] = {}]
      BY <2>1, Zenon DEF Over
    <3> QED BY <3>1 DEF Types
  <2>2. CASE ~Again(t, e)
    <3>1. disordered' = [disordered EXCEPT ![t] = disordered[t]] /\ silent' = silent
      BY <1>1, <2>2, Zenon DEF Over, Types
    <3> QED BY <3>1 DEF Types
  <2> QED BY <2>1, <2>2, Zenon
<1>4. Types' /\ \A u \in Threads : u # t => SameRecord(u)
  BY <1>1, <1>2, <1>3, Zenon DEF Types, SameRecord
<1> QED BY <1>1, <1>2, <1>3, <1>4, Zenon

\* The lease c of t goes back clean.
LEMMA ReturnStep ==
  ASSUME Inv, NEW t \in Threads, tx[t].at \in {"release", "reset"},
         Pool!return_connection(t, Lease(t)), UNCHANGED <<transaction_active, server>>,
         Types', \A u \in Threads : u # t => SameRecord(u),
         tx'[t].at \in {"outside", "acquire", "spent"}, tx'[t].sps = <<>>,
         Committed(t)', "query" \in silent'[t] => disordered'[t]
  PROVE  Inv'
<1>0. tx[t].at \in Holding /\ server' = server /\ transaction_active' = transaction_active
  BY DEF Holding
<1>a. PICK c \in Conns : c = Lease(t)
  BY <1>0, HeldFacts, Zenon
<1>1. /\ Types /\ PoolOK /\ Committed(t) /\ Numbered(t) /\ owner[c] = t /\ Session(t, c)
      /\ tx[t] \in Records /\ Placed(t)
  BY <1>0, <1>a, HeldFacts, Zenon DEF Inv, ThreadOK
<1>2. \A d \in Conns : d # c => owner[d] # t
  BY <1>0, <1>a, <1>1, LeaseOwned, Zenon
<1>3. /\ PoolOK' /\ owner' = [owner EXCEPT ![c] = Nobody] /\ UNCHANGED open
      /\ \A u \in Threads : at'[u] # "idle" <=> at[u] # "idle"
  BY <1>a, <1>1, ReturnKeepsPool
<1>4. owner'[c] = Nobody /\ \A d \in Conns : d # c => owner'[d] = owner[d]
  BY <1>1, <1>3 DEF PoolOK, PoolTypes
<1>5. at'[t] = "idle" /\ t # Nobody
  BY <1>0, <1>1, <1>3, TransactionAssumption, Zenon DEF Placed, TransactionAssumption
<1>9. \A u \in Threads : u # t => SameThread(u)
  BY <1>3, Zenon DEF SameThread, SameRecord
<1>10. ThreadOK(t)'
  <2>1. Placed(t)'
    BY <1>2, <1>4, <1>5, Zenon DEF Placed, Holding
  <2>2. Numbered(t)'
    BY NoSavepoints, Zenon
  <2> QED BY <2>1, <2>2 DEF ThreadOK
<1>11. ConnOK(c)'
  <2>1. Clean(c)
    BY <1>0, <1>1, Zenon DEF Session
  <2>2. Clean(c)'
    BY <1>0, <2>1 DEF Clean, NoTx
  <2>3. \A u \in Threads : owner'[c] # u
    BY <1>4, TransactionAssumption, Zenon DEF TransactionAssumption
  <2> QED BY <2>2, <2>3 DEF ConnOK
<1>12. \A d \in Conns : d # c => owner[d] # t /\ SameConn(d)
  BY <1>0, <1>2, <1>3, <1>4 DEF SameConn
<1> QED BY <1>1, <1>3, <1>4, <1>9, <1>10, <1>11, <1>12, LeaseStep, Zenon

\* The lease goes back clean, and with_retry starts over or ends.
LEMMA ReleaseStep ==
  ASSUME Inv, NEW t \in Threads, with_retry(t)
  PROVE  Inv'
<1>0. /\ tx[t].at = "release" /\ tx[t].at \in Holding /\ Over(t, tx[t].err)
      /\ Pool!return_connection(t, Lease(t))
  BY DEF with_retry, At, Holding
<1>1. Types /\ Committed(t) /\ Numbered(t) /\ tx[t] \in Records
  BY <1>0, HeldFacts, Zenon
<1>2. PICK e \in Outcomes : e = tx[t].err
  BY <1>1, Zenon DEF Records
<1>3. /\ "query" \in silent[t] => disordered[t]
      /\ NoEffect(t) \/ (durable[t] = 1 /\ ~Again(t, e) /\ (e = "none" \/ (e = "aborted" /\ inDoubt[t])))
  BY <1>0, <1>1, <1>2, Zenon DEF Committed, Numbered, Again, Retryable
<1>4. /\ Types' /\ tx'[t].sps = <<>>
      /\ Again(t, e) => tx'[t].at = "acquire" /\ tx'[t].err = "none"
      /\ ~Again(t, e) => tx'[t].at = "outside" /\ tx'[t].err = e
      /\ "query" \in silent'[t] => disordered'[t]
      /\ \A u \in Threads : u # t => SameRecord(u)
      /\ UNCHANGED <<transaction_active, server, durable, inDoubt, selfEnded>>
  BY <1>0, <1>1, <1>2, <1>3, OverFacts, Zenon
<1>5. Committed(t)'
  BY <1>3, <1>4, Zenon DEF Committed, NoEffect
<1> QED BY <1>0, <1>4, <1>5, ReturnStep, Zenon

\* fn goes on without the lease of the transaction it ended.
LEMMA ResetStep ==
  ASSUME Inv, NEW t \in Threads, fn_reset(t)
  PROVE  Inv'
<1>0. /\ tx[t].at = "reset" /\ tx[t].at \in Holding /\ Goto(t, "spent") /\ UNCHANGED history
      /\ Pool!return_connection(t, Lease(t)) /\ UNCHANGED <<transaction_active, server>>
  BY DEF fn_reset, At, Holding
<1>1. /\ Types /\ Committed(t) /\ Numbered(t) /\ tx[t] \in Records
      /\ server \in [Conns -> Sessions] /\ transaction_active \subseteq Conns
  BY <1>0, HeldFacts, Zenon DEF Types
<1> DEFINE r == [tx[t] EXCEPT !.at = "spent"]
<1>2. r \in Records /\ r.at = "spent" /\ r.sps = tx[t].sps
  BY <1>1, Zenon DEF Records, Places
<1>3. tx' = [tx EXCEPT ![t] = r]
  BY <1>0, <1>1, Zenon DEF Goto, Types
<1> HIDE DEF r
<1>4. /\ Types' /\ tx'[t] = r /\ \A u \in Threads : u # t => SameRecord(u)
      /\ durable'[t] = durable[t] /\ inDoubt'[t] = inDoubt[t] /\ selfEnded'[t] = selfEnded[t]
      /\ silent'[t] = silent[t] /\ disordered'[t] = disordered[t]
  <2>1. server' \in [Conns -> Sessions] /\ transaction_active' \subseteq Conns
    BY <1>0, <1>1
  <2> QED BY <1>0, <1>1, <1>2, <1>3, <2>1, RecordTypes, Zenon
<1>5. /\ tx[t].sps = <<>> /\ ("query" \in silent[t] => disordered[t]) /\ NoEffect(t)
  BY <1>0, <1>1, Zenon DEF Committed, Numbered
<1>6. Committed(t)'
  BY <1>2, <1>4, <1>5, Zenon DEF Committed, NoEffect
<1> QED BY <1>0, <1>2, <1>4, <1>5, <1>6, ReturnStep, Zenon

\* fn returns or throws after it ended its transaction.
LEMMA SpentStep ==
  ASSUME Inv, NEW t \in Threads, with_retry_spent(t)
  PROVE  Inv'
<1>0. tx[t].at = "spent" /\ UNCHANGED poolVars
  BY DEF with_retry_spent, At
<1>1. PICK e \in Outcomes : Over(t, e)
  BY Zenon DEF with_retry_spent, Outcomes, Errors
<1>2. /\ Types /\ PoolOK /\ Committed(t) /\ Numbered(t)
      /\ (\A c \in Conns : owner[c] # t) /\ at[t] = "idle"
  BY <1>0, NoLeaseFacts, Zenon
<1>3. ("query" \in silent[t] => disordered[t]) /\ NoEffect(t)
  BY <1>0, <1>2, Zenon DEF Committed, Numbered
<1>4. /\ Types' /\ tx'[t].sps = <<>>
      /\ Again(t, e) => tx'[t].at = "acquire" /\ tx'[t].err = "none"
      /\ ~Again(t, e) => tx'[t].at = "outside" /\ tx'[t].err = e
      /\ "query" \in silent'[t] => disordered'[t]
      /\ \A u \in Threads : u # t => SameRecord(u)
      /\ UNCHANGED <<transaction_active, server, durable, inDoubt, selfEnded>>
  BY <1>1, <1>2, <1>3, OverFacts, Zenon
<1>5. PoolOK' /\ UNCHANGED <<owner, at, open>>
  BY <1>0, <1>2, SamePool DEF poolVars
<1>6. /\ \A u \in Threads : u # t => SameThread(u)
      /\ \A d \in Conns : SameConn(d)
  BY <1>4, <1>5, Zenon DEF SameThread, SameRecord, SameConn
<1>7. /\ NoEffect(t)' /\ at'[t] = "idle" /\ tx'[t].at \in {"outside", "acquire"}
      /\ "outside" # "waiting" /\ "acquire" # "waiting" /\ "outside" # "acquire"
      /\ tx'[t].at = "acquire" => tx'[t].err = "none"
  <2>1. NoEffect(t)'
    BY <1>3, <1>4, Zenon DEF NoEffect
  <2>2. at'[t] = "idle"
    BY <1>2, <1>5
  <2>3. \/ tx'[t].at = "acquire" /\ tx'[t].err = "none"
        \/ tx'[t].at = "outside"
    BY <1>4, Zenon
  <2> QED BY <2>1, <2>2, <2>3
<1> QED BY <1>2, <1>4, <1>5, <1>6, <1>7, NoLeaseStep, Zenon

\* Steps that only wake a thread, destroy the pool, or change nothing.
LEMMA QuietStep ==
  ASSUME Inv, UNCHANGED <<transaction_active, server, tx, history>>,
         UNCHANGED <<connections, idle_connections, owner, open>>,
         at' \in [Threads -> {"idle", "asleep", "woken", "expired"}],
         \A u \in Threads : at'[u] # "idle" <=> at[u] # "idle"
  PROVE  Inv'
<1>1. PoolOK' /\ Types'
  BY MoveKeepsPool DEF Inv, Types, history
<1>2. (\A u \in Threads : SameThread(u)) /\ \A d \in Conns : SameConn(d)
  BY DEF SameThread, SameConn, history
<1>3. ASSUME NEW u \in Threads PROVE ThreadOK(u)'
  BY <1>2, UntouchedThread DEF Inv
<1>4. ASSUME NEW d \in Conns PROVE ConnOK(d)'
  <2>1. ConnOK(d)
    BY DEF Inv
  <2>2. owner'[d] = Nobody => Clean(d)'
    BY <2>1 DEF ConnOK, Clean, NoTx
  <2>3. ASSUME NEW u \in Threads, owner'[d] = u PROVE Session(u, d)'
    <3>1. SameThread(u) /\ SameConn(d) /\ Session(u, d)
      BY <1>2, <2>1, <2>3, Zenon DEF ConnOK
    <3> QED BY <3>1, UntouchedSession, Zenon
  <2> QED BY <2>2, <2>3, Zenon DEF ConnOK
<1> QED BY <1>1, <1>3, <1>4, Zenon DEF Inv
-----------------------------------------------------------------------------
\* The invariant holds initially.
LEMMA InitInv == Init => Inv
<1> SUFFICES ASSUME Init PROVE Inv
  OBVIOUS
<1>1. Pool!Init
  BY DEF Init
<1>2. /\ connections = <<>> /\ idle_connections = 0 /\ open = {}
      /\ owner = [c \in Conns |-> Nobody] /\ at = [t \in Threads |-> "idle"]
  BY <1>1 DEF Pool!Init
<1>3. PoolOK
  <2>1. <<>> \in Seq(Conns) /\ Len(<<>>) = 0 /\ DOMAIN <<>> = {}
    BY EmptySeq
  <2> QED BY <1>2, <2>1 DEF PoolOK, PoolTypes, Pool!OnePlace, Pool!IdleAreOpen, OneLease
<1>4. Fresh \in Records /\ Fresh.at = "outside" /\ Fresh.err = "none" /\ Fresh.sps = <<>>
  <2>1. <<>> \in Seq(Savepoints)
    BY EmptySeq
  <2> QED BY <2>1 DEF Fresh, Records, Places, Modes, Outcomes
<1>5. NoTx \in Sessions
  BY DEF NoTx, Sessions
<1>6. Types
  BY <1>4, <1>5 DEF Init, Types
<1>7. ASSUME NEW t \in Threads PROVE ThreadOK(t)
  <2>1. tx[t] = Fresh /\ NoEffect(t) /\ silent[t] = {} /\ at[t] = "idle"
    BY <1>2 DEF Init, NoEffect
  <2>2. \A c \in Conns : owner[c] # t
    BY <1>2, TransactionAssumption DEF TransactionAssumption
  <2>3. Placed(t)
    BY <1>4, <2>1, <2>2, Zenon DEF Placed, Holding
  <2>4. Committed(t)
    BY <1>4, <2>1, Zenon DEF Committed
  <2>5. Numbered(t)
    BY <1>4, <2>1, EmptySeq DEF Numbered
  <2> QED BY <2>3, <2>4, <2>5 DEF ThreadOK
<1>8. ASSUME NEW c \in Conns PROVE ConnOK(c)
  BY <1>2, TransactionAssumption DEF Init, ConnOK, Clean, NoTx, TransactionAssumption
<1> QED BY <1>3, <1>6, <1>7, <1>8, Zenon DEF Inv

\* Every step keeps it.
LEMMA NextInv == Inv /\ [Next]_vars => Inv'
<1> SUFFICES ASSUME Inv, [Next]_vars PROVE Inv'
  OBVIOUS
<1>1. CASE \E t \in Threads, m \in Modes : start(t, m)
  BY <1>1, StartStep
<1>2. CASE \E t \in Threads : acquire(t) \/ acquire_resume(t)
  BY <1>2, AcquireStep
<1>3. CASE \E t \in Threads : wake_spurious(t)
  <2>1. PICK t \in Threads : wake_spurious(t)
    BY <1>3
  <2>2. /\ at[t] = "asleep" /\ at' = [at EXCEPT ![t] = "woken"]
        /\ UNCHANGED <<transaction_active, server, tx, history, connections, idle_connections, owner, open>>
    BY <2>1 DEF wake_spurious, Pool!wake_spurious
  <2>3. at \in [Threads -> {"idle", "asleep", "woken", "expired"}]
    BY DEF Inv, PoolOK, PoolTypes
  <2>4. at' \in [Threads -> {"idle", "asleep", "woken", "expired"}]
    BY <2>2, <2>3
  <2>5. \A u \in Threads : at'[u] # "idle" <=> at[u] # "idle"
    BY <2>2, <2>3
  <2> QED BY <2>2, <2>4, <2>5, QuietStep
<1>4. CASE \E t \in Threads : begin(t) \/ setIsolationLevel(t)
  BY <1>4, BeginStep, IsolationStep
<1>5. CASE \E t \in Threads : statement(t) \/ savepoint(t) \/ savepoint_dtor(t)
  BY <1>5, StatementStep, SavepointStep, DtorStep
<1>6. CASE \E t \in Threads : throw(t) \/ unwound(t)
  BY <1>6, ThrowStep
<1>7. CASE \E t \in Threads : \E j \in 1..MaxSavepoints : rollback_to(t, j) \/ release_sp(t, j)
  <2>1. PICK t \in Threads, j \in 1..MaxSavepoints : sp_end(t, j, "rollback_to") \/ sp_end(t, j, "release")
    BY <1>7, Zenon DEF rollback_to, release_sp
  <2> QED BY <2>1, SpEndStep
<1>8. CASE \E t \in Threads : \/ commit(t) \/ rollback(t) \/ fn_ends(t) \/ fn_reset(t)
                              \/ with_retry(t) \/ with_retry_spent(t)
  BY <1>8, CommitStep, RollbackStep, EndsStep, ResetStep, ReleaseStep, SpentStep
<1>9. CASE destroy_pool \/ UNCHANGED vars
  <2>1. UNCHANGED <<transaction_active, server, tx, history, connections, idle_connections, owner, open, at>>
    BY <1>9, Zenon DEF destroy_pool, Pool!destroy_pool, vars, poolVars
  <2>2. at' \in [Threads -> {"idle", "asleep", "woken", "expired"}]
    BY <2>1 DEF Inv, PoolOK, PoolTypes
  <2> QED BY <2>1, <2>2, QuietStep
<1> QED BY <1>1, <1>2, <1>3, <1>4, <1>5, <1>6, <1>7, <1>8, <1>9, Zenon DEF Next

\* What threads, pool and database agree on, in every state: types; the pool's books;
\* a thread has a lease exactly from acquire to release; what was committed, by where the
\* call is; and the session of every lease knows the active savepoints in scope.
THEOREM TransactionInvariant == Spec => []Inv
<1>1. Init => Inv
  BY InitInv
<1>2. Inv /\ [Next]_vars => Inv'
  BY NextInv
<1> QED BY <1>1, <1>2, PTL DEF Spec

\* A connection comes back to the pool open and with neither the flag nor a transaction,
\* whatever the call did and however it ended.
THEOREM ConnectionsReturnClean == Spec => []CleanReturn
<1>1. Inv => CleanReturn
  <2> SUFFICES ASSUME Inv, NEW c \in Conns
               PROVE  /\ c \in Range(connections) => c \in open
                      /\ owner[c] = Nobody => c \notin transaction_active /\ server[c] = NoTx
    BY DEF CleanReturn
  <2>1. c \in Range(connections) => c \in open
    BY DEF Inv, PoolOK, Pool!IdleAreOpen, Range
  <2>2. ConnOK(c)
    BY Zenon DEF Inv
  <2> QED BY <2>1, <2>2 DEF ConnOK, Clean
<1> QED BY <1>1, TransactionInvariant, PTL

\* with_retry and Connection::exec take effect exactly once, for any number of retries, if
\* fn leaves COMMIT and ROLLBACK to them.
THEOREM TakesEffectOnce == Spec => []EffectOnce
<1>1. Inv => EffectOnce
  <2> SUFFICES ASSUME Inv, NEW t \in Threads, ~selfEnded[t]
               PROVE  /\ durable[t] <= 1
                      /\ durable[t] = 1 => inDoubt[t] \/ (tx[t].err = "none" /\ tx[t].at \in {"release", "outside"})
                      /\ At(t, "release") /\ tx[t].err = "none" /\ silent[t] = {} => durable[t] = 1
    BY DEF EffectOnce
  <2>1. ThreadOK(t) /\ durable[t] \in {0, 1}
    BY DEF Inv, ThreadOK, Committed, NoEffect
  <2>2. durable[t] <= 1 /\ 0 # 1
    BY <2>1
  <2> QED BY <2>1, <2>2, Zenon DEF ThreadOK, Committed, NoEffect, At
<1> QED BY <1>1, TransactionInvariant, PTL

\* ~Savepoint fails silently only on a lost connection or after savepoints were ended out
\* of order, for any depth of savepoints.
THEOREM SavepointsAreScopeSafe == Spec => []SavepointScopeSafe
<1>1. Inv => SavepointScopeSafe
  <2> SUFFICES ASSUME Inv, NEW t \in Threads PROVE silent[t] \cap {"query"} # {} => disordered[t]
    BY DEF SavepointScopeSafe
  <2>1. ThreadOK(t)
    BY DEF Inv
  <2> QED BY <2>1 DEF ThreadOK, Numbered
<1> QED BY <1>1, TransactionInvariant, PTL
=============================================================================
