---------------------------- MODULE ConnectionPool ----------------------------
(***************************************************************************)
(* db/pool: PoolState, ConnectionPool and the PooledConnection lease.      *)
(*                                                                         *)
(* A critical section of m_mtx is one step; a wait on m_cond ends the step *)
(* with the thread asleep.  The database connection itself is external: it *)
(* can fail to be created and it can fail while a lease holder uses it.    *)
(* The shared_ptr<PoolState> is held by the ConnectionPool object and by   *)
(* every lease; PoolState is destroyed when the last of them goes.         *)
(***************************************************************************)
EXTENDS Naturals, FiniteSets, Sequences, Functions

CONSTANTS Threads,          \* threads that acquire connections
          Conns,            \* identities of live Connection objects
          MaxConnections,   \* config.max_connections
          MaxLeases,        \* leases one thread holds at a time
          CreateMayFail,    \* whether the Connection constructor may throw
          Nobody            \* no thread

ASSUME PoolAssumption ==
  /\ IsFiniteSet(Threads) /\ IsFiniteSet(Conns)
  /\ MaxConnections \in Nat \ {0}
  /\ MaxLeases \in Nat
  /\ CreateMayFail \in BOOLEAN
  /\ Nobody \notin Threads

VARIABLES
  connections,         \* the idle connections, the last one is handed out next
  active_connections,
  idle_connections,
  m_shutdown,
  poolAlive,           \* the ConnectionPool object exists
  owner,               \* owner[c]: the thread whose lease holds c, or Nobody
  open,                \* the connections whose is_open() is true
  at,                  \* at[t]: where in acquire or try_acquire_for t is
  call                 \* call[t]: which of the two it called last

vars == <<connections, active_connections, idle_connections, m_shutdown, poolAlive,
          owner, open, at, call>>

Init ==
  /\ connections = <<>>
  /\ active_connections = 0
  /\ idle_connections = 0
  /\ m_shutdown = FALSE
  /\ poolAlive = TRUE
  /\ owner = [c \in Conns |-> Nobody]
  /\ open = {}
  /\ at = [t \in Threads |-> "idle"]
  /\ call = [t \in Threads |-> "acquire"]
-----------------------------------------------------------------------------
Leased    == {c \in Conns : owner[c] # Nobody}
Held(t)   == {c \in Conns : owner[c] = t}
Sleepers  == {t \in Threads : at[t] = "asleep"}
Waking    == {t \in Threads : at[t] \in {"woken", "expired"}}

can_create_connection_locked ==
  idle_connections + active_connections < MaxConnections

\* The predicate of both waits.
Available == m_shutdown \/ connections # <<>> \/ can_create_connection_locked

notify_one_Nobody(f) == at' = f

notify_one(f) ==
  IF Sleepers = {} THEN at' = f
  ELSE \E u \in Sleepers : at' = [f EXCEPT ![u] = "woken"]

\* init_new_connection_locked, after which take_connection_locked pops what was
\* pushed; the Connection constructor may throw, and nothing has changed then.
init_new_connection_locked(t) ==
  /\ can_create_connection_locked
  /\ at' = [at EXCEPT ![t] = "idle"]
  /\ UNCHANGED <<connections, idle_connections>>
  /\ \/ \E c \in Conns :
          /\ owner[c] = Nobody /\ c \notin Range(connections)
          /\ owner' = [owner EXCEPT ![c] = t]
          /\ open' = open \cup {c}
          /\ active_connections' = active_connections + 1
     \/ CreateMayFail /\ UNCHANGED <<owner, open, active_connections>>

\* pop_back of the vector of idle connections.
Popped == SubSeq(connections, 1, Len(connections) - 1)

take_connection_locked(t) ==
  \/ /\ idle_connections > 0
     /\ connections' = Popped
     /\ idle_connections' = idle_connections - 1
     /\ active_connections' = active_connections + 1
     /\ owner' = [owner EXCEPT ![connections[Len(connections)]] = t]
     /\ at' = [at EXCEPT ![t] = "idle"]
     /\ UNCHANGED open
  \/ idle_connections = 0 /\ init_new_connection_locked(t)

Wait(t) ==
  /\ at' = [at EXCEPT ![t] = "asleep"]
  /\ UNCHANGED <<connections, active_connections, idle_connections, owner, open>>

\* acquire and try_acquire_for up to the wait.  m_shutdown is set by the
\* destructor of PoolState only, when nobody can call any more.
acquire(t, k) ==
  /\ at[t] = "idle" /\ poolAlive
  /\ Cardinality(Held(t)) < MaxLeases
  /\ call' = [call EXCEPT ![t] = k]
  /\ \/ take_connection_locked(t)
     \/ idle_connections = 0 /\ ~can_create_connection_locked /\ Wait(t)
  /\ UNCHANGED <<m_shutdown, poolAlive>>

\* The wait holds m_mtx again; PoolTimeout leaves the pool as it was.
acquire_resume(t) ==
  /\ at[t] \in {"woken", "expired"}
  /\ \/ Available /\ ~m_shutdown /\ take_connection_locked(t)
     \/ ~Available /\ at[t] = "woken" /\ Wait(t)
     \/ /\ ~Available /\ at[t] = "expired"
        /\ at' = [at EXCEPT ![t] = "idle"]
        /\ UNCHANGED <<connections, active_connections, idle_connections, owner, open>>
  /\ UNCHANGED <<m_shutdown, poolAlive, call>>

wake_spurious(t) ==
  /\ at[t] = "asleep"
  /\ at' = [at EXCEPT ![t] = "woken"]
  /\ UNCHANGED <<connections, active_connections, idle_connections, m_shutdown,
                 poolAlive, owner, open, call>>

HasDeadline(t) == call[t] = "try_acquire_for"

wake_expired(t) ==
  /\ at[t] = "asleep" /\ HasDeadline(t)
  /\ at' = [at EXCEPT ![t] = "expired"]
  /\ UNCHANGED <<connections, active_connections, idle_connections, m_shutdown,
                 poolAlive, owner, open, call>>
-----------------------------------------------------------------------------
\* The last shared_ptr to PoolState goes: ~PoolState calls shutdown and the idle
\* connections are destroyed with the vector.
LastReference(leased, alive) == ~alive /\ leased = {}

\* A connection that is no longer open is not kept.
Reusable(c) == c \in open

\* The slot of a broken connection leaks, or is given back twice.
ActiveAfter_Leaks(c) == IF c \in open THEN active_connections - 1 ELSE active_connections

ActiveAfter(c) == active_connections - 1

\* A lease is destroyed or assigned over: PoolState::return_connection.
return_connection(t, c) ==
  /\ at[t] = "idle" /\ owner[c] = t
  /\ owner' = [owner EXCEPT ![c] = Nobody]
  /\ active_connections' = ActiveAfter(c)
  /\ IF Reusable(c)
     THEN /\ connections' = Append(connections, c)
          /\ idle_connections' = idle_connections + 1
     ELSE UNCHANGED <<connections, idle_connections>>
  /\ notify_one(at)
  /\ m_shutdown' = LastReference(Leased \ {c}, poolAlive)
  /\ UNCHANGED <<poolAlive, open, call>>

\* A lease is moved to another thread: the moved-from handle holds nothing and
\* its destructor returns nothing.
move_lease(t, c, u) ==
  /\ at[t] = "idle" /\ at[u] = "idle" /\ owner[c] = t /\ u # t
  /\ Cardinality(Held(u)) < MaxLeases
  /\ owner' = [owner EXCEPT ![c] = u]
  /\ UNCHANGED <<connections, active_connections, idle_connections, m_shutdown,
                 poolAlive, open, at, call>>

\* The connection fails in its holder's hands: mark_broken closes it.
mark_broken(t, c) ==
  /\ at[t] = "idle" /\ owner[c] = t /\ c \in open
  /\ open' = open \ {c}
  /\ UNCHANGED <<connections, active_connections, idle_connections, m_shutdown,
                 poolAlive, owner, at, call>>

\* ~ConnectionPool, which its owner calls when no thread is inside acquire.
destroy_pool ==
  /\ poolAlive /\ \A t \in Threads : at[t] = "idle"
  /\ poolAlive' = FALSE
  /\ m_shutdown' = LastReference(Leased, FALSE)
  /\ UNCHANGED <<connections, active_connections, idle_connections, owner, open, at, call>>
-----------------------------------------------------------------------------
Next ==
  \/ \E t \in Threads :
       \/ \E k \in {"acquire", "try_acquire_for"} : acquire(t, k)
       \/ acquire_resume(t) \/ wake_spurious(t) \/ wake_expired(t)
       \/ \E c \in Conns :
            \/ return_connection(t, c) \/ mark_broken(t, c)
            \/ \E u \in Threads : move_lease(t, c, u)
  \/ destroy_pool

\* Everything was returned and destroyed.
Ended == m_shutdown /\ UNCHANGED vars

Spec == Init /\ [][Next \/ Ended]_vars

\* Threads inside a call run, deadlines pass, leases are eventually returned.
FairSpec ==
  /\ Spec
  /\ \A t \in Threads :
       /\ WF_vars(acquire_resume(t))
       /\ SF_vars(wake_expired(t))
       /\ SF_vars(\E c \in Conns : return_connection(t, c))
-----------------------------------------------------------------------------
\* The types of the variables.
TypeOK ==
  /\ connections \in Seq(Conns)
  /\ active_connections \in Nat /\ idle_connections \in Nat
  /\ m_shutdown \in BOOLEAN /\ poolAlive \in BOOLEAN
  /\ owner \in [Conns -> Threads \cup {Nobody}]
  /\ open \subseteq Conns
  /\ at \in [Threads -> {"idle", "asleep", "woken", "expired"}]
  /\ call \in [Threads -> {"acquire", "try_acquire_for"}]

\* The two counters say exactly what is idle and what is checked out, so that no
\* checkout leaks and neither counter wraps below zero.
CountersExact ==
  /\ idle_connections = Len(connections)
  /\ active_connections = Cardinality(Leased)

\* Never more connections than configured, whatever is broken, moved or failing.
WithinLimit == idle_connections + active_connections <= MaxConnections

\* A connection has one place: one slot of the idle list or one lease.
OnePlace ==
  /\ \A i, j \in DOMAIN connections : connections[i] = connections[j] => i = j
  /\ \A i \in DOMAIN connections : owner[connections[i]] = Nobody

\* A connection that broke in a lease is never handed out again.
IdleAreOpen == \A i \in DOMAIN connections : connections[i] \in open

\* m_shutdown is never seen: it becomes true with the last reference.
ShutdownUnobserved == m_shutdown => Leased = {} /\ Sleepers = {} /\ Waking = {}

\* The pool keeps its books, whatever is broken, moved, failing or destroyed.
PoolSafe ==
  TypeOK /\ CountersExact /\ WithinLimit /\ OnePlace /\ IdleAreOpen /\ ShutdownUnobserved

\* While a thread sleeps, every free slot has a thread on its way to it.  Holds
\* as long as creating a connection does not fail.
NoLostWakeup ==
  Sleepers # {} => MaxConnections - active_connections <= Cardinality(Waking)

\* The integration test's claim that a blocked acquire finishes after a connection
\* is released: no thread stays blocked while a slot stays free.
BlockedAcquireFinishes ==
  \A t \in Threads :
    []<>(at[t] # "asleep" \/ active_connections = MaxConnections)

=============================================================================
