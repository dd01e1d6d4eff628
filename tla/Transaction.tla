------------------------------ MODULE Transaction ------------------------------
(***************************************************************************)
(* db/tx (Transaction, Savepoint, TransactionHelper) and the transactions  *)
(* of db/core, composed with the connection pool they take connections     *)
(* from (ConnectionPool).                                                  *)
(*                                                                         *)
(* A thread runs with_retry, or Connection::exec on a lease of its own     *)
(* (mode "direct").  call[t] of the pool says which acquire it is in;      *)
(* tx[t] holds the rest of its activation record.  The database is         *)
(* external: server[c] is the state of the session's transaction and its   *)
(* savepoints, by their numbers: a later one is an inner one.  It may      *)
(* refuse a statement, roll back, or drop the connection at any statement, *)
(* COMMIT included.                                                        *)
(***************************************************************************)
EXTENDS Naturals, FiniteSets, Sequences, Functions

CONSTANTS Threads, Conns, MaxConnections, CreateMayFail, Nobody,
          MaxRetries,       \* m_maxRetries
          MaxStatements,    \* statements one attempt executes
          MaxSavepoints     \* savepoints one attempt makes

ASSUME TransactionAssumption ==
  /\ Nobody \notin Threads
  /\ MaxRetries \in Nat \ {0}
  /\ MaxStatements \in Nat /\ MaxSavepoints \in Nat

VARIABLES
  connections, active_connections, idle_connections, m_shutdown, poolAlive,
  owner, open, at, call,
  transaction_active,   \* the connections whose ConnectionState has the flag set
  server,               \* server[c]: the transaction of the session, its savepoints
  tx,                   \* tx[t]: the Transaction and with_retry's locals
  durable,              \* history: attempts of t's call the database has committed
  inDoubt,              \* history: the outcome of a COMMIT is unknown to t
  silent,               \* history: errors user code or a destructor swallowed
  disordered,           \* history: an outer savepoint was ended before an inner one
  selfEnded             \* history: fn committed or rolled back an attempt by itself

poolVars == <<connections, active_connections, idle_connections, m_shutdown, poolAlive,
              owner, open, at, call>>
history  == <<durable, inDoubt, silent, disordered, selfEnded>>
vars     == <<poolVars, transaction_active, server, tx, history>>

Pool == INSTANCE ConnectionPool WITH MaxLeases <- 1

Modes  == {"with_retry", "direct"}
Errors == {"deadlock", "serialization", "query", "aborted", "connection"}
NoTx   == [st |-> "none", sps |-> {}]
Fresh  == [at |-> "outside", mode |-> "with_retry", i |-> 0, err |-> "none",
           stmts |-> 0, next |-> 0, sps |-> <<>>]

Init ==
  /\ Pool!Init
  /\ transaction_active = {}
  /\ server = [c \in Conns |-> NoTx]
  /\ tx = [t \in Threads |-> Fresh]
  /\ durable = [t \in Threads |-> 0]
  /\ inDoubt = [t \in Threads |-> FALSE]
  /\ silent = [t \in Threads |-> {}]
  /\ disordered = [t \in Threads |-> FALSE]
  /\ selfEnded = [t \in Threads |-> FALSE]
-----------------------------------------------------------------------------
Lease(t) == CHOOSE c \in Conns : owner[c] = t
At(t, p) == tx[t].at = p
Goto(t, p) == tx' = [tx EXCEPT ![t].at = p]

\* The exception leaves the function t is in; p is the first thing that happens.
Throws(t, p, e) == tx' = [tx EXCEPT ![t].at = p, ![t].err = e]

\* translate_pqxx_exceptions: what the callers of the library see.
translate(e) ==
  CASE e = "deadlock_detected" -> "deadlock"
    [] e = "serialization_failure" -> "serialization"
    [] e = "sql_error" -> "query"
    [] e = "in_doubt_error" -> "aborted"
    [] e = "broken_connection" -> "connection"
    [] OTHER -> "none"

\* External: the answers of the database to a statement, as the exception raised
\* ("ok" for none) and the transaction afterwards.
Failed(s) == [s EXCEPT !.st = "failed"]

UpTo(s, n) == {m \in s.sps : m <= n}

Replies(s, kind, n) ==
  CASE kind = "rollback_to" ->
         IF n \in s.sps THEN {<<"ok", [st |-> "ok", sps |-> UpTo(s, n)]>>}
         ELSE {<<"sql_error", Failed(s)>>}
    [] kind # "rollback_to" /\ s.st = "failed" -> {<<"sql_error", s>>}
    [] kind = "savepoint" /\ s.st # "failed" -> {<<"ok", [s EXCEPT !.sps = @ \cup {n}]>>}
    [] kind = "release" /\ s.st # "failed" ->
         IF n \in s.sps THEN {<<"ok", [s EXCEPT !.sps = UpTo(s, n - 1)]>>}
         ELSE {<<"sql_error", Failed(s)>>}
    [] kind = "statement" /\ s.st # "failed" ->
         {<<"ok", s>>} \cup {<<e, Failed(s)>> : e \in {"sql_error", "serialization_failure",
                                                      "deadlock_detected"}}

\* The connection is lost: the session and its transaction are gone, and the
\* driver reports the connection closed from now on.
Lost(t) ==
  /\ server' = [server EXCEPT ![Lease(t)] = NoTx]
  /\ IF Lease(t) \in open THEN Pool!mark_broken(t, Lease(t)) ELSE UNCHANGED poolVars

\* exec, exec_params and exec_prepared of ConnectionTransaction, and those of
\* Transaction, which mark the lease broken on a ConnectionError.  On a lease
\* that was marked broken before, the statement goes to a destroyed connection;
\* it fails.
exec(t, kind, n, e) ==
  \/ /\ Lease(t) \in open
     /\ \E r \in Replies(server[Lease(t)], kind, n) :
          /\ e = translate(r[1])
          /\ server' = [server EXCEPT ![Lease(t)] = r[2]]
     /\ UNCHANGED poolVars
  \/ e = "connection" /\ Lost(t)
-----------------------------------------------------------------------------
\* A thread calls with_retry, or takes a lease for one Connection::exec.
start(t, mode) ==
  /\ At(t, "outside") /\ poolAlive
  /\ tx' = [tx EXCEPT ![t] = [Fresh EXCEPT !.at = "acquire", !.mode = mode]]
  /\ durable' = [durable EXCEPT ![t] = 0]
  /\ inDoubt' = [inDoubt EXCEPT ![t] = FALSE]
  /\ silent' = [silent EXCEPT ![t] = {}]
  /\ disordered' = [disordered EXCEPT ![t] = FALSE]
  /\ selfEnded' = [selfEnded EXCEPT ![t] = FALSE]
  /\ UNCHANGED <<poolVars, transaction_active, server>>

\* Impl::Impl acquires a connection.  A failure to make one leaves the
\* constructor of Transaction, and so with_retry, without a retry.
Acquired(t) ==
  IF \E c \in Conns : owner'[c] = t THEN Goto(t, "begin")
  ELSE IF at'[t] = "asleep" THEN Goto(t, "waiting") ELSE Throws(t, "outside", "constructor")

acquire(t) ==
  /\ At(t, "acquire")
  /\ Pool!acquire(t, "acquire") /\ Acquired(t)
  /\ UNCHANGED <<transaction_active, server, history>>

acquire_resume(t) ==
  /\ At(t, "waiting")
  /\ Pool!acquire_resume(t) /\ Acquired(t)
  /\ UNCHANGED <<transaction_active, server, history>>

wake_spurious(t) == Pool!wake_spurious(t) /\ UNCHANGED <<transaction_active, server, tx, history>>

\* Connection::begin_transaction and ConnectionTransaction::begin.  When it
\* throws, the lease, already constructed, goes back to the pool.
begin(t) ==
  /\ At(t, "begin")
  /\ LET c == Lease(t)
     IN \/ /\ c \in open /\ c \notin transaction_active
           /\ server' = [server EXCEPT ![c].st = "ok"]
           /\ transaction_active' = transaction_active \cup {c}
           /\ Goto(t, IF tx[t].mode = "direct" THEN "body" ELSE "isolation")
           /\ UNCHANGED poolVars
        \/ /\ c \notin transaction_active
           /\ Lost(t) /\ Throws(t, "release", "constructor")
           /\ UNCHANGED transaction_active
        \/ /\ c \in transaction_active
           /\ Throws(t, "release", "constructor")
           /\ UNCHANGED <<poolVars, server, transaction_active>>
  /\ UNCHANGED history

\* setIsolationLevel; when it throws, m_impl is destroyed with the constructor.
setIsolationLevel(t) ==
  /\ At(t, "isolation")
  /\ \E e \in Errors \cup {"none"} :
       /\ exec(t, "statement", 0, e)
       /\ IF e = "none" THEN Goto(t, "body") ELSE Throws(t, "finish", "constructor")
  /\ UNCHANGED <<transaction_active, history>>
-----------------------------------------------------------------------------
\* An error e in user code: it leaves fn, or fn handles it and goes on.
Raise(t, e, record) ==
  \/ /\ tx' = [tx EXCEPT ![t] = [record EXCEPT !.at = "unwind", !.err = e]]
     /\ UNCHANGED silent
  \/ /\ tx[t].mode = "with_retry"
     /\ tx' = [tx EXCEPT ![t] = record]
     /\ silent' = [silent EXCEPT ![t] = @ \cup {"handled"}]

Attempt(t, kind, n, done) ==
  \E e \in Errors \cup {"none"} :
    /\ exec(t, kind, n, e)
    /\ IF e = "none" THEN tx' = [tx EXCEPT ![t] = done] /\ UNCHANGED silent
       ELSE Raise(t, e, [tx[t] EXCEPT !.stmts = done.stmts, !.next = done.next])
    /\ UNCHANGED <<transaction_active, durable, inDoubt, selfEnded>>

statement(t) ==
  /\ At(t, "body") /\ tx[t].stmts < MaxStatements
  /\ Attempt(t, "statement", 0, [tx[t] EXCEPT !.stmts = @ + 1])
  /\ UNCHANGED disordered

\* Savepoint::Savepoint; make_savepoint_name never uses a name twice.
savepoint(t) ==
  /\ At(t, "body") /\ tx[t].mode = "with_retry" /\ tx[t].next < MaxSavepoints
  /\ LET n == tx[t].next + 1
     IN Attempt(t, "savepoint", n,
                [tx[t] EXCEPT !.next = n, !.sps = Append(@, [id |-> n, active |-> TRUE])])
  /\ UNCHANGED disordered

\* Savepoint::rollback and release, called by user code on any savepoint in scope.
sp_end_StaysActive(t, j, kind) ==
  /\ At(t, "body") /\ j \in DOMAIN tx[t].sps /\ tx[t].sps[j].active
  /\ Attempt(t, kind, tx[t].sps[j].id, tx[t])
  /\ UNCHANGED disordered

sp_end(t, j, kind) ==
  /\ At(t, "body") /\ j \in DOMAIN tx[t].sps /\ tx[t].sps[j].active
  /\ Attempt(t, kind, tx[t].sps[j].id, [tx[t] EXCEPT !.sps[j].active = FALSE])
  /\ disordered' = [disordered EXCEPT ![t] =
       @ \/ \E i \in DOMAIN tx[t].sps : i > j /\ tx[t].sps[i].active]

rollback_to(t, j) == sp_end(t, j, "rollback_to")

release_sp(t, j) == sp_end(t, j, "release")

Innermost(t) == tx[t].sps[Len(tx[t].sps)]

\* ~Savepoint rolls an active savepoint back and swallows every error.
savepoint_dtor(t) ==
  /\ tx[t].at \in {"body", "unwind"} /\ tx[t].sps # <<>>
  /\ tx' = [tx EXCEPT ![t].sps = SubSeq(@, 1, Len(@) - 1)]
  /\ IF Innermost(t).active
     THEN \E e \in Errors \cup {"none"} :
            /\ exec(t, "rollback_to", Innermost(t).id, e)
            /\ silent' = IF e = "none" THEN silent
                         ELSE [silent EXCEPT ![t] = @ \cup {e}]
     ELSE UNCHANGED <<poolVars, server, silent>>
  /\ UNCHANGED <<transaction_active, durable, inDoubt, disordered, selfEnded>>

\* fn throws: an error of its own, or one with_retry takes for a conflict.
throw(t) ==
  /\ At(t, "body") /\ tx[t].mode = "with_retry"
  /\ \E e \in {"query", "serialization", "deadlock"} : Throws(t, "unwind", e)
  /\ UNCHANGED <<poolVars, transaction_active, server, history>>

\* fn's locals are gone; the exception reaches with_retry, or ~ConnectionTransaction.
unwound(t) ==
  /\ At(t, "unwind") /\ tx[t].sps = <<>>
  /\ Goto(t, "finish")
  /\ UNCHANGED <<poolVars, transaction_active, server, history>>
-----------------------------------------------------------------------------
\* ConnectionTransaction::finish: ~work rolls back what is still open and the
\* flag of the connection is cleared.
finish_KeepsWork(c) ==
  /\ transaction_active' = transaction_active \ {c}
  /\ UNCHANGED server

finish(c) ==
  /\ transaction_active' = transaction_active \ {c}
  /\ server' = [server EXCEPT ![c] = NoTx]

\* Transaction::commit, by with_retry, or by fn when it fails and fn does not handle it.
\* The database accepts; refuses and rolls back; answers COMMIT of a failed transaction
\* with a rollback and no error; or the connection drops before COMMIT arrives or before
\* its answer does.
commit(t) ==
  /\ At(t, "body") /\ tx[t].sps = <<>>
  /\ LET c == Lease(t)
         s == server[c]
     IN \/ /\ c \in open
           /\ finish(c)
           /\ durable' = [durable EXCEPT ![t] = IF s.st = "ok" THEN @ + 1 ELSE @]
           /\ Goto(t, "release")
           /\ UNCHANGED <<poolVars, inDoubt>>
        \/ /\ c \in open /\ s.st = "ok"
           /\ \E e \in {"serialization_failure", "deadlock_detected", "sql_error"} :
                Throws(t, "finish", translate(e))
           /\ server' = [server EXCEPT ![c] = NoTx]
           /\ UNCHANGED <<poolVars, transaction_active, durable, inDoubt>>
        \/ /\ c \in open /\ Lost(t)
           /\ Throws(t, "finish", translate("in_doubt_error"))
           /\ inDoubt' = [inDoubt EXCEPT ![t] = TRUE]
           /\ \/ s.st = "ok" /\ durable' = [durable EXCEPT ![t] = @ + 1]
              \/ UNCHANGED durable
           /\ UNCHANGED transaction_active
        \/ /\ c \notin open /\ Lost(t)
           /\ Throws(t, "finish", translate("broken_connection"))
           /\ UNCHANGED <<transaction_active, durable, inDoubt>>
  /\ UNCHANGED <<silent, disordered, selfEnded>>

\* Transaction::rollback in with_retry, or the destructors.  ~work never throws;
\* its ROLLBACK may be what finds the connection lost.
rollback(t) ==
  /\ At(t, "finish")
  /\ finish(Lease(t))
  /\ Goto(t, "release")
  /\ \/ UNCHANGED poolVars
     \/ Lease(t) \in open /\ Pool!mark_broken(t, Lease(t))
  /\ UNCHANGED history

\* fn itself commits or rolls back, with no savepoint in scope, and succeeds; m_impl is
\* reset, which gives the lease back, and fn goes on.
fn_ends(t) ==
  /\ At(t, "body") /\ tx[t].mode = "with_retry" /\ tx[t].sps = <<>>
  /\ LET c == Lease(t)
     IN /\ finish(c)
        /\ \/ /\ c \in open
              /\ durable' = [durable EXCEPT ![t] = IF server[c].st = "ok" THEN @ + 1 ELSE @]
              /\ UNCHANGED poolVars
           \/ UNCHANGED <<durable, poolVars>>
           \/ c \in open /\ Pool!mark_broken(t, c) /\ UNCHANGED durable
  /\ Goto(t, "reset")
  /\ selfEnded' = [selfEnded EXCEPT ![t] = TRUE]
  /\ UNCHANGED <<inDoubt, silent, disordered>>

fn_reset(t) ==
  /\ At(t, "reset")
  /\ Pool!return_connection(t, Lease(t))
  /\ Goto(t, "spent")
  /\ UNCHANGED <<transaction_active, server, history>>

\* The exceptions after which with_retry runs fn again.
Retryable_InDoubt == {"serialization", "deadlock", "aborted"}

Retryable == {"serialization", "deadlock"}

Again(t, e) ==
  /\ tx[t].mode = "with_retry" /\ e \in Retryable
  /\ tx[t].i + 1 < MaxRetries

\* An attempt is over, with exception e or "none": with_retry returns, throws, or starts
\* over.
Over(t, e) ==
  /\ tx' = [tx EXCEPT ![t] =
       IF Again(t, e) THEN [Fresh EXCEPT !.at = "acquire", !.i = tx[t].i + 1]
       ELSE [Fresh EXCEPT !.mode = @, !.err = e]]
  /\ disordered' = [disordered EXCEPT ![t] = @ /\ ~Again(t, e)]
  /\ silent' = IF Again(t, e) THEN [silent EXCEPT ![t] = {}] ELSE silent
  /\ UNCHANGED <<transaction_active, server, durable, inDoubt, selfEnded>>

\* The lease goes back to the pool, with the Transaction.
with_retry(t) ==
  /\ At(t, "release")
  /\ Pool!return_connection(t, Lease(t))
  /\ Over(t, tx[t].err)

\* The transaction fn ended is not active and not rolled back when fn throws; when fn
\* returns, or uses it again, commit or ensure_valid throws logic_error.
with_retry_spent(t) ==
  /\ At(t, "spent")
  /\ \E e \in {"logic", "query", "serialization", "deadlock"} : Over(t, e)
  /\ UNCHANGED poolVars

\* ~ConnectionPool, while no thread is inside with_retry; a lease may outlive it.
destroy_pool ==
  /\ \A t \in Threads : At(t, "outside") \/ (tx[t].mode = "direct" /\ ~At(t, "acquire"))
  /\ Pool!destroy_pool
  /\ UNCHANGED <<transaction_active, server, tx, history>>
-----------------------------------------------------------------------------
Next ==
  \/ \E t \in Threads :
       \/ \E m \in Modes : start(t, m)
       \/ acquire(t) \/ acquire_resume(t) \/ wake_spurious(t)
       \/ begin(t) \/ setIsolationLevel(t)
       \/ statement(t) \/ savepoint(t) \/ savepoint_dtor(t) \/ throw(t) \/ unwound(t)
       \/ \E j \in 1..MaxSavepoints : rollback_to(t, j) \/ release_sp(t, j)
       \/ commit(t) \/ rollback(t) \/ fn_ends(t) \/ fn_reset(t)
       \/ with_retry(t) \/ with_retry_spent(t)
  \/ destroy_pool

Spec == Init /\ [][Next]_vars
-----------------------------------------------------------------------------
\* Whatever path a transaction took, the connection it gives back is clean: open,
\* without the flag that makes begin() refuse, and without a transaction in the
\* session.  A connection in nobody's hands never has a transaction either.
CleanReturn ==
  \A c \in Conns :
    /\ c \in Range(connections) => c \in open
    /\ owner[c] = Nobody => c \notin transaction_active /\ server[c] = NoTx

\* with_retry and Connection::exec take effect exactly once: no call commits two
\* attempts; one that throws has committed none, unless the connection was lost
\* during COMMIT; one about to return has committed its last attempt, unless an
\* error was swallowed before COMMIT.  Exempt is a call whose fn ended an attempt by
\* itself: with_retry then throws although fn may have committed, or runs fn again.
EffectOnce ==
  \A t \in Threads : ~selfEnded[t] =>
    /\ durable[t] <= 1
    /\ durable[t] = 1 => inDoubt[t] \/ (tx[t].err = "none" /\ tx[t].at \in {"release", "outside"})
    /\ At(t, "release") /\ tx[t].err = "none" /\ silent[t] = {} => durable[t] = 1

\* A savepoint that goes out of scope fails silently, and leaves a transaction
\* that COMMIT will discard, only when the connection is lost or user code ended
\* an outer savepoint while this one was active.
SavepointScopeSafe ==
  \A t \in Threads : silent[t] \cap {"query"} # {} => disordered[t]
=============================================================================
