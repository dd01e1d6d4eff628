------------------------------ MODULE ThreadPool ------------------------------
(***************************************************************************)
(* stp/RtlThreadPool.hpp composed with its task queue (MpmcQueue).         *)
(*                                                                         *)
(* Threads are the clients of the pool, its workers and its periodic       *)
(* workers.  A thread that runs user code (a client, or a worker inside a  *)
(* task) may call the pool; at[thr] is its place in the pool's code and    *)
(* the queue's own pc[thr] its place in a queue call.  m_mtx and m_joinMtx *)
(* are held over several steps by shutdown_graceful and join, so their     *)
(* owners are part of the state.                                           *)
(***************************************************************************)
EXTENDS Naturals, FiniteSets, Sequences, Functions

CONSTANTS Clients,          \* threads that use the pool from outside
          Workers,          \* m_opt.workers_count threads, in creation order
          Periodics,        \* at most m_opt.max_periodic_tasks threads
          Tasks,            \* one-shot tasks, each submitted at most once
          MaxQueueSize,     \* m_opt.max_queue_size
          Policies,         \* the rejection policies considered
          Submitters,       \* tasks and periodic threads that submit tasks themselves
          Joiners           \* tasks and periodic threads that call shutdown or join

Creator == CHOOSE c \in Clients : TRUE
Threads == Clients \cup Workers \cup Periodics

AllPolicies == {"throw_exception", "block", "block_for", "caller_runs"}

ASSUME PoolAssumption ==
  /\ IsFiniteSet(Clients) /\ IsFiniteSet(Workers) /\ IsFiniteSet(Periodics)
  /\ Clients # {} /\ Workers # {}
  /\ Clients \cap Workers = {} /\ Clients \cap Periodics = {}
  /\ Workers \cap Periodics = {}
  /\ Tasks \subseteq Nat \ {0}
  /\ MaxQueueSize \in Nat
  /\ Policies \subseteq AllPolicies
  /\ Submitters \subseteq Tasks \cup Periodics
  /\ Joiners \subseteq Tasks \cup Periodics

VARIABLES
  m_buffer, m_state, m_maxQueueSize, op, pc, item, erc, accepted, left,
  policy,             \* m_opt.rejection_policy
  m_poolState,
  m_mtx, m_joinMtx,   \* the owner of the mutex, as a set of at most one thread
  m_activeWorkers,    \* the threads created so far, in order
  m_periodicWorkers,
  at,                 \* at[thr]: the thread's place in the pool's code
  arg,                \* arg[thr]: the task given to the put it is in
  frames,             \* frames[thr]: the tasks it is running, innermost last
  joining,            \* threads whose shutdown_graceful was called by join
  next,               \* next[thr]: the loop index of blocking_thread_stopping
  terminated,         \* std::terminate was called
  told,               \* history: what put told the submitter of a task
  runs,               \* history: how often a task was started
  late,               \* history: periodic runs begun after a shutdown returned
  shutReturned        \* history: a call of shutdown_graceful has returned

queueVars == <<m_buffer, m_state, m_maxQueueSize, op, pc, item, erc, accepted, left>>
locks     == <<m_mtx, m_joinMtx, joining, next>>
threads   == <<m_activeWorkers, m_periodicWorkers>>
history   == <<told, runs, late, shutReturned>>
vars == <<queueVars, policy, m_poolState, locks, threads, at, arg, frames,
          terminated, history>>

Queue == INSTANCE MpmcQueue WITH
           Items <- Tasks, Container <- "deque", InitialMax <- MaxQueueSize,
           MaxSizes <- {}, Ops <- {"put", "put_wait", "put_wait_for", "tryTake", "close"}

Init ==
  /\ Queue!Init
  /\ policy \in Policies
  /\ m_poolState = "running"
  /\ m_mtx = {} /\ m_joinMtx = {}
  /\ m_activeWorkers = <<>> /\ m_periodicWorkers = <<>>
  /\ at = [t \in Threads |-> IF t = Creator THEN "ctor"
                             ELSE IF t \in Clients THEN "outside" ELSE "unborn"]
  /\ arg = [t \in Threads |-> 0]
  /\ frames = [t \in Threads |-> <<>>]
  /\ joining = {}
  /\ next = [t \in Threads |-> 0]
  /\ terminated = FALSE
  /\ told = [k \in Tasks |-> "nothing"]
  /\ runs = [k \in Tasks |-> 0]
  /\ late = [p \in Periodics |-> 0]
  /\ shutReturned = FALSE
-----------------------------------------------------------------------------
\* Where a thread continues when a call into the pool returns, given the tasks
\* it is still running.
UserCode(t, stack) ==
  IF stack # <<>> THEN "body"
  ELSE IF t \in Clients THEN "idle"
  ELSE IF t \in Workers THEN "loop" ELSE "p_body"

Here(t) == UserCode(t, frames[t])

\* The task t is running now, and the ones it goes on with when that returns.
Innermost(t) == frames[t][Len(frames[t])]
Outer(t)     == SubSeq(frames[t], 1, Len(frames[t]) - 1)

\* The calls the user code of t makes: a client any, a task or periodic function
\* those its membership in callers allows.
MayCall(t, callers) ==
  \/ at[t] = "idle"
  \/ at[t] = "body" /\ Innermost(t) \in callers
  \/ at[t] = "p_body" /\ t \in callers

Goto(t, p) == at' = [at EXCEPT ![t] = p]

\* What a mutex is after t locked it, and after t unlocked it.
Locked(t) == {t}

Unlocked_Forgotten(mutex, t) == mutex

Unlocked(mutex, t) == mutex \ {t}

\* Steps inside the queue of a thread that has called it.
poolVars == <<policy, m_poolState, locks, threads, at, arg, frames, terminated, history>>

QueueContinue(t) == Queue!Continue(t) /\ UNCHANGED poolVars
QueueExpire(t)   == Queue!expire(t) /\ UNCHANGED poolVars
QueueSpurious(t) == Queue!spurious(t) /\ UNCHANGED poolVars
-----------------------------------------------------------------------------
\* The constructor: setup_threads creates the workers one by one; when creating
\* one throws, the ones created so far are joined and the exception leaves.

Unborn(S) == {t \in S : at[t] = "unborn"}
Newest(S) == CHOOSE t \in Unborn(S) : TRUE

setup_threads(t) ==
  /\ at[t] = "ctor"
  /\ \/ /\ Unborn(Workers) # {}
        /\ m_activeWorkers' = Append(m_activeWorkers, Newest(Workers))
        /\ Goto(Newest(Workers), "loop")
        /\ UNCHANGED joining
     \/ /\ Unborn(Workers) # {}
        /\ Goto(t, "shutdown")
        /\ joining' = joining \cup {t}
        /\ UNCHANGED m_activeWorkers
     \/ /\ Unborn(Workers) = {}
        /\ at' = [c \in Threads |-> IF c \in Clients THEN "idle" ELSE at[c]]
        /\ UNCHANGED <<m_activeWorkers, joining>>
  /\ UNCHANGED <<queueVars, policy, m_poolState, m_mtx, m_joinMtx, next,
                 m_periodicWorkers, arg, frames, terminated, history>>
-----------------------------------------------------------------------------
\* put

\* The load of m_poolState, before the queue is touched.
put_check(t, k) ==
  /\ MayCall(t, Submitters)
  /\ told[k] = "nothing" /\ \A u \in Threads : at[u] \in {"enqueue", "queued"} => arg[u] # k
  /\ \/ /\ m_poolState # "running"
        /\ told' = [told EXCEPT ![k] = "ThreadPoolStopped"]
        /\ UNCHANGED <<at, arg>>
     \/ /\ m_poolState = "running"
        /\ Goto(t, "enqueue")
        /\ arg' = [arg EXCEPT ![t] = k]
        /\ UNCHANGED told
  /\ UNCHANGED <<queueVars, policy, m_poolState, locks, threads, frames, terminated,
                 runs, late, shutReturned>>

put_enqueue(t) ==
  /\ at[t] = "enqueue"
  /\ Goto(t, "queued")
  /\ \/ policy \in {"throw_exception", "caller_runs"} /\ Queue!put(t, arg[t])
     \/ policy = "block" /\ Queue!put_wait(t, "put_wait", arg[t])
     \/ policy = "block_for" /\ Queue!put_wait(t, "put_wait_for", arg[t])
  /\ UNCHANGED <<policy, m_poolState, locks, threads, arg, frames, terminated, history>>

\* What put makes of the queue's answer.
Outcome(e) ==
  CASE e = "accepted" -> "accepted"
    [] e = "closed"   -> "ThreadPoolStopped"
    [] e = "full"     -> IF policy = "caller_runs" THEN "inline" ELSE "QueueFull"
    [] e = "timeout"  -> "TaskRejected"

put_return(t) ==
  /\ at[t] = "queued" /\ pc[t] = "idle"
  /\ LET result == Outcome(erc[t]) IN
     /\ told' = [told EXCEPT ![arg[t]] = result]
     /\ IF result = "inline"
        THEN /\ frames' = [frames EXCEPT ![t] = Append(@, arg[t])]
             /\ runs' = [runs EXCEPT ![arg[t]] = @ + 1]
             /\ Goto(t, "body")
        ELSE Goto(t, Here(t)) /\ UNCHANGED <<frames, runs>>
  /\ arg' = [arg EXCEPT ![t] = 0]
  /\ UNCHANGED <<queueVars, policy, m_poolState, locks, threads, terminated,
                 late, shutReturned>>

\* A task's function returns or throws: its packaged_task keeps either.
finish_task(t) ==
  /\ at[t] = "body"
  /\ frames' = [frames EXCEPT ![t] = Outer(t)]
  /\ Goto(t, UserCode(t, Outer(t)))
  /\ UNCHANGED <<queueVars, policy, m_poolState, locks, threads, arg, terminated, history>>
-----------------------------------------------------------------------------
\* add_thread's worker loop

worker_take(w) ==
  /\ at[w] = "loop"
  /\ Queue!tryTake(w, "tryTake")
  /\ Goto(w, "taking")
  /\ UNCHANGED <<policy, m_poolState, locks, threads, arg, frames, terminated, history>>

worker_run(w) ==
  /\ at[w] = "taking" /\ pc[w] = "idle"
  /\ \/ erc[w] = "closed" /\ Goto(w, "exited") /\ UNCHANGED <<frames, runs>>
     \/ erc[w] = "timeout" /\ Goto(w, "loop") /\ UNCHANGED <<frames, runs>>
     \/ /\ erc[w] = "item"
        /\ frames' = [frames EXCEPT ![w] = <<item[w]>>]
        /\ runs' = [runs EXCEPT ![item[w]] = @ + 1]
        /\ Goto(w, "body")
  /\ UNCHANGED <<queueVars, policy, m_poolState, locks, threads, arg, terminated,
                 told, late, shutReturned>>
-----------------------------------------------------------------------------
\* shutdown_graceful and join

shutdown_call(t, byJoin) ==
  /\ MayCall(t, Joiners)
  /\ Goto(t, "shutdown")
  /\ joining' = IF byJoin THEN joining \cup {t} ELSE joining
  /\ UNCHANGED <<queueVars, policy, m_poolState, m_mtx, m_joinMtx, next, threads,
                 arg, frames, terminated, history>>

AfterShutdown(t) == IF t \in joining THEN "join_lock" ELSE Here(t)

PeriodicSleepers == {p \in Periodics : at[p] = "p_asleep"}

shutdown_graceful(t) ==
  /\ at[t] = "shutdown" /\ m_mtx = {}
  /\ \/ /\ m_poolState # "running"
        /\ Goto(t, AfterShutdown(t))
        /\ shutReturned' = TRUE
        /\ UNCHANGED <<m_poolState, m_mtx>>
     \/ /\ m_poolState = "running"
        /\ m_poolState' = "stopping"
        /\ m_mtx' = Locked(t)
        /\ at' = [u \in Threads |-> IF u \in PeriodicSleepers THEN "p_woken"
                                    ELSE IF u = t THEN "close" ELSE at[u]]
        /\ UNCHANGED shutReturned
  /\ UNCHANGED <<queueVars, policy, m_joinMtx, joining, next, threads, arg, frames,
                 terminated, told, runs, late>>

shutdown_close(t) ==
  /\ at[t] = "close"
  /\ Queue!close(t)
  /\ Goto(t, "closing")
  /\ UNCHANGED <<policy, m_poolState, locks, threads, arg, frames, terminated, history>>

shutdown_return(t) ==
  /\ at[t] = "closing" /\ pc[t] = "idle"
  /\ m_mtx' = Unlocked(m_mtx, t)
  /\ Goto(t, AfterShutdown(t))
  /\ shutReturned' = TRUE
  /\ UNCHANGED <<queueVars, policy, m_poolState, m_joinMtx, joining, next, threads, arg,
                 frames, terminated, told, runs, late>>

\* Where join returns to: the constructor rethrows, any other caller goes on.
AfterJoin(t) == IF Len(m_activeWorkers) < Cardinality(Workers) THEN "threw" ELSE Here(t)

JoinDone_Stopping == m_poolState # "running"

JoinDone == m_poolState = "stopped"

join_lock(t) ==
  /\ at[t] = "join_lock" /\ m_joinMtx = {}
  /\ \/ /\ JoinDone
        /\ Goto(t, AfterJoin(t))
        /\ joining' = joining \ {t}
        /\ UNCHANGED <<m_joinMtx, next>>
     \/ /\ ~JoinDone
        /\ Goto(t, "join_loop")
        /\ m_joinMtx' = Locked(t)
        /\ next' = [next EXCEPT ![t] = 1]
        /\ UNCHANGED joining
  /\ UNCHANGED <<queueVars, policy, m_poolState, m_mtx, threads, arg, frames, terminated,
                 history>>

\* blocking_thread_stopping visits the periodic workers, then the workers.
JoinOrder == m_periodicWorkers \o m_activeWorkers

Joined(target, t) == target # t /\ at[target] = "exited"

blocking_thread_stopping(t) ==
  /\ at[t] = "join_loop" /\ next[t] <= Len(JoinOrder)
  /\ LET target == JoinOrder[next[t]] IN
     \/ target = t /\ terminated' = TRUE /\ UNCHANGED next
     \/ /\ Joined(target, t)
        /\ next' = [next EXCEPT ![t] = @ + 1]
        /\ UNCHANGED terminated
  /\ UNCHANGED <<queueVars, policy, m_poolState, m_mtx, m_joinMtx, joining, threads, at,
                 arg, frames, history>>

join_return(t) ==
  /\ at[t] = "join_loop" /\ next[t] > Len(JoinOrder)
  /\ m_poolState' = "stopped"
  /\ m_joinMtx' = Unlocked(m_joinMtx, t)
  /\ joining' = joining \ {t}
  /\ Goto(t, AfterJoin(t))
  /\ UNCHANGED <<queueVars, policy, m_mtx, next, threads, arg, frames, terminated, history>>
-----------------------------------------------------------------------------
\* Periodic tasks.  A rejected put_periodic (pool not running, limit reached,
\* empty task, zero interval, thread creation failing) changes nothing.

MayAddPeriodic == m_mtx = {} /\ m_poolState = "running"

put_periodic(t) ==
  /\ MayCall(t, Submitters) /\ MayAddPeriodic /\ Unborn(Periodics) # {}
  /\ m_periodicWorkers' = Append(m_periodicWorkers, Newest(Periodics))
  /\ Goto(Newest(Periodics), "p_check")
  /\ UNCHANGED <<queueVars, policy, m_poolState, locks, m_activeWorkers, arg, frames,
                 terminated, history>>

\* A step that moves thread t and changes nothing else.
Move(t, p) ==
  /\ Goto(t, p)
  /\ UNCHANGED <<queueVars, policy, m_poolState, locks, threads, arg, frames, terminated,
                 history>>

PeriodicSeesStop_Late == m_poolState = "stopped"

\* The tests of m_poolState at the head of the loop and after the wait.
PeriodicSeesStop == m_poolState # "running"

periodic_check(p) ==
  at[p] = "p_check" /\ Move(p, IF PeriodicSeesStop THEN "exited" ELSE "p_lock")

\* m_cv.wait_for, on entry and whenever it holds m_mtx again.
periodic_wait(p) ==
  /\ at[p] \in {"p_lock", "p_woken", "p_expired"} /\ m_mtx = {}
  /\ Move(p, IF m_poolState = "stopping" \/ at[p] = "p_expired"
             THEN "p_recheck" ELSE "p_asleep")

\* The interval passes; the wait ends spuriously.
periodic_expire(p)   == at[p] = "p_asleep" /\ Move(p, "p_expired")
periodic_spurious(p) == at[p] = "p_asleep" /\ Move(p, "p_woken")

\* The second test, after the mutex is released.
periodic_recheck(p) ==
  at[p] = "p_recheck" /\ Move(p, IF PeriodicSeesStop THEN "exited" ELSE "p_run")

periodic_run(p) ==
  /\ at[p] = "p_run"
  /\ Goto(p, "p_body")
  /\ late' = [late EXCEPT ![p] = IF shutReturned THEN @ + 1 ELSE @]
  /\ UNCHANGED <<queueVars, policy, m_poolState, locks, threads, arg, frames, terminated,
                 told, runs, shutReturned>>

\* The periodic function returns, or throws and is caught.
periodic_done(p) == at[p] = "p_body" /\ Move(p, "p_check")
-----------------------------------------------------------------------------
\* What a thread does by itself, and the calls its user code may make.
Run(t) ==
  \/ setup_threads(t)
  \/ put_enqueue(t) \/ put_return(t)
  \/ finish_task(t)
  \/ t \in Workers /\ (worker_take(t) \/ worker_run(t))
  \/ shutdown_graceful(t) \/ shutdown_close(t) \/ shutdown_return(t)
  \/ join_lock(t) \/ blocking_thread_stopping(t) \/ join_return(t)
  \/ t \in Periodics /\ \/ periodic_check(t) \/ periodic_wait(t) \/ periodic_recheck(t)
                        \/ periodic_run(t) \/ periodic_done(t)

CallPool(t) ==
  \/ \E k \in Tasks : put_check(t, k)
  \/ put_periodic(t)
  \/ \E byJoin \in BOOLEAN : shutdown_call(t, byJoin)

Next ==
  /\ ~terminated
  /\ \E t \in Threads :
       \/ Run(t) \/ CallPool(t)
       \/ QueueContinue(t) \/ QueueExpire(t) \/ QueueSpurious(t)
       \/ t \in Periodics /\ (periodic_expire(t) \/ periodic_spurious(t))

\* The process has ended, or the object is destroyed or was never constructed.
Ended ==
  /\ terminated \/ m_poolState = "stopped"
  /\ UNCHANGED vars

Spec == Init /\ [][Next \/ Ended]_vars

\* Threads that can run do, deadlines pass, and the functions given to the pool
\* return.  Clients need not call anything.
FairSpec ==
  /\ Spec
  /\ \A t \in Threads :
       /\ WF_vars(~terminated /\ Run(t))
       /\ SF_vars(~terminated /\ finish_task(t))
       /\ WF_vars(~terminated /\ QueueContinue(t))
       /\ SF_vars(~terminated /\ QueueExpire(t))
       /\ t \in Periodics => SF_vars(~terminated /\ periodic_done(t))
-----------------------------------------------------------------------------
Alive(S) == {t \in S : at[t] \notin {"unborn", "exited"}}

Rejections == {"ThreadPoolStopped", "QueueFull", "TaskRejected"}

\* The types of the pool's own variables.
TypeOK ==
  /\ m_poolState \in {"running", "stopping", "stopped"}
  /\ m_mtx \subseteq Threads /\ m_joinMtx \subseteq Threads
  /\ arg \in [Threads -> Tasks \cup {0}]
  /\ frames \in [Threads -> Seq(Tasks)]
  /\ told \in [Tasks -> Rejections \cup {"nothing", "accepted", "inline"}]
  /\ runs \in [Tasks -> Nat] /\ late \in [Periodics -> Nat]
  /\ Range(m_activeWorkers) \subseteq Workers
  /\ Range(m_periodicWorkers) \subseteq Periodics

\* Some thread is running k.
InFrames(k) == \E t \in Threads : k \in Range(frames[t])

\* The pool is a task service: whatever the threads' interleaving, each task is
\* admitted, run by the caller or refused, is started at most once, is admitted
\* only before the queue closes, and has ended when the pool says it is stopped.
\* A put that throws promises that its task never runs. A task that was started
\* after a refusal is "contradicted", one that was started twice "repeated": the
\* service has no such status, so no step of it leads there.
Status(k) ==
  IF told[k] \in Rejections
  THEN IF runs[k] = 0 /\ k \notin Range(accepted) THEN "refused" ELSE "contradicted"
  ELSE IF runs[k] = 0 THEN IF k \in Range(accepted) THEN "queued" ELSE "new"
  ELSE IF runs[k] > 1 THEN "repeated"
  ELSE IF InFrames(k) THEN IF told[k] = "inline" THEN "inline" ELSE "running"
  ELSE "done"

Service == INSTANCE TaskService WITH
             Jobs <- Tasks,
             status <- [k \in Tasks |-> Status(k)],
             phase <- IF m_poolState = "stopped" THEN "drained"
                      ELSE IF m_state = "closing" THEN "closed" ELSE "open"

ImplementsService == Service!Spec

\* Every admitted task is also started and ends, under every scheduling that lets
\* threads run and in which the tasks' functions return.
ImplementsFairService == Service!FairSpec

\* join() (and so the destructor) drains: once the pool is stopped every accepted
\* task has run and no thread of the pool is left, whoever raced with whom.
StoppedMeansDrained ==
  m_poolState = "stopped" =>
    /\ m_buffer = <<>>
    /\ \A k \in Range(accepted) : runs[k] = 1
    /\ Alive(Workers \cup Periodics) = {}

\* When any call of shutdown_graceful has returned, also one that found the
\* shutdown begun by another thread, the queue accepts nothing more.
ShutdownReturnsClosed == shutReturned => m_state = "closing"

\* A periodic function is started at most once more after shutdown_graceful
\* has returned.
PeriodicStopsSoon == \A p \in Periodics : late[p] <= 1

\* A join called from outside the pool returns.
JoinReturns ==
  \A c \in Clients : (c \in joining) ~> (c \notin joining)

\* Stopping is what it says, whoever raced with whom: a returned shutdown has closed
\* the queue, a periodic function starts at most once more after it, and a stopped
\* pool is drained and has no threads left.
StopSafe == TypeOK /\ ShutdownReturnsClosed /\ PeriodicStopsSoon /\ StoppedMeansDrained

Joins(t) == at[t] \in {"join_lock", "join_loop"}

\* A call of join returns only when the pool is stopped, for every one of several
\* concurrent or repeated callers; it never returns to a thread of the pool itself;
\* and the list of periodic threads, which it walks without m_mtx, never changes
\* under it.
JoinSound ==
  [][/\ \A t \in Threads : Joins(t) /\ ~Joins(t)' => m_poolState' = "stopped"
     /\ \A w \in Workers \cup Periodics : w \in joining => w \in joining'
     /\ m_periodicWorkers' # m_periodicWorkers => \A t \in Threads : ~Joins(t)]_vars
=============================================================================
