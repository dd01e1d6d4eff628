------------------------------- MODULE RtlTimer -------------------------------
(***************************************************************************)
(* stp/RtlTimer.hpp: a one-shot timer whose loop, run_timer, occupies one  *)
(* worker of the executor and posts the handlers to the same executor.     *)
(*                                                                         *)
(* A critical section of m_mtx is one step and the notify_all after it     *)
(* another.  The executor is a ThreadPoolExecutor: other users of its pool *)
(* fill the queue and workers drain it; a submit to a full queue is        *)
(* answered by the pool's RejectionPolicy, one to a closed pool is refused.*)
(***************************************************************************)
EXTENDS Naturals, FiniteSets

CONSTANTS Users,            \* threads that use the timer
          MaxTime,          \* bound on the clock and on the expiry times
          MaxWaits,         \* bound on the accepted calls of async_wait
          MaxVersion,       \* bound on m_version, so on the calls that raise it
          ExecutorWorkers,  \* worker threads of the executor
          MaxFills          \* bound on how often other tasks fill its queue

ASSUME TimerAssumption ==
  /\ IsFiniteSet(Users)
  /\ MaxTime \in Nat /\ MaxWaits \in Nat /\ MaxVersion \in Nat
  /\ ExecutorWorkers \in Nat \ {0} /\ MaxFills \in Nat

VARIABLES
  m_expiry, m_pending, m_cancelRequested, m_stopping, m_version,
  m_handler,           \* the number of the wait whose handler is stored, or 0
  loop,                \* where run_timer is
  deadline, version,   \* its locals: what the inner wait was entered with
  firing,              \* its locals handler and result, as <<wait, result>>
  caller,              \* caller[c]: "notify" is before notify_all, "get" in the destructor
  now,                 \* the clock
  executorOpen,        \* the executor's pool is not shut down
  policy,              \* its RejectionPolicy
  queueFull,           \* its queue is full
  fills,               \* how often other tasks filled it
  waits,               \* history: the number of waits accepted
  cancelled,           \* history: waits for which cancel() returned true
  decided,             \* history: every <<wait, result>> the loop settled on
  handed, ran,         \* history: waits whose handler was accepted, and was run
  turnedAway           \* history: waits whose handler an open executor refused

fields    == <<m_expiry, m_pending, m_cancelRequested, m_stopping, m_version, m_handler>>
loopVars  == <<loop, deadline, version, firing, decided, handed, turnedAway>>
callVars  == <<caller, waits, cancelled>>
poolVars  == <<executorOpen, policy, queueFull, fills>>
outerVars == <<now, ran, poolVars>>
timerVars == <<fields, loopVars, callVars, outerVars>>

\* An open pool with this policy may refuse a task: QueueFull, or TaskRejected after
\* the enqueue timeout.
Refuses(p) == p \in {"throw_exception", "block_for"}

\* The constructor submits run_timer, which a closed executor refuses, and a full
\* one under two of the policies.
TimerInit ==
  /\ m_expiry = 0
  /\ m_pending = FALSE /\ m_cancelRequested = FALSE /\ m_stopping = FALSE
  /\ m_version = 0 /\ m_handler = 0
  /\ executorOpen \in BOOLEAN /\ queueFull = FALSE /\ fills = 0
  /\ policy \in {"throw_exception", "block", "block_for", "caller_runs"}
  /\ \/ executorOpen /\ loop = "submitted"
     \/ (~executorOpen \/ Refuses(policy)) /\ loop = "refused"
  /\ deadline = 0 /\ version = 0 /\ firing = <<0, "expired">>
  /\ caller = [c \in Users |-> "idle"]
  /\ now = 0
  /\ waits = 0 /\ cancelled = {} /\ decided = {} /\ handed = {} /\ ran = {}
  /\ turnedAway = {}
-----------------------------------------------------------------------------
\* The calls.  One that returns false, or finds the timer stopping, changes nothing.

Calls(c) == caller[c] = "idle" /\ caller' = [caller EXCEPT ![c] = "notify"]

Bump == m_version < MaxVersion /\ m_version' = m_version + 1

expires_at(c, time) ==
  /\ Calls(c)
  /\ m_expiry' = time
  /\ Bump
  /\ UNCHANGED <<m_pending, m_cancelRequested, m_stopping, m_handler, waits, cancelled>>

MayWait == ~m_stopping /\ ~m_pending

async_wait(c) ==
  /\ Calls(c)
  /\ MayWait /\ waits < MaxWaits
  /\ waits' = waits + 1
  /\ m_handler' = waits + 1
  /\ m_pending' = TRUE
  /\ m_cancelRequested' = FALSE
  /\ Bump
  /\ UNCHANGED <<m_expiry, m_stopping, cancelled>>

cancel(c) ==
  /\ Calls(c)
  /\ m_pending
  /\ m_cancelRequested' = TRUE
  /\ Bump
  /\ cancelled' = cancelled \cup {m_handler}
  /\ UNCHANGED <<m_expiry, m_pending, m_stopping, m_handler, waits>>

\* The stored handler is moved out or dropped and no wait is pending any more.
Clear == m_handler' = 0 /\ m_pending' = FALSE

Stop ==
  /\ ~m_stopping
  /\ m_stopping' = TRUE
  /\ Clear
  /\ m_version' = m_version + 1
  /\ UNCHANGED <<m_expiry, m_cancelRequested>>

shutdown(c) == Calls(c) /\ Stop /\ UNCHANGED <<waits, cancelled>>

\* ~RtlTimer, by the owner while no other thread is in a call: shutdown, then the
\* future of run_timer is waited for.
destructor(c) ==
  /\ \A d \in Users : caller[d] = "idle"
  /\ \/ Stop /\ caller' = [caller EXCEPT ![c] = "dtor"]
     \/ m_stopping /\ caller' = [caller EXCEPT ![c] = "get"] /\ UNCHANGED fields
  /\ UNCHANGED <<waits, cancelled>>

Woken_Nobody(p) == p

Woken(p) ==
  CASE p = "outer_asleep" -> "outer" [] p = "inner_asleep" -> "woken" [] OTHER -> p

notify_all(c) ==
  /\ caller[c] \in {"notify", "dtor"}
  /\ caller' = [caller EXCEPT ![c] = IF @ = "notify" THEN "idle" ELSE "get"]
  /\ loop' = Woken(loop)
  /\ UNCHANGED <<fields, waits, cancelled, deadline, version, firing, decided, handed,
                 turnedAway, outerVars>>

\* The future is ready when the loop has returned; a refused submit left an
\* exception in it.
LoopDone == loop \in {"exited", "refused"}

destructor_return(c) ==
  /\ caller[c] = "get" /\ LoopDone
  /\ caller' = [caller EXCEPT ![c] = "gone"]
  /\ UNCHANGED <<fields, loopVars, waits, cancelled, outerVars>>
-----------------------------------------------------------------------------
\* run_timer

Goto(p) ==
  loop' = p /\ UNCHANGED <<fields, deadline, version, firing, decided, handed, turnedAway>>

CancelSeen_OnlyBeforeDeadline == m_cancelRequested /\ loop # "expired"

CancelSeen == m_cancelRequested

Superseded_Never == FALSE

\* A call changed the timer since the inner wait was entered.
Superseded == m_version # version

\* The wait is over: its handler leaves with the result.
Settle(result) ==
  /\ Clear
  /\ m_cancelRequested' = IF result = "cancelled" THEN FALSE ELSE m_cancelRequested
  /\ firing' = <<m_handler, result>>
  /\ decided' = decided \cup {<<m_handler, result>>}
  /\ loop' = "fire"
  /\ UNCHANGED <<m_expiry, m_stopping, m_version, deadline, version, handed, turnedAway>>

\* The head of the inner loop, whose wait is entered.
Arm ==
  /\ deadline' = m_expiry /\ version' = m_version
  /\ loop' = "inner_asleep"
  /\ UNCHANGED <<fields, firing, decided, handed, turnedAway>>

run_timer_start == loop = "submitted" /\ Goto("outer")

\* The outer wait and, in the same critical section, the first inner one, which a
\* cancel that came before it ends at once.
run_timer_outer ==
  /\ loop = "outer"
  /\ \/ m_stopping /\ Goto("exited")
     \/ ~m_stopping /\ ~m_pending /\ Goto("outer_asleep")
     \/ ~m_stopping /\ m_pending /\ CancelSeen /\ Settle("cancelled")
     \/ ~m_stopping /\ m_pending /\ ~CancelSeen /\ Arm

\* The inner wait once it holds m_mtx again.  The test of m_pending after it is
\* never false: see InnerMeansPending.
run_timer_inner ==
  /\ loop \in {"woken", "expired"}
  /\ \/ m_stopping /\ Goto("exited")
     \/ ~m_stopping /\ CancelSeen /\ Settle("cancelled")
     \/ ~m_stopping /\ ~CancelSeen /\ Superseded /\ Arm
     \/ /\ ~m_stopping /\ ~CancelSeen /\ ~Superseded
        /\ \/ loop = "woken" /\ Goto("inner_asleep")
           \/ loop = "expired" /\ Settle("expired")

inner_expire == loop = "inner_asleep" /\ now >= deadline /\ Goto("expired")

wait_spurious == loop \in {"outer_asleep", "inner_asleep"} /\ Goto(Woken(loop))

Answers_NeverWaits ==
  IF executorOpen /\ ~queueFull THEN {"accepted"}
  ELSE IF executorOpen /\ policy = "caller_runs" THEN {"inline"} ELSE {"refused"}

\* What the executor's post may answer now.  Under block a submit to a full queue
\* has no answer yet; under block_for it may time out or still be waiting.
Answers ==
  IF ~executorOpen THEN {"refused"}
  ELSE IF ~queueFull THEN {"accepted"}
  ELSE IF Refuses(policy) THEN {"refused"}
  ELSE IF policy = "caller_runs" THEN {"inline"} ELSE {}

\* The submit of the handler.  A refusal is ignored, the handler is gone; under
\* caller_runs a full queue makes the loop itself run the handler.
run_handler_on_executor ==
  /\ loop = "fire"
  /\ \E a \in Answers :
       /\ handed' = IF a = "accepted" THEN handed \cup {firing[1]} ELSE handed
       /\ ran' = IF a = "inline" THEN ran \cup {firing[1]} ELSE ran
       /\ turnedAway' =
            IF a = "refused" /\ executorOpen THEN turnedAway \cup {firing[1]} ELSE turnedAway
  /\ loop' = "outer"
  /\ firing' = <<0, "expired">>
  /\ UNCHANGED <<fields, deadline, version, decided, callVars, now, poolVars>>
-----------------------------------------------------------------------------
\* The executor and the clock.

LoopBusy == IF loop = "submitted" \/ LoopDone THEN 0 ELSE 1

executor_runs(w) ==
  /\ w \in handed \ ran /\ LoopBusy < ExecutorWorkers
  /\ ran' = ran \cup {w}
  /\ UNCHANGED <<fields, loopVars, callVars, now, poolVars>>

executor_closes ==
  /\ executorOpen /\ executorOpen' = FALSE
  /\ UNCHANGED <<fields, loopVars, callVars, now, ran, policy, queueFull, fills>>

\* Other users of the pool fill its queue; a worker that is not the loop's makes room.
others_fill ==
  /\ executorOpen /\ ~queueFull /\ fills < MaxFills
  /\ queueFull' = TRUE /\ fills' = fills + 1
  /\ UNCHANGED <<fields, loopVars, callVars, now, ran, executorOpen, policy>>

worker_drains ==
  /\ queueFull /\ LoopBusy < ExecutorWorkers
  /\ queueFull' = FALSE
  /\ UNCHANGED <<fields, loopVars, callVars, now, ran, executorOpen, policy, fills>>

tick ==
  /\ now < MaxTime /\ now' = now + 1
  /\ UNCHANGED <<fields, loopVars, callVars, ran, poolVars>>
-----------------------------------------------------------------------------
UserCall(c) ==
  /\ \A d \in Users : caller[d] \in {"idle", "notify"}
  /\ \/ \E time \in 0..MaxTime : expires_at(c, time)
     \/ async_wait(c) \/ cancel(c) \/ shutdown(c) \/ destructor(c)
  /\ UNCHANGED <<loopVars, outerVars>>

InLoop(A) == A /\ UNCHANGED <<callVars, outerVars>>

LoopStep ==
  InLoop(run_timer_start \/ run_timer_outer \/ run_timer_inner) \/ run_handler_on_executor

TimerNext ==
  \/ \E c \in Users : UserCall(c) \/ notify_all(c) \/ destructor_return(c)
  \/ LoopStep \/ InLoop(inner_expire) \/ InLoop(wait_spurious)
  \/ \E w \in 1..MaxWaits : executor_runs(w)
  \/ executor_closes \/ others_fill \/ worker_drains \/ tick

TimerEnded == (\E c \in Users : caller[c] = "gone") /\ UNCHANGED timerVars

TimerSpec == TimerInit /\ [][TimerNext \/ TimerEnded]_timerVars

\* Threads run, time passes and the pool's tasks end; the deadline is absolute, so
\* that it is reached also by a loop that is woken again and again.
TimerFairSpec ==
  /\ TimerSpec
  /\ WF_timerVars(LoopStep) /\ SF_timerVars(InLoop(inner_expire)) /\ WF_timerVars(tick)
  /\ WF_timerVars(worker_drains)
  /\ \A c \in Users : WF_timerVars(notify_all(c)) /\ WF_timerVars(destructor_return(c))
  /\ \A w \in 1..MaxWaits : WF_timerVars(executor_runs(w))
-----------------------------------------------------------------------------
\* The types of the variables the loop decides by.
TypeOK ==
  /\ m_expiry \in 0..MaxTime /\ deadline \in 0..MaxTime /\ now \in 0..MaxTime
  /\ m_version \in 0..(MaxVersion + 1) /\ version \in 0..(MaxVersion + 1)
  /\ m_handler \in 0..MaxWaits
  /\ loop \in {"submitted", "refused", "outer", "outer_asleep", "inner_asleep", "woken",
               "expired", "fire", "exited"}
  /\ decided \subseteq (1..MaxWaits) \X {"expired", "cancelled"}

\* run_timer settles each wait with one result only, and never one that has no
\* handler stored.
OneResultPerWait == \A d, e \in decided : d[1] = e[1] => d = e

\* If cancel() returned true for a wait, run_timer never reports it expired,
\* also when the deadline had passed before the loop saw the cancel.
CancelWins == \A w \in cancelled : <<w, "expired">> \notin decided

\* run_timer lets a wait expire only when the expiry time in force, not an earlier
\* one that expires_at has replaced, has passed.
NeverEarly ==
  [][\A w \in 1..MaxWaits :
       (<<w, "expired">> \in decided' \ decided) => m_expiry <= now]_timerVars

\* A wait async_wait accepted is the pending one or was settled, until shutdown
\* drops it: none is forgotten or overwritten.
NoWaitForgotten ==
  ~m_stopping =>
    \A w \in 1..waits : (m_pending /\ m_handler = w) \/ \E d \in decided : d[1] = w

\* While run_timer is inside the inner loop the wait it serves stays pending until
\* it settles it or shutdown begins: nobody takes the handler away under it.
InnerMeansPending ==
  loop \in {"inner_asleep", "woken", "expired"} => m_pending \/ m_stopping

\* When the destructor has returned, run_timer does not touch the timer again.
DestroyedMeansQuiet == (\E c \in Users : caller[c] = "gone") => loop \in {"exited", "refused"}

\* Waits and the timer's own life, whatever calls race with the loop: one result for
\* each wait, a cancel that succeeded wins over a passed deadline, none is forgotten
\* or taken away under the loop, and nothing is touched after the destructor.
TimerSafe ==
  /\ TypeOK /\ OneResultPerWait /\ CancelWins
  /\ NoWaitForgotten /\ InnerMeansPending /\ DestroyedMeansQuiet

\* run_timer settles every accepted wait, unless the executor refused run_timer
\* or shutdown dropped the wait.
WaitsResolve ==
  \A w \in 1..MaxWaits :
    (waits >= w) ~> (m_stopping \/ loop = "refused" \/ \E d \in decided : d[1] = w)

\* With a second worker, the handler of every settled wait, expired or cancelled,
\* runs while the timer is alive, on a worker or on the loop itself, unless the
\* executor was closed or turned it away, which it may only under the two policies
\* whose full queue refuses: a wait for room ends and is not given up.
DecidedHandlersRun ==
  \A w \in 1..MaxWaits :
    (\E d \in decided : d[1] = w) ~>
      (w \in ran \/ ~executorOpen \/ (Refuses(policy) /\ w \in turnedAway))
=============================================================================
