------------------------------- MODULE CoroTask -------------------------------
(***************************************************************************)
(* coro/Task.hpp, SyncWait.hpp, Schedule.cpp and ExecutorScheduler.cpp: a  *)
(* thread calls sync_wait on a lazy task, which may await further tasks    *)
(* and move between the threads of an executor.                            *)
(*                                                                         *)
(* A call c of sync_wait owns a chain of coroutine frames: <<c, 0>> is the *)
(* runner, <<c, 1>> the task waited for, <<c, k+1>> a task awaited by      *)
(* <<c, k>>.  run[thr] is the frame a thread executes; frame[c][k] says    *)
(* where that frame stands, "none" before it exists and after it is gone;  *)
(* the runner is gone when its caller has returned.  The executor is       *)
(* external: it refuses a handle, runs it in the caller (caller_runs), or  *)
(* keeps it for a worker.                                                  *)
(***************************************************************************)
EXTENDS Naturals, FiniteSets

CONSTANTS Callers,       \* one call of sync_wait each
          PoolCallers,   \* those whose caller is itself a worker of the executor
          VoidCalls,     \* those that wait for a Task<void>
          Workers,       \* threads of the executor
          Depth,         \* the deepest frame of a chain
          MaxAwaits,     \* co_awaits the tasks of one call perform
          Idle

Frames  == 0..Depth
Threads == Callers \cup Workers
Handles == Callers \X Frames

ASSUME CoroAssumption ==
  /\ IsFiniteSet(Callers) /\ IsFiniteSet(Workers) /\ Callers \cap Workers = {}
  /\ PoolCallers \subseteq Callers /\ VoidCalls \subseteq Callers
  /\ Depth \in Nat \ {0} /\ MaxAwaits \in Nat
  /\ Idle \notin Handles

VARIABLES
  frame,        \* frame[c][k]: where the frame stands
  promise,      \* promise[c][k]: its promise_type: exp and whether current_value is set
  run,          \* run[thr]: the frame the thread executes, or Idle
  posted,       \* handles the executor holds
  at,           \* at[c]: the place of the caller in sync_wait
  state,        \* state[c]: the SyncWaitState
  awaits,       \* awaits[c]: co_awaits so far (bounded by MaxAwaits)
  ended         \* history: how the task waited for ended

vars == <<frame, promise, run, posted, at, state, awaits, ended>>

Fresh == [exp |-> "none", value |-> FALSE]

Init ==
  /\ frame = [c \in Callers |-> [k \in Frames |-> "none"]]
  /\ promise = [c \in Callers |-> [k \in Frames |-> Fresh]]
  /\ run = [t \in Threads |-> Idle]
  /\ posted = {}
  /\ at = [c \in Callers |-> "before"]
  /\ state = [c \in Callers |-> [done |-> FALSE, result |-> FALSE, exception |-> "none"]]
  /\ awaits = [c \in Callers |-> 0]
  /\ ended = [c \in Callers |-> "running"]
-----------------------------------------------------------------------------
\* The threads of the executor that are taken: by a coroutine, or by a caller
\* that sits in sync_wait on one of them.
Busy == {w \in Workers : run[w] # Idle}
        \cup {c \in PoolCallers : at[c] \notin {"before", "returned"}}

\* Thread t leaves resume(): a caller goes on in sync_wait, a worker in its loop.
Resumed(t) ==
  /\ run' = [run EXCEPT ![t] = Idle]
  /\ at' = IF t \in Callers THEN [at EXCEPT ![t] = "lock"] ELSE at

Executes(t, c, k, place) == run[t] = <<c, k>> /\ frame[c][k] = place

\* sync_wait makes the runner, which owns the task given to it, and resumes it.
\* Both frames stop at initial_suspend; resume() starts the runner only.
sync_wait(c) ==
  /\ at[c] = "before"
  /\ c \in PoolCallers => Cardinality(Busy) < Cardinality(Workers)
  /\ frame' = [frame EXCEPT ![c][0] = "body", ![c][1] = "created"]
  /\ run' = [run EXCEPT ![c] = <<c, 0>>]
  /\ at' = [at EXCEPT ![c] = "resume"]
  /\ UNCHANGED <<promise, posted, state, awaits, ended>>

\* co_await std::move(task): the awaiter takes the handle, await_ready is false
\* for a frame that has not run, await_suspend stores the continuation and
\* transfers to the frame.  A frame other than the runner makes the task first.
co_await(t, c, k) ==
  /\ Executes(t, c, k, "body") /\ k < Depth
  /\ k > 0 => awaits[c] < MaxAwaits
  /\ frame' = [frame EXCEPT ![c][k] = "awaiting", ![c][k + 1] = "body"]
  /\ run' = [run EXCEPT ![t] = <<c, k + 1>>]
  /\ awaits' = IF k > 0 THEN [awaits EXCEPT ![c] = @ + 1] ELSE awaits
  /\ UNCHANGED <<promise, posted, at, state, ended>>

\* How a body ends: return_value, return_void, or unhandled_exception.
Ends(c, k, p) ==
  /\ promise' = [promise EXCEPT ![c][k] = p]
  /\ frame' = [frame EXCEPT ![c][k] = "final"]
  /\ ended' = IF k = 1
              THEN [ended EXCEPT ![c] = IF p.exp = "none" THEN "value" ELSE p.exp]
              ELSE ended

return_value(t, c, k) ==
  /\ Executes(t, c, k, "body") /\ k > 0 /\ c \notin VoidCalls
  /\ Ends(c, k, [Fresh EXCEPT !.value = TRUE])
  /\ UNCHANGED <<run, posted, at, state, awaits>>

return_void(t, c, k) ==
  /\ Executes(t, c, k, "body") /\ k > 0 /\ c \in VoidCalls
  /\ Ends(c, k, Fresh)
  /\ UNCHANGED <<run, posted, at, state, awaits>>

unhandled_exception(t, c, k) ==
  /\ Executes(t, c, k, "body") /\ k > 0
  /\ Ends(c, k, [Fresh EXCEPT !.exp = "thrown"])
  /\ UNCHANGED <<run, posted, at, state, awaits>>

\* ExecutorScheduler::post: the executor keeps the handle, runs it here, or
\* refuses it (no executor, a full or stopped pool, an exception).
post_Forgotten(t, c, k) ==
  \/ /\ frame' = [frame EXCEPT ![c][k] = "posted"]
     /\ Resumed(t)
     /\ UNCHANGED <<posted, promise, ended>>
  \/ UNCHANGED <<frame, promise, ended, posted, run, at>>

post(t, c, k) ==
  \/ /\ posted' = posted \cup {<<c, k>>}
     /\ frame' = [frame EXCEPT ![c][k] = "posted"]
     /\ Resumed(t)
     /\ UNCHANGED <<promise, ended>>
  \/ UNCHANGED <<frame, promise, ended, posted, run, at>>

\* await_suspend of schedule() throws ScheduleRejected into the body when post
\* returned false; the body lets it through, or handles it (the second disjunct
\* of post is the same step as a handled refusal).
schedule(t, c, k) ==
  /\ Executes(t, c, k, "body") /\ k > 0
  /\ awaits[c] < MaxAwaits
  /\ awaits' = [awaits EXCEPT ![c] = @ + 1]
  /\ \/ post(t, c, k)
     \/ /\ Ends(c, k, [Fresh EXCEPT !.exp = "rejected"])
        /\ UNCHANGED <<posted, run, at>>
  /\ UNCHANGED state

\* The job post() submitted: a worker resumes the handle if it is not done.
worker_runs(w, c, k) ==
  /\ run[w] = Idle /\ <<c, k>> \in posted
  /\ Cardinality(Busy) < Cardinality(Workers)
  /\ posted' = posted \ {<<c, k>>}
  /\ IF frame[c][k] = "final"
     THEN UNCHANGED <<run, frame>>
     ELSE /\ run' = [run EXCEPT ![w] = <<c, k>>]
          /\ frame' = [frame EXCEPT ![c][k] = "body"]
  /\ UNCHANGED <<promise, at, state, awaits, ended>>
-----------------------------------------------------------------------------
\* What await_resume makes of a promise: "value", or the exception it throws.
await_resume(p) ==
  IF p.exp # "none" THEN p.exp ELSE IF p.value THEN "value" ELSE "empty"

await_resume_void(p) == IF p.exp # "none" THEN p.exp ELSE "value"

Awaited(c, p) == IF c \in VoidCalls THEN await_resume_void(p) ELSE await_resume(p)

final_suspend_KeepsFrame(t, c, k) ==
  /\ Executes(t, c, k, "final") /\ k > 1
  /\ run' = [run EXCEPT ![t] = <<c, k - 1>>]
  /\ frame' = [frame EXCEPT ![c][k - 1] = "body"]
  /\ UNCHANGED <<promise, ended, posted, at, state, awaits>>

\* final_suspend of an awaited frame transfers to its continuation, which takes
\* the result in await_resume; the awaiter then destroys the frame.  A body may
\* handle the exception or let it through.
final_suspend(t, c, k) ==
  /\ Executes(t, c, k, "final") /\ k > 1
  /\ run' = [run EXCEPT ![t] = <<c, k - 1>>]
  /\ \/ /\ frame' = [frame EXCEPT ![c][k] = "none", ![c][k - 1] = "body"]
        /\ promise' = [promise EXCEPT ![c][k] = Fresh]
        /\ UNCHANGED ended
     \/ /\ Awaited(c, promise[c][k]) # "value"
        /\ LET p == [Fresh EXCEPT !.exp = Awaited(c, promise[c][k])]
           IN /\ promise' = [promise EXCEPT ![c][k] = Fresh, ![c][k - 1] = p]
              /\ frame' = [frame EXCEPT ![c][k] = "none", ![c][k - 1] = "final"]
              /\ ended' = IF k = 2 THEN [ended EXCEPT ![c] = p.exp] ELSE ended
  /\ UNCHANGED <<posted, at, state, awaits>>

\* The runner after its co_await: it keeps the value or the exception and sets
\* done under the mutex, notifies after unlocking, and ends.  Each of the three
\* steps touches the state or the frame, which sync_wait owns.
runner_stores(t, c) ==
  /\ Executes(t, c, 1, "final")
  /\ run' = [run EXCEPT ![t] = <<c, 0>>]
  /\ frame' = [frame EXCEPT ![c][1] = "none", ![c][0] = "notify"]
  /\ LET got == Awaited(c, promise[c][1])
     IN state' = [state EXCEPT ![c] = [done |-> TRUE,
                    result |-> got = "value" /\ c \notin VoidCalls,
                    exception |-> IF got = "value" THEN "none" ELSE got]]
  /\ promise' = [promise EXCEPT ![c][1] = Fresh]
  /\ UNCHANGED <<posted, at, awaits, ended>>

runner_notifies_Nobody(t, c) ==
  /\ Executes(t, c, 0, "notify")
  /\ frame' = [frame EXCEPT ![c][0] = "return"]
  /\ UNCHANGED <<promise, run, posted, at, state, awaits, ended>>

runner_notifies(t, c) ==
  /\ Executes(t, c, 0, "notify")
  /\ frame' = [frame EXCEPT ![c][0] = "return"]
  /\ at' = IF at[c] = "asleep" THEN [at EXCEPT ![c] = "lock"] ELSE at
  /\ UNCHANGED <<promise, run, posted, state, awaits, ended>>

\* co_return: no continuation, so final_suspend transfers to noop_coroutine and
\* the thread leaves resume().
runner_returns(t, c) ==
  /\ Executes(t, c, 0, "return")
  /\ frame' = [frame EXCEPT ![c][0] = "final"]
  /\ Resumed(t)
  /\ UNCHANGED <<promise, posted, state, awaits, ended>>

\* state.cv.wait with the predicate done, and its spurious wake-ups.
wait_Unchecked(c) ==
  /\ at[c] = "lock"
  /\ at' = [at EXCEPT ![c] = "finish"]
  /\ UNCHANGED <<frame, promise, run, posted, state, awaits, ended>>

wait(c) ==
  /\ at[c] = "lock"
  /\ at' = [at EXCEPT ![c] = IF state[c].done THEN "finish" ELSE "asleep"]
  /\ UNCHANGED <<frame, promise, run, posted, state, awaits, ended>>

wake_spurious(c) ==
  /\ at[c] = "asleep"
  /\ at' = [at EXCEPT ![c] = "lock"]
  /\ UNCHANGED <<frame, promise, run, posted, state, awaits, ended>>

\* What sync_wait returns or throws.
sync_wait_result(c) ==
  IF state[c].exception # "none" THEN state[c].exception
  ELSE IF state[c].result THEN "value" ELSE "empty"

sync_wait_void_result(c) ==
  IF state[c].exception # "none" THEN state[c].exception ELSE "value"

Outcome(c) == IF c \in VoidCalls THEN sync_wait_void_result(c) ELSE sync_wait_result(c)

\* The locals of sync_wait go: the lock, the runner (its frame is destroyed,
\* finished or not) and the state.
destroy_runner(c) ==
  /\ at[c] = "finish"
  /\ at' = [at EXCEPT ![c] = "returned"]
  /\ UNCHANGED <<frame, promise, run, posted, state, awaits, ended>>
-----------------------------------------------------------------------------
Step(t) ==
  \/ \E c \in Callers, k \in Frames :
       \/ co_await(t, c, k) \/ schedule(t, c, k)
       \/ return_value(t, c, k) \/ return_void(t, c, k) \/ unhandled_exception(t, c, k)
       \/ final_suspend(t, c, k)
  \/ \E c \in Callers : runner_stores(t, c) \/ runner_notifies(t, c) \/ runner_returns(t, c)

Serve(w) == \E c \in Callers, k \in Frames : worker_runs(w, c, k)

Call(c) == sync_wait(c) \/ wait(c) \/ destroy_runner(c)

Next ==
  \/ \E t \in Threads : Step(t)
  \/ \E w \in Workers : Serve(w)
  \/ \E c \in Callers : Call(c) \/ wake_spurious(c)

Ended ==
  /\ \A c \in Callers : at[c] = "returned"
  /\ \A t \in Threads : run[t] = Idle
  /\ UNCHANGED vars

Spec == Init /\ [][Next \/ Ended]_vars

\* A thread inside a coroutine or a call goes on, and a pool with a free worker
\* serves the handles it accepted.  Nothing forces a spurious wake-up.
FairSpec ==
  /\ Spec
  /\ \A t \in Threads : WF_vars(Step(t))
  /\ WF_vars(\E w \in Workers : Serve(w))
  /\ \A c \in Callers : WF_vars(Call(c))
-----------------------------------------------------------------------------
\* A coroutine moves between threads but is never in two places: a frame that
\* executes does so on one thread, a frame that waits for the executor is with
\* the executor once and executes nowhere, and between two threads it is never
\* forgotten.
OnePlaceToRun ==
  \A h \in Handles :
    LET place   == frame[h[1]][h[2]]
        runners == {t \in Threads : run[t] = h}
    IN IF h \in posted THEN place = "posted" /\ runners = {}
       ELSE /\ place # "posted"
            /\ Cardinality(runners) =
                 IF place \in {"body", "notify", "return"} \/ (place = "final" /\ h[2] > 0)
                 THEN 1 ELSE 0

\* sync_wait returns exactly what its task ended with: its value, its exception
\* or the refusal of the executor; it is never early and never EmptyResult.
ResultDelivered ==
  \A c \in Callers : at[c] \in {"finish", "returned"} => Outcome(c) = ended[c]

\* When sync_wait returns, every task it waited for has ended and its frame is gone.
\* Its own runner may still be executed by the thread that finished the task, but
\* only between the unlock that publishes done and the end of co_return: there it
\* refers to a state and a frame that sync_wait has destroyed.
RunnerRaceWindow ==
  \A c \in Callers : at[c] = "returned" =>
    /\ \A k \in 1..Depth : frame[c][k] = "none"
    /\ frame[c][0] \in {"notify", "return", "final"} /\ run[c] # <<c, 0>>

\* Every call of sync_wait returns, as long as some worker of the executor is
\* not itself blocked in sync_wait.
SyncWaitReturns ==
  Cardinality(PoolCallers) < Cardinality(Workers)
    => \A c \in Callers : <>(at[c] = "returned")
=============================================================================
