---------------------------- MODULE ExecutorProofs ----------------------------
(***************************************************************************)
(* Proofs about the two components that give work to an executor and go on *)
(* when it runs it or refuses it.                                          *)
(*                                                                         *)
(* CoroTask: for any calls of sync_wait and workers, any depth of nesting  *)
(* and number of awaits.                                                   *)
(* RtlTimer: for any number of callers, waits and expiry times.            *)
(***************************************************************************)
EXTENDS CoroTask, RtlTimer, FiniteSetTheorems, TLAPS

Stands == {"none", "created", "body", "awaiting", "posted", "final", "notify", "return"}
Exps   == {"none", "value", "empty", "thrown", "rejected"}

Types ==
  /\ frame \in [Callers -> [Frames -> Stands]]
  /\ promise \in [Callers -> [Frames -> [exp : Exps, value : BOOLEAN]]]
  /\ run \in [Threads -> Handles \cup {Idle}]
  /\ posted \subseteq Handles
  /\ at \in [Callers -> {"before", "resume", "lock", "asleep", "finish", "returned"}]
  /\ DOMAIN state = Callers /\ DOMAIN ended = Callers

\* Where the frame at depth k stands while a thread executes it.
Executing(k) == {"body", "notify", "return"} \cup (IF k > 0 THEN {"final"} ELSE {})

\* Exactly the frames that execute are some thread's, and exactly those that wait for
\* the executor are with it.
Placed ==
  \A c \in Callers, k \in Frames :
    /\ frame[c][k] \in Executing(k) <=> \E t \in Threads : run[t] = <<c, k>>
    /\ <<c, k>> \in posted <=> frame[c][k] = "posted"

\* No two threads execute one frame.
Alone == \A t, u \in Threads : run[t] = run[u] /\ run[t] # Idle => t = u

\* Below a frame that has begun all await; the task given to sync_wait exists from the
\* start and begins when the runner awaits it.
Chain ==
  \A c \in Callers, k \in Frames :
    /\ frame[c][k] \notin {"none", "created"} => \A j \in Frames : j < k => frame[c][j] = "awaiting"
    /\ frame[c][k] = "created" <=> k = 1 /\ frame[c][0] = "body"
    /\ frame[c][k] = "posted" => k > 0

\* A caller executes coroutines only in its resume(), and has none before the call.
CallersPlaces ==
  \A c \in Callers :
    /\ run[c] # Idle => at[c] = "resume"
    /\ at[c] = "before" => \A k \in Frames : frame[c][k] = "none"
    /\ at[c] \in {"finish", "returned"} => state[c].done

\* done is set when the runner's await has ended, and never before; what the task's
\* promise holds and then the state is how the task ended.
Told(c) ==
  /\ state[c].done <=> frame[c][0] \in {"notify", "return", "final"}
  /\ state[c].done => Outcome(c) = ended[c]
  /\ frame[c][1] = "final" => Awaited(c, promise[c][1]) = ended[c]

Delivered == \A c \in Callers : Told(c)

Inv == Types /\ Placed /\ Alone /\ Chain /\ CallersPlaces /\ Delivered
-----------------------------------------------------------------------------
\* The depths there are.
LEMMA Depths ==
  /\ 0 \in Frames /\ 1 \in Frames /\ Frames \subseteq Nat
  /\ \A k \in Frames : (k < Depth => k + 1 \in Frames) /\ (k > 0 => k - 1 \in Frames)
BY CoroAssumption DEF Frames

\* A handle names one frame, and none is Idle.
LEMMA HandleNames ==
  /\ \A c, d \in Callers, j, k \in Frames : <<c, j>> = <<d, k>> => c = d /\ j = k
  /\ \A c \in Callers, k \in Frames : <<c, k>> \in Handles /\ <<c, k>> # Idle
BY CoroAssumption DEF Handles

\* The invariant holds at the start.
LEMMA InitInv == Init => Inv
<1> SUFFICES ASSUME Init PROVE Inv
  OBVIOUS
<1>1. Types
  BY DEF Init, Types, Stands, Exps, Fresh
<1>2. \A c \in Callers, k \in Frames : frame[c][k] = "none"
  BY DEF Init
<1>3. Placed
  BY <1>2, HandleNames DEF Init, Placed, Executing
<1>4. Alone /\ Chain
  BY <1>2, Depths DEF Init, Alone, Chain
<1>5. CallersPlaces /\ Delivered
  BY <1>2, Depths DEF Init, CallersPlaces, Delivered, Told, Threads
<1> QED BY <1>1, <1>3, <1>4, <1>5 DEF Inv

\* Thread t goes on with h: the frames that execute are those that did, less the one
\* that t left, and h.
GoesOn(t, h) ==
  /\ run' = [run EXCEPT ![t] = h]
  /\ h # Idle => \A u \in Threads : u # t => run[u] # h
  /\ \A d \in Callers, i \in Frames :
       /\ frame'[d][i] \in Executing(i)
            <=> <<d, i>> = h \/ (frame[d][i] \in Executing(i) /\ run[t] # <<d, i>>)
       /\ <<d, i>> \in posted' <=> frame'[d][i] = "posted"

\* Such a step leaves every frame in one place.
LEMMA StepKeepsPlaces ==
  ASSUME Inv, NEW t \in Threads, NEW h, GoesOn(t, h)
  PROVE  Placed' /\ Alone'
<1>0. Types /\ Placed /\ Alone
  BY DEF Inv
<1>1. run'[t] = h /\ \A u \in Threads : u # t => run'[u] = run[u]
  BY <1>0 DEF Types, GoesOn
<1>2. Alone'
  BY <1>0, <1>1 DEF Alone, GoesOn
<1>3. ASSUME NEW d \in Callers, NEW i \in Frames
      PROVE  /\ frame'[d][i] \in Executing(i) <=> \E u \in Threads : run'[u] = <<d, i>>
             /\ <<d, i>> \in posted' <=> frame'[d][i] = "posted"
  <2>0. /\ frame'[d][i] \in Executing(i)
            <=> <<d, i>> = h \/ (frame[d][i] \in Executing(i) /\ run[t] # <<d, i>>)
        /\ <<d, i>> \in posted' <=> frame'[d][i] = "posted"
    BY DEF GoesOn
  <2>1. CASE <<d, i>> = h
    BY <1>1, <2>0, <2>1
  <2>2. CASE <<d, i>> # h /\ run[t] = <<d, i>>
    <3>1. <<d, i>> # Idle
      BY HandleNames
    <3>2. \A u \in Threads : u # t => run[u] # <<d, i>>
      BY <1>0, <2>2, <3>1 DEF Alone
    <3> QED BY <1>1, <2>0, <2>2, <3>2
  <2>3. CASE <<d, i>> # h /\ run[t] # <<d, i>>
    <3>1. (\E u \in Threads : run'[u] = <<d, i>>) <=> (\E u \in Threads : run[u] = <<d, i>>)
      BY <1>1, <2>3, Zenon
    <3>2. frame[d][i] \in Executing(i) <=> \E u \in Threads : run[u] = <<d, i>>
      BY <1>0, Zenon DEF Placed
    <3> QED BY <2>0, <2>3, <3>1, <3>2
  <2> QED BY <2>1, <2>2, <2>3
<1> QED BY <1>2, <1>3 DEF Placed

\* What the invariant says of the frame a thread executes: nobody else does, nothing
\* above it has begun, and everything below it awaits.
LEMMA ExecutedFrame ==
  ASSUME Inv, NEW t \in Threads, NEW c \in Callers, NEW k \in Frames, run[t] = <<c, k>>
  PROVE  /\ frame[c][k] \in Executing(k) /\ <<c, k>> \notin posted
         /\ \A u \in Threads : u # t => run[u] # <<c, k>>
         /\ \A i \in Frames : i > k => frame[c][i] \in {"none", "created"}
         /\ \A i \in Frames : i < k => frame[c][i] = "awaiting"
<1>0. Placed /\ Alone /\ Chain
  BY DEF Inv
<1>1. frame[c][k] \in Executing(k)
  BY <1>0 DEF Placed
<1>2. frame[c][k] \notin {"none", "created", "posted", "awaiting"}
  BY <1>1 DEF Executing
<1>3. <<c, k>> \notin posted
  BY <1>0, <1>2 DEF Placed
<1>4. \A u \in Threads : u # t => run[u] # <<c, k>>
  BY <1>0, HandleNames DEF Alone
<1>5. \A i \in Frames : i > k => frame[c][i] \in {"none", "created"}
  BY <1>0, <1>2 DEF Chain
<1>6. \A i \in Frames : i < k => frame[c][i] = "awaiting"
  BY <1>0, <1>2 DEF Chain
<1> QED BY <1>1, <1>3, <1>4, <1>5, <1>6

\* A frame that has not begun, awaits or has ended is executed by nobody.
LEMMA RestingFrame ==
  ASSUME Inv, NEW c \in Callers, NEW k \in Frames, frame[c][k] \notin Executing(k)
  PROVE  \A u \in Threads : run[u] # <<c, k>>
BY DEF Inv, Placed

\* co_await: the awaited frame begins, the awaiting one waits.
LEMMA AwaitKeepsPlaces ==
  ASSUME Inv, NEW t \in Threads, NEW c \in Callers, NEW k \in Frames, co_await(t, c, k)
  PROVE  Types' /\ Placed' /\ Alone' /\ Chain'
<1>0. Types /\ Placed /\ Alone /\ Chain
  BY DEF Inv
<1>1. /\ run[t] = <<c, k>> /\ frame[c][k] = "body" /\ k + 1 \in Frames /\ k \in Nat
      /\ run' = [run EXCEPT ![t] = <<c, k + 1>>]
      /\ UNCHANGED <<promise, posted, at, state, ended>>
  BY Depths DEF co_await, Executes
<1>2. /\ frame' \in [Callers -> [Frames -> Stands]]
      /\ frame'[c][k] = "awaiting" /\ frame'[c][k + 1] = "body"
      /\ \A d \in Callers, i \in Frames : d # c \/ (i # k /\ i # k + 1) => frame'[d][i] = frame[d][i]
  <2>1. "awaiting" \in Stands /\ "body" \in Stands
    BY DEF Stands
  <2> DEFINE h == [frame EXCEPT ![c][k] = "awaiting"]
  <2>2. /\ h \in [Callers -> [Frames -> Stands]] /\ h[c][k] = "awaiting"
        /\ \A d \in Callers, i \in Frames : d # c \/ i # k => h[d][i] = frame[d][i]
    BY <1>0, <2>1 DEF Types
  <2>3. frame' = [h EXCEPT ![c][k + 1] = "body"] /\ k # k + 1
    BY <1>1 DEF co_await
  <2> HIDE DEF h
  <2>4. /\ frame' \in [Callers -> [Frames -> Stands]] /\ frame'[c][k + 1] = "body"
        /\ \A d \in Callers, i \in Frames : d # c \/ i # k + 1 => frame'[d][i] = h[d][i]
    BY <1>1, <2>1, <2>2, <2>3
  <2> QED BY <2>1, <2>2, <2>3, <2>4
<1>3. Types'
  BY <1>0, <1>1, <1>2, HandleNames DEF Types
<1>4. /\ \A i \in Frames : i > k => frame[c][i] \in {"none", "created"}
      /\ \A i \in Frames : i < k => frame[c][i] = "awaiting"
  BY <1>1, ExecutedFrame, Zenon
<1>5. frame[c][k + 1] \in {"none", "created"} /\ frame[c][k + 1] \notin Executing(k + 1)
  BY <1>1, <1>4 DEF Executing
<1>6. \A u \in Threads : run[u] # <<c, k + 1>>
  BY <1>1, <1>5, RestingFrame
<1>7. ASSUME NEW d \in Callers, NEW i \in Frames
      PROVE  /\ frame'[d][i] \in Executing(i)
                  <=> <<d, i>> = <<c, k + 1>> \/ (frame[d][i] \in Executing(i) /\ run[t] # <<d, i>>)
             /\ <<d, i>> \in posted' <=> frame'[d][i] = "posted"
  <2>1. CASE d = c /\ i = k
    BY <1>0, <1>1, <1>2, <2>1, HandleNames DEF Placed, Executing
  <2>2. CASE d = c /\ i = k + 1
    BY <1>0, <1>1, <1>2, <1>5, <2>2 DEF Placed, Executing
  <2>3. CASE d # c \/ (i # k /\ i # k + 1)
    <3>1. <<d, i>> # <<c, k>> /\ <<d, i>> # <<c, k + 1>>
      BY <1>1, <2>3, HandleNames
    <3>2. frame'[d][i] = frame[d][i] /\ posted' = posted
      BY <1>1, <1>2, <2>3
    <3>3. <<d, i>> \in posted <=> frame[d][i] = "posted"
      BY <1>0 DEF Placed
    <3> QED BY <1>1, <3>1, <3>2, <3>3
  <2> QED BY <2>1, <2>2, <2>3
<1>8. Placed' /\ Alone'
  <2>1. GoesOn(t, <<c, k + 1>>)
    BY <1>1, <1>6, <1>7 DEF GoesOn
  <2> QED BY <2>1, StepKeepsPlaces
<1>9. Chain'
  <2> SUFFICES ASSUME NEW d \in Callers, NEW i \in Frames
               PROVE  /\ frame'[d][i] \notin {"none", "created"} =>
                           \A j \in Frames : j < i => frame'[d][j] = "awaiting"
                      /\ frame'[d][i] = "created" <=> i = 1 /\ frame'[d][0] = "body"
                      /\ frame'[d][i] = "posted" => i > 0
    BY DEF Chain
  <2>1. CASE d # c
    <3>1. \A l \in Frames : frame'[d][l] = frame[d][l]
      BY <1>2, <2>1
    <3>2. /\ frame[d][i] \notin {"none", "created"} => \A l \in Frames : l < i => frame[d][l] = "awaiting"
          /\ frame[d][i] = "created" <=> i = 1 /\ frame[d][0] = "body"
          /\ frame[d][i] = "posted" => i > 0
      BY <1>0 DEF Chain
    <3> QED BY <3>1, <3>2, Depths, Zenon
  <2>2. CASE d = c
    <3>0. \A m \in Frames :
            /\ frame[c][m] \notin {"none", "created"} => \A l \in Frames : l < m => frame[c][l] = "awaiting"
            /\ frame[c][m] = "created" <=> m = 1 /\ frame[c][0] = "body"
            /\ frame[c][m] = "posted" => m > 0
      BY <1>0 DEF Chain
    <3>1. ASSUME frame'[c][i] \notin {"none", "created"}, NEW l \in Frames, l < i
          PROVE  frame'[c][l] = "awaiting"
      <4>1. i \in Nat /\ l \in Nat /\ k \in Nat
        BY Depths
      <4>2. CASE i > k + 1
        <5>1. i > k /\ i # k /\ i # k + 1
          BY <4>1, <4>2
        <5>2. frame'[c][i] = frame[c][i] /\ frame[c][i] \in {"none", "created"}
          BY <1>2, <1>4, <5>1
        <5> QED BY <3>1, <5>2
      <4>3. CASE l = k
        BY <1>2, <4>3
      <4>4. CASE i <= k + 1 /\ l # k
        <5>1. l < k /\ l # k + 1
          BY <3>1, <4>1, <4>4
        <5>2. frame'[c][l] = frame[c][l] /\ frame[c][l] = "awaiting"
          BY <1>2, <1>4, <4>4, <5>1
        <5> QED BY <5>2
      <4> QED BY <4>1, <4>2, <4>3, <4>4
    <3>2. frame'[c][i] = "created" <=> i = 1 /\ frame'[c][0] = "body"
      BY <1>1, <1>2, <1>4, <3>0, Depths
    <3>3. frame'[c][i] = "posted" => i > 0
      BY <1>1, <1>2, <1>4, <3>0, Depths
    <3> QED BY <2>2, <3>1, <3>2, <3>3, Zenon
  <2> QED BY <2>1, <2>2
<1> QED BY <1>3, <1>8, <1>9

\* The frame a thread executes goes on to place p, of those that execute.
LEMMA StayKeepsPlaces ==
  ASSUME Inv, NEW t \in Threads, NEW c \in Callers, NEW k \in Frames, NEW p \in Executing(k),
         run[t] = <<c, k>>, p # "body", k = 0 => frame[c][k] # "body",
         frame' = [frame EXCEPT ![c][k] = p], UNCHANGED <<run, posted>>
  PROVE  frame' \in [Callers -> [Frames -> Stands]] /\ Placed' /\ Alone' /\ Chain'
<1>0. Types /\ Placed /\ Alone /\ Chain
  BY DEF Inv
<1>1. /\ frame' \in [Callers -> [Frames -> Stands]] /\ frame'[c][k] = p
      /\ \A d \in Callers, i \in Frames : d # c \/ i # k => frame'[d][i] = frame[d][i]
  <2>1. p \in Stands
    BY DEF Executing, Stands
  <2> QED BY <1>0, <2>1 DEF Types
<1>2. /\ frame[c][k] \in Executing(k) /\ p # "posted" /\ p # "created"
      /\ \A i \in Frames : i > k => frame[c][i] \in {"none", "created"}
      /\ \A i \in Frames : i < k => frame[c][i] = "awaiting"
  BY ExecutedFrame, Zenon DEF Executing
<1>3. frame[c][k] # "posted" /\ frame[c][k] # "created"
  BY <1>2 DEF Executing
<1>4. ASSUME NEW d \in Callers, NEW i \in Frames
      PROVE  /\ frame'[d][i] \in Executing(i) <=> frame[d][i] \in Executing(i)
             /\ frame'[d][i] = "posted" <=> frame[d][i] = "posted"
  BY <1>1, <1>2, <1>3
<1>5. Placed' /\ Alone'
  <2>1. Alone'
    BY <1>0 DEF Alone
  <2>2. Placed'
    BY <1>0, <1>4, Zenon DEF Placed
  <2> QED BY <2>1, <2>2
<1>6. Chain'
  <2> SUFFICES ASSUME NEW d \in Callers, NEW i \in Frames
               PROVE  /\ frame'[d][i] \notin {"none", "created"} =>
                           \A j \in Frames : j < i => frame'[d][j] = "awaiting"
                      /\ frame'[d][i] = "created" <=> i = 1 /\ frame'[d][0] = "body"
                      /\ frame'[d][i] = "posted" => i > 0
    BY DEF Chain
  <2>1. CASE d # c
    <3>1. \A l \in Frames : frame'[d][l] = frame[d][l]
      BY <1>1, <2>1
    <3>2. /\ frame[d][i] \notin {"none", "created"} => \A l \in Frames : l < i => frame[d][l] = "awaiting"
          /\ frame[d][i] = "created" <=> i = 1 /\ frame[d][0] = "body"
          /\ frame[d][i] = "posted" => i > 0
      BY <1>0 DEF Chain
    <3> QED BY <3>1, <3>2, Depths, Zenon
  <2>2. CASE d = c
    <3>0. \A m \in Frames :
            /\ frame[c][m] \notin {"none", "created"} => \A l \in Frames : l < m => frame[c][l] = "awaiting"
            /\ frame[c][m] = "created" <=> m = 1 /\ frame[c][0] = "body"
            /\ frame[c][m] = "posted" => m > 0
      BY <1>0 DEF Chain
    <3>1. ASSUME frame'[c][i] \notin {"none", "created"}, NEW l \in Frames, l < i
          PROVE  frame'[c][l] = "awaiting"
      BY <1>1, <1>2, <1>3, <3>0, <3>1, Depths
    <3>2. frame'[c][i] = "created" <=> i = 1 /\ frame'[c][0] = "body"
      BY <1>1, <1>2, <1>3, <3>0, Depths
    <3>3. frame'[c][i] = "posted" => i > 0
      BY <1>1, <1>2, <1>3, <3>0, Depths
    <3> QED BY <2>2, <3>1, <3>2, <3>3, Zenon
  <2> QED BY <2>1, <2>2
<1> QED BY <1>1, <1>5, <1>6

\* A thread leaves the frame it executes, to the executor or because it is the runner's
\* and has ended.
LEMMA LeaveKeepsPlaces ==
  ASSUME Inv, NEW t \in Threads, NEW c \in Callers, NEW k \in Frames, NEW p \in {"posted", "final"},
         run[t] = <<c, k>>, p = "posted" <=> k > 0, k = 0 => frame[c][k] # "body",
         frame' = [frame EXCEPT ![c][k] = p], run' = [run EXCEPT ![t] = Idle],
         posted' = IF p = "posted" THEN posted \cup {<<c, k>>} ELSE posted
  PROVE  frame' \in [Callers -> [Frames -> Stands]] /\ Placed' /\ Alone' /\ Chain'
<1>0. Types /\ Placed /\ Alone /\ Chain
  BY DEF Inv
<1>1. /\ frame' \in [Callers -> [Frames -> Stands]] /\ frame'[c][k] = p
      /\ \A d \in Callers, i \in Frames : d # c \/ i # k => frame'[d][i] = frame[d][i]
  <2>1. p \in Stands
    BY DEF Stands
  <2> QED BY <1>0, <2>1 DEF Types
<1>2. /\ frame[c][k] \in Executing(k) /\ <<c, k>> \notin posted
      /\ \A i \in Frames : i > k => frame[c][i] \in {"none", "created"}
      /\ \A i \in Frames : i < k => frame[c][i] = "awaiting"
  BY ExecutedFrame
<1>3. frame[c][k] # "posted" /\ frame[c][k] # "created"
  BY <1>2 DEF Executing
<1>4. p \notin Executing(k)
  BY Depths DEF Executing
<1>5. ASSUME NEW d \in Callers, NEW i \in Frames
      PROVE  /\ frame'[d][i] \in Executing(i)
                  <=> <<d, i>> = Idle \/ (frame[d][i] \in Executing(i) /\ run[t] # <<d, i>>)
             /\ <<d, i>> \in posted' <=> frame'[d][i] = "posted"
  <2>1. <<d, i>> # Idle
    BY HandleNames
  <2>2. CASE d = c /\ i = k
    BY <1>1, <1>2, <1>4, <2>1, <2>2
  <2>3. CASE d # c \/ i # k
    <3>1. <<d, i>> # <<c, k>>
      BY <2>3, HandleNames
    <3>2. <<d, i>> \in posted <=> frame[d][i] = "posted"
      BY <1>0 DEF Placed
    <3> QED BY <1>1, <2>1, <2>3, <3>1, <3>2
  <2> QED BY <2>2, <2>3
<1>6. Placed' /\ Alone'
  <2>1. GoesOn(t, Idle)
    BY <1>5 DEF GoesOn
  <2> QED BY <2>1, StepKeepsPlaces
<1>7. Chain'
  <2> SUFFICES ASSUME NEW d \in Callers, NEW i \in Frames
               PROVE  /\ frame'[d][i] \notin {"none", "created"} =>
                           \A j \in Frames : j < i => frame'[d][j] = "awaiting"
                      /\ frame'[d][i] = "created" <=> i = 1 /\ frame'[d][0] = "body"
                      /\ frame'[d][i] = "posted" => i > 0
    BY DEF Chain
  <2>1. CASE d # c
    <3>1. \A l \in Frames : frame'[d][l] = frame[d][l]
      BY <1>1, <2>1
    <3>2. /\ frame[d][i] \notin {"none", "created"} => \A l \in Frames : l < i => frame[d][l] = "awaiting"
          /\ frame[d][i] = "created" <=> i = 1 /\ frame[d][0] = "body"
          /\ frame[d][i] = "posted" => i > 0
      BY <1>0 DEF Chain
    <3> QED BY <3>1, <3>2, Depths, Zenon
  <2>2. CASE d = c
    <3>0. \A m \in Frames :
            /\ frame[c][m] \notin {"none", "created"} => \A l \in Frames : l < m => frame[c][l] = "awaiting"
            /\ frame[c][m] = "created" <=> m = 1 /\ frame[c][0] = "body"
            /\ frame[c][m] = "posted" => m > 0
      BY <1>0 DEF Chain
    <3>1. ASSUME frame'[c][i] \notin {"none", "created"}, NEW l \in Frames, l < i
          PROVE  frame'[c][l] = "awaiting"
      BY <1>1, <1>2, <1>3, <3>0, <3>1, Depths
    <3>2. frame'[c][i] = "created" <=> i = 1 /\ frame'[c][0] = "body"
      BY <1>1, <1>2, <1>3, <3>0, Depths
    <3>3. frame'[c][i] = "posted" => i > 0
      BY <1>1, <1>2, <1>3, <3>0, Depths
    <3> QED BY <2>2, <3>1, <3>2, <3>3, Zenon
  <2> QED BY <2>1, <2>2
<1> QED BY <1>1, <1>6, <1>7

\* A worker takes a frame from the executor.
LEMMA TakeKeepsPlaces ==
  ASSUME Inv, NEW t \in Threads, NEW c \in Callers, NEW k \in Frames,
         run[t] = Idle, <<c, k>> \in posted,
         frame' = [frame EXCEPT ![c][k] = "body"], run' = [run EXCEPT ![t] = <<c, k>>],
         posted' = posted \ {<<c, k>>}
  PROVE  frame' \in [Callers -> [Frames -> Stands]] /\ Placed' /\ Alone' /\ Chain'
<1>0. Types /\ Placed /\ Alone /\ Chain
  BY DEF Inv
<1>1. /\ frame' \in [Callers -> [Frames -> Stands]] /\ frame'[c][k] = "body"
      /\ \A d \in Callers, i \in Frames : d # c \/ i # k => frame'[d][i] = frame[d][i]
  <2>1. "body" \in Stands
    BY DEF Stands
  <2> QED BY <1>0, <2>1 DEF Types
<1>2. frame[c][k] = "posted" /\ k > 0
  BY <1>0 DEF Placed, Chain
<1>3. "body" \in Executing(k) /\ "posted" \notin Executing(k)
  BY DEF Executing
<1>4. \A u \in Threads : run[u] # <<c, k>>
  BY <1>2, <1>3, RestingFrame
<1>5. ASSUME NEW d \in Callers, NEW i \in Frames
      PROVE  /\ frame'[d][i] \in Executing(i)
                  <=> <<d, i>> = <<c, k>> \/ (frame[d][i] \in Executing(i) /\ run[t] # <<d, i>>)
             /\ <<d, i>> \in posted' <=> frame'[d][i] = "posted"
  <2>1. <<d, i>> # Idle
    BY HandleNames
  <2>2. CASE d = c /\ i = k
    BY <1>1, <1>3, <2>2
  <2>3. CASE d # c \/ i # k
    <3>1. <<d, i>> # <<c, k>>
      BY <2>3, HandleNames
    <3>2. <<d, i>> \in posted <=> frame[d][i] = "posted"
      BY <1>0 DEF Placed
    <3> QED BY <1>1, <2>1, <2>3, <3>1, <3>2
  <2> QED BY <2>2, <2>3
<1>6. Placed' /\ Alone'
  <2>1. GoesOn(t, <<c, k>>)
    BY <1>4, <1>5 DEF GoesOn
  <2> QED BY <2>1, StepKeepsPlaces
<1>7. Chain'
  <2> SUFFICES ASSUME NEW d \in Callers, NEW i \in Frames
               PROVE  /\ frame'[d][i] \notin {"none", "created"} =>
                           \A j \in Frames : j < i => frame'[d][j] = "awaiting"
                      /\ frame'[d][i] = "created" <=> i = 1 /\ frame'[d][0] = "body"
                      /\ frame'[d][i] = "posted" => i > 0
    BY DEF Chain
  <2>1. CASE d # c
    <3>1. \A l \in Frames : frame'[d][l] = frame[d][l]
      BY <1>1, <2>1
    <3>2. /\ frame[d][i] \notin {"none", "created"} => \A l \in Frames : l < i => frame[d][l] = "awaiting"
          /\ frame[d][i] = "created" <=> i = 1 /\ frame[d][0] = "body"
          /\ frame[d][i] = "posted" => i > 0
      BY <1>0 DEF Chain
    <3> QED BY <3>1, <3>2, Depths, Zenon
  <2>2. CASE d = c
    <3>0. \A m \in Frames :
            /\ frame[c][m] \notin {"none", "created"} => \A l \in Frames : l < m => frame[c][l] = "awaiting"
            /\ frame[c][m] = "created" <=> m = 1 /\ frame[c][0] = "body"
            /\ frame[c][m] = "posted" => m > 0
      BY <1>0 DEF Chain
    <3>1. ASSUME frame'[c][i] \notin {"none", "created"}, NEW l \in Frames, l < i
          PROVE  frame'[c][l] = "awaiting"
      BY <1>1, <1>2, <3>0, <3>1, Depths
    <3>2. frame'[c][i] = "created" <=> i = 1 /\ frame'[c][0] = "body"
      BY <1>1, <1>2, <3>0, Depths
    <3>3. frame'[c][i] = "posted" => i > 0
      BY <1>1, <1>2, <3>0, Depths
    <3> QED BY <2>2, <3>1, <3>2, <3>3, Zenon
  <2> QED BY <2>1, <2>2
<1> QED BY <1>1, <1>6, <1>7

\* A frame ends and its thread goes on with the continuation, which goes to place q.
LEMMA ReturnKeepsPlaces ==
  ASSUME Inv, NEW t \in Threads, NEW c \in Callers, NEW k \in Frames, k > 0,
         NEW j \in Frames, k = j + 1,
         NEW q \in Executing(j), q = "body" => j > 0, run[t] = <<c, k>>,
         frame' = [frame EXCEPT ![c][k] = "none", ![c][j] = q],
         run' = [run EXCEPT ![t] = <<c, j>>], UNCHANGED posted
  PROVE  frame' \in [Callers -> [Frames -> Stands]] /\ Placed' /\ Alone' /\ Chain'
<1>0. Types /\ Placed /\ Alone /\ Chain /\ j < k /\ j # k
  BY Depths DEF Inv
<1>1. /\ frame' \in [Callers -> [Frames -> Stands]] /\ frame'[c][k] = "none" /\ frame'[c][j] = q
      /\ \A d \in Callers, i \in Frames : d # c \/ (i # k /\ i # j) => frame'[d][i] = frame[d][i]
  <2>1. q \in Stands /\ "none" \in Stands
    BY DEF Stands, Executing
  <2> DEFINE h == [frame EXCEPT ![c][k] = "none"]
  <2>2. /\ h \in [Callers -> [Frames -> Stands]] /\ h[c][k] = "none"
        /\ \A d \in Callers, i \in Frames : d # c \/ i # k => h[d][i] = frame[d][i]
    BY <1>0, <2>1 DEF Types
  <2>3. frame' = [h EXCEPT ![c][j] = q] /\ k # j
    BY <1>0
  <2> HIDE DEF h
  <2>4. /\ frame' \in [Callers -> [Frames -> Stands]] /\ frame'[c][j] = q
        /\ \A d \in Callers, i \in Frames : d # c \/ i # j => frame'[d][i] = h[d][i]
    BY <2>1, <2>2, <2>3
  <2> QED BY <2>1, <2>2, <2>3, <2>4
<1>2. /\ frame[c][k] \in Executing(k) /\ <<c, k>> \notin posted
      /\ \A i \in Frames : i > k => frame[c][i] \in {"none", "created"}
      /\ \A i \in Frames : i < k => frame[c][i] = "awaiting"
  BY ExecutedFrame
<1>3. /\ frame[c][k] # "posted" /\ frame[c][k] # "created" /\ "none" \notin Executing(k)
      /\ "awaiting" \notin Executing(j) /\ q # "posted" /\ q # "created"
  BY <1>2 DEF Executing
<1>4. frame[c][j] = "awaiting" /\ \A u \in Threads : run[u] # <<c, j>>
  BY <1>0, <1>2, <1>3, RestingFrame
<1>5. ASSUME NEW d \in Callers, NEW i \in Frames
      PROVE  /\ frame'[d][i] \in Executing(i)
                  <=> <<d, i>> = <<c, j>> \/ (frame[d][i] \in Executing(i) /\ run[t] # <<d, i>>)
             /\ <<d, i>> \in posted' <=> frame'[d][i] = "posted"
  <2>1. <<d, i>> \in posted <=> frame[d][i] = "posted"
    BY <1>0 DEF Placed
  <2>2. CASE d = c /\ i = k
    <3>1. <<d, i>> # <<c, j>>
      BY <1>0, <2>2, HandleNames
    <3> QED BY <1>1, <1>2, <1>3, <2>2, <3>1
  <2>3. CASE d = c /\ i = j
    BY <1>1, <1>3, <1>4, <2>1, <2>3
  <2>4. CASE d # c \/ (i # k /\ i # j)
    <3>1. <<d, i>> # <<c, k>> /\ <<d, i>> # <<c, j>>
      BY <2>4, HandleNames
    <3> QED BY <1>1, <2>1, <2>4, <3>1
  <2> QED BY <2>2, <2>3, <2>4
<1>6. Placed' /\ Alone'
  <2>1. GoesOn(t, <<c, j>>)
    BY <1>4, <1>5, Zenon DEF GoesOn
  <2> QED BY <2>1, StepKeepsPlaces
<1>7. Chain'
  <2> SUFFICES ASSUME NEW d \in Callers, NEW i \in Frames
               PROVE  /\ frame'[d][i] \notin {"none", "created"} =>
                           \A l \in Frames : l < i => frame'[d][l] = "awaiting"
                      /\ frame'[d][i] = "created" <=> i = 1 /\ frame'[d][0] = "body"
                      /\ frame'[d][i] = "posted" => i > 0
    BY Zenon DEF Chain
  <2>1. CASE d # c
    <3>1. \A l \in Frames : frame'[d][l] = frame[d][l]
      BY <1>1, <2>1
    <3>2. /\ frame[d][i] \notin {"none", "created"} => \A l \in Frames : l < i => frame[d][l] = "awaiting"
          /\ frame[d][i] = "created" <=> i = 1 /\ frame[d][0] = "body"
          /\ frame[d][i] = "posted" => i > 0
      BY <1>0 DEF Chain
    <3> QED BY <3>1, <3>2, Depths, Zenon
  <2>2. CASE d = c
    <3>0. \A m \in Frames :
            /\ frame[c][m] \notin {"none", "created"} => \A l \in Frames : l < m => frame[c][l] = "awaiting"
            /\ frame[c][m] = "created" <=> m = 1 /\ frame[c][0] = "body"
            /\ frame[c][m] = "posted" => m > 0
      BY <1>0 DEF Chain
    <3>1. ASSUME frame'[c][i] \notin {"none", "created"}, NEW l \in Frames, l < i
          PROVE  frame'[c][l] = "awaiting"
      BY <1>1, <1>2, <1>3, <3>0, <3>1, Depths
    <3>2. frame'[c][i] = "created" <=> i = 1 /\ frame'[c][0] = "body"
      BY <1>1, <1>2, <1>3, <3>0, Depths
    <3>3. frame'[c][i] = "posted" => i > 0
      BY <1>1, <1>2, <1>3, <3>0, Depths
    <3> QED BY <2>2, <3>1, <3>2, <3>3, Zenon
  <2> QED BY <2>1, <2>2, Zenon
<1> QED BY <1>1, <1>6, <1>7

\* sync_wait makes its two frames and begins the runner.
LEMMA StartKeepsPlaces ==
  ASSUME Inv, NEW c \in Callers, sync_wait(c)
  PROVE  frame' \in [Callers -> [Frames -> Stands]] /\ Placed' /\ Alone' /\ Chain'
<1>0. Types /\ Placed /\ Alone /\ Chain /\ CallersPlaces /\ c \in Threads
  BY DEF Inv, Threads
<1>1. /\ frame' \in [Callers -> [Frames -> Stands]]
      /\ frame'[c][0] = "body" /\ frame'[c][1] = "created"
      /\ \A d \in Callers, i \in Frames : d # c \/ (i # 0 /\ i # 1) => frame'[d][i] = frame[d][i]
  <2>1. "body" \in Stands /\ "created" \in Stands /\ 0 \in Frames /\ 1 \in Frames
    BY Depths DEF Stands
  <2> DEFINE h == [frame EXCEPT ![c][0] = "body"]
  <2>2. /\ h \in [Callers -> [Frames -> Stands]] /\ h[c][0] = "body"
        /\ \A d \in Callers, i \in Frames : d # c \/ i # 0 => h[d][i] = frame[d][i]
    BY <1>0, <2>1 DEF Types
  <2>3. frame' = [h EXCEPT ![c][1] = "created"] /\ 0 # 1
    BY <1>0 DEF sync_wait
  <2> HIDE DEF h
  <2>4. /\ frame' \in [Callers -> [Frames -> Stands]] /\ frame'[c][1] = "created"
        /\ \A d \in Callers, i \in Frames : d # c \/ i # 1 => frame'[d][i] = h[d][i]
    BY <2>1, <2>2, <2>3
  <2> QED BY <2>1, <2>2, <2>3, <2>4
<1>2. /\ run[c] = Idle /\ \A i \in Frames : frame[c][i] = "none"
      /\ run' = [run EXCEPT ![c] = <<c, 0>>] /\ UNCHANGED posted
  BY <1>0 DEF sync_wait, CallersPlaces
<1>3. \A i \in Frames : "body" \in Executing(i) /\ "none" \notin Executing(i) /\ "created" \notin Executing(i)
  BY DEF Executing
<1>4. \A u \in Threads : run[u] # <<c, 0>>
  BY <1>2, <1>3, Depths, RestingFrame
<1>5. ASSUME NEW d \in Callers, NEW i \in Frames
      PROVE  /\ frame'[d][i] \in Executing(i)
                  <=> <<d, i>> = <<c, 0>> \/ (frame[d][i] \in Executing(i) /\ run[c] # <<d, i>>)
             /\ <<d, i>> \in posted' <=> frame'[d][i] = "posted"
  <2>1. <<d, i>> # Idle /\ (<<d, i>> \in posted <=> frame[d][i] = "posted")
    BY <1>0, HandleNames DEF Placed
  <2>2. CASE d = c /\ i = 0
    BY <1>1, <1>2, <1>3, <2>1, <2>2
  <2>3. CASE d = c /\ i = 1
    <3>1. <<d, i>> # <<c, 0>>
      BY <2>3, HandleNames, Depths
    <3> QED BY <1>1, <1>2, <1>3, <2>1, <2>3, <3>1
  <2>4. CASE d # c \/ (i # 0 /\ i # 1)
    <3>1. <<d, i>> # <<c, 0>>
      BY <2>4, HandleNames, Depths
    <3> QED BY <1>1, <1>2, <2>1, <2>4, <3>1
  <2> QED BY <2>2, <2>3, <2>4
<1>6. Placed' /\ Alone'
  <2>1. GoesOn(c, <<c, 0>>)
    BY <1>2, <1>4, <1>5 DEF GoesOn
  <2> QED BY <1>0, <2>1, StepKeepsPlaces
<1>7. Chain'
  <2> SUFFICES ASSUME NEW d \in Callers, NEW i \in Frames
               PROVE  /\ frame'[d][i] \notin {"none", "created"} =>
                           \A j \in Frames : j < i => frame'[d][j] = "awaiting"
                      /\ frame'[d][i] = "created" <=> i = 1 /\ frame'[d][0] = "body"
                      /\ frame'[d][i] = "posted" => i > 0
    BY DEF Chain
  <2>1. CASE d # c
    <3>1. \A l \in Frames : frame'[d][l] = frame[d][l]
      BY <1>1, <2>1
    <3>2. /\ frame[d][i] \notin {"none", "created"} => \A l \in Frames : l < i => frame[d][l] = "awaiting"
          /\ frame[d][i] = "created" <=> i = 1 /\ frame[d][0] = "body"
          /\ frame[d][i] = "posted" => i > 0
      BY <1>0 DEF Chain
    <3> QED BY <3>1, <3>2, Depths, Zenon
  <2>2. CASE d = c
    <3>0. \A m \in Frames :
            /\ frame[c][m] \notin {"none", "created"} => \A l \in Frames : l < m => frame[c][l] = "awaiting"
            /\ frame[c][m] = "created" <=> m = 1 /\ frame[c][0] = "body"
            /\ frame[c][m] = "posted" => m > 0
      BY <1>0 DEF Chain
    <3>1. ASSUME frame'[c][i] \notin {"none", "created"}, NEW l \in Frames, l < i
          PROVE  frame'[c][l] = "awaiting"
      BY <1>1, <1>2, <3>0, <3>1, Depths
    <3>2. frame'[c][i] = "created" <=> i = 1 /\ frame'[c][0] = "body"
      BY <1>1, <1>2, <3>0, Depths
    <3>3. frame'[c][i] = "posted" => i > 0
      BY <1>1, <1>2, <3>0, Depths
    <3> QED BY <2>2, <3>1, <3>2, <3>3, Zenon
  <2> QED BY <2>1, <2>2
<1> QED BY <1>1, <1>6, <1>7

FramesKept == frame' \in [Callers -> [Frames -> Stands]] /\ Placed' /\ Alone' /\ Chain'

\* Every step leaves every frame in its one place and the chains in order.
LEMMA PlacesKept == ASSUME Inv, [Next \/ Ended]_vars PROVE FramesKept
<1>0. Types /\ Placed /\ Alone /\ Chain
  BY DEF Inv
<1> USE DEF Executes
<1>1. ASSUME UNCHANGED <<frame, run, posted>> PROVE FramesKept
  <2>1. frame' \in [Callers -> [Frames -> Stands]]
    BY <1>0, <1>1 DEF Types
  <2>2. Placed'
    BY <1>0, <1>1, Zenon DEF Placed
  <2>3. Alone' /\ Chain'
    BY <1>0, <1>1 DEF Alone, Chain
  <2> QED BY <2>1, <2>2, <2>3 DEF FramesKept
<1>2. ASSUME NEW t \in Threads, NEW c \in Callers, NEW k \in Frames, k > 0, run[t] = <<c, k>>,
             frame' = [frame EXCEPT ![c][k] = "final"], UNCHANGED <<run, posted>>
      PROVE  FramesKept
  <2>1. "final" \in Executing(k) /\ k # 0
    BY <1>2, Depths DEF Executing
  <2> QED BY <1>2, <2>1, StayKeepsPlaces, Zenon DEF FramesKept
<1>3. ASSUME NEW t \in Threads, NEW c \in Callers, NEW k \in Frames, co_await(t, c, k)
      PROVE  FramesKept
  BY <1>3, AwaitKeepsPlaces DEF FramesKept, Types
<1>4. ASSUME NEW t \in Threads, NEW c \in Callers, NEW k \in Frames,
             return_value(t, c, k) \/ return_void(t, c, k) \/ unhandled_exception(t, c, k)
      PROVE  FramesKept
  BY <1>2, <1>4 DEF return_value, return_void, unhandled_exception, Ends
<1>5. ASSUME NEW t \in Threads, NEW c \in Callers, NEW k \in Frames, schedule(t, c, k)
      PROVE  FramesKept
  <2>1. run[t] = <<c, k>> /\ k > 0 /\ k # 0
    BY <1>5, Depths DEF schedule
  <2>2. CASE posted' = posted \cup {<<c, k>>} /\ frame' = [frame EXCEPT ![c][k] = "posted"] /\ Resumed(t)
    <3>1. run' = [run EXCEPT ![t] = Idle]
      BY <2>2 DEF Resumed
    <3> QED BY <2>1, <2>2, <3>1, LeaveKeepsPlaces, Zenon DEF FramesKept
  <2>3. CASE UNCHANGED <<frame, posted, run>>
    BY <1>1, <2>3
  <2>4. CASE frame' = [frame EXCEPT ![c][k] = "final"] /\ UNCHANGED <<run, posted>>
    BY <1>2, <2>1, <2>4, Zenon
  <2> QED BY <1>5, <2>2, <2>3, <2>4 DEF schedule, post, Ends
<1>6. ASSUME NEW t \in Threads, NEW c \in Callers, NEW k \in Frames, final_suspend(t, c, k)
      PROVE  FramesKept
  <2> DEFINE j == k - 1
  <2>1. /\ run[t] = <<c, k>> /\ k > 0 /\ j \in Frames /\ k = j + 1 /\ j > 0
        /\ run' = [run EXCEPT ![t] = <<c, j>>] /\ UNCHANGED posted
    BY <1>6, Depths DEF final_suspend
  <2>2. \E q \in {"body", "final"} : frame' = [frame EXCEPT ![c][k] = "none", ![c][j] = q]
    BY <1>6 DEF final_suspend
  <2> HIDE DEF j
  <2>3. PICK q \in {"body", "final"} : frame' = [frame EXCEPT ![c][k] = "none", ![c][j] = q]
    BY <2>2, Zenon
  <2>4. q \in Executing(j)
    BY <2>1, <2>3 DEF Executing
  <2> QED BY <2>1, <2>3, <2>4, ReturnKeepsPlaces, Zenon DEF FramesKept
<1>7. ASSUME NEW t \in Threads, NEW c \in Callers, runner_stores(t, c) PROVE FramesKept
  <2>1. /\ run[t] = <<c, 1>> /\ 0 \in Frames /\ 1 \in Frames /\ 1 = 0 + 1 /\ 1 > 0
        /\ run' = [run EXCEPT ![t] = <<c, 0>>] /\ UNCHANGED posted
        /\ frame' = [frame EXCEPT ![c][1] = "none", ![c][0] = "notify"]
    BY <1>7, Depths DEF runner_stores
  <2>2. "notify" \in Executing(0)
    BY DEF Executing
  <2> QED BY <2>1, <2>2, ReturnKeepsPlaces, Zenon DEF FramesKept
<1>8. ASSUME NEW t \in Threads, NEW c \in Callers, runner_notifies(t, c) PROVE FramesKept
  <2>1. "return" \in Executing(0) /\ 0 \in Frames
    BY Depths DEF Executing
  <2> QED BY <1>8, <2>1, StayKeepsPlaces, Zenon DEF runner_notifies, FramesKept
<1>9. ASSUME NEW t \in Threads, NEW c \in Callers, runner_returns(t, c) PROVE FramesKept
  <2>1. /\ run[t] = <<c, 0>> /\ 0 \in Frames /\ ~(0 > 0) /\ frame[c][0] # "body"
        /\ run' = [run EXCEPT ![t] = Idle] /\ UNCHANGED posted
        /\ frame' = [frame EXCEPT ![c][0] = "final"]
    BY <1>9, Depths DEF runner_returns, Resumed
  <2> QED BY <2>1, LeaveKeepsPlaces, Zenon DEF FramesKept
<1>10. ASSUME NEW w \in Workers, NEW c \in Callers, NEW k \in Frames, worker_runs(w, c, k)
       PROVE  FramesKept
  <2>1. w \in Threads /\ frame[c][k] = "posted"
    BY <1>0, <1>10 DEF worker_runs, Placed, Threads
  <2> QED BY <1>10, <2>1, TakeKeepsPlaces DEF worker_runs, FramesKept
<1>11. ASSUME NEW c \in Callers, sync_wait(c) PROVE FramesKept
  BY <1>11, StartKeepsPlaces DEF FramesKept
<1>12. ASSUME NEW c \in Callers, wait(c) \/ wake_spurious(c) \/ destroy_runner(c) PROVE FramesKept
  BY <1>1, <1>12 DEF wait, wake_spurious, destroy_runner
<1>13. CASE Ended \/ UNCHANGED vars
  BY <1>1, <1>13 DEF Ended, vars
<1> QED BY <1>3, <1>4, <1>5, <1>6, <1>7, <1>8, <1>9, <1>10, <1>11, <1>12, <1>13
        DEF Next, Step, Serve, Call

\* What await_resume makes of a promise is never "no exception".
LEMMA AwaitedTypes ==
  ASSUME NEW c \in Callers, NEW p \in [exp : Exps, value : BOOLEAN]
  PROVE  Awaited(c, p) \in Exps \ {"none"}
BY DEF Awaited, await_resume, await_resume_void, Exps

\* The types are kept.
LEMMA TypesKept == ASSUME Inv, [Next \/ Ended]_vars PROVE Types'
<1>0. Types
  BY DEF Inv
<1>1. frame' \in [Callers -> [Frames -> Stands]]
  BY PlacesKept DEF FramesKept
<1> DEFINE Promises == [exp : Exps, value : BOOLEAN]
<1>2. /\ Fresh \in Promises /\ [Fresh EXCEPT !.value = TRUE] \in Promises
      /\ \A e \in Exps : [Fresh EXCEPT !.exp = e] \in Promises
  BY Zenon DEF Fresh, Exps
<1> USE DEF Executes
<1>3. ASSUME UNCHANGED <<promise, run, posted, at, ended>>, DOMAIN state' = DOMAIN state PROVE Types'
  BY <1>0, <1>1, <1>3 DEF Types
<1>4. ASSUME NEW c \in Callers, NEW k \in Frames, NEW p \in Promises, Ends(c, k, p),
             UNCHANGED <<run, posted, at, state>>
      PROVE  Types'
  BY <1>0, <1>1, <1>4 DEF Types, Ends
<1>5. ASSUME NEW t \in Threads, NEW c \in Callers, NEW k \in Frames, co_await(t, c, k) PROVE Types'
  BY <1>5, AwaitKeepsPlaces
<1>6. ASSUME NEW t \in Threads, NEW c \in Callers, NEW k \in Frames,
             return_value(t, c, k) \/ return_void(t, c, k) \/ unhandled_exception(t, c, k)
      PROVE  Types'
  BY <1>2, <1>4, <1>6 DEF return_value, return_void, unhandled_exception, Exps
<1>7. ASSUME NEW t \in Threads, NEW c \in Callers, NEW k \in Frames, schedule(t, c, k) PROVE Types'
  <2>1. CASE posted' = posted \cup {<<c, k>>} /\ Resumed(t) /\ UNCHANGED <<promise, ended, state>>
    BY <1>0, <1>1, <2>1, HandleNames DEF Types, Resumed
  <2>2. CASE UNCHANGED <<promise, ended, posted, run, at, state>>
    BY <1>3, <2>2
  <2>3. CASE Ends(c, k, [Fresh EXCEPT !.exp = "rejected"]) /\ UNCHANGED <<posted, run, at, state>>
    BY <1>2, <1>4, <2>3 DEF Exps
  <2> QED BY <1>7, <2>1, <2>2, <2>3 DEF schedule, post
<1>8. ASSUME NEW t \in Threads, NEW c \in Callers, NEW k \in Frames, final_suspend(t, c, k) PROVE Types'
  <2>1. /\ run' = [run EXCEPT ![t] = <<c, k - 1>>] /\ k - 1 \in Frames
        /\ UNCHANGED <<posted, at, state>>
    BY <1>8, Depths DEF final_suspend
  <2>2. run' \in [Threads -> Handles \cup {Idle}]
    BY <1>0, <2>1, HandleNames DEF Types
  <2>3. promise \in [Callers -> [Frames -> Promises]] /\ DOMAIN ended = Callers
    BY <1>0 DEF Types
  <2>4. CASE promise' = [promise EXCEPT ![c][k] = Fresh] /\ UNCHANGED ended
    BY <1>0, <1>1, <1>2, <2>1, <2>2, <2>3, <2>4 DEF Types
  <2>5. ASSUME NEW p \in Promises, promise' = [promise EXCEPT ![c][k] = Fresh, ![c][k - 1] = p],
               ended' = IF k = 2 THEN [ended EXCEPT ![c] = p.exp] ELSE ended
        PROVE  Types'
    <3> DEFINE h == [promise EXCEPT ![c][k] = Fresh]
    <3>1. h \in [Callers -> [Frames -> Promises]]
      BY <1>2, <2>3
    <3>2. promise' = [h EXCEPT ![c][k - 1] = p]
      BY <2>5
    <3> HIDE DEF h
    <3>3. promise' \in [Callers -> [Frames -> Promises]]
      BY <2>1, <3>1, <3>2
    <3>4. DOMAIN ended' = Callers
      BY <2>3, <2>5
    <3> QED BY <1>0, <1>1, <2>1, <2>2, <3>3, <3>4 DEF Types
  <2>6. [Fresh EXCEPT !.exp = Awaited(c, promise[c][k])] \in Promises
    BY <1>2, <2>3, AwaitedTypes
  <2> QED BY <1>8, <2>4, <2>5, <2>6 DEF final_suspend
<1>9. ASSUME NEW t \in Threads, NEW c \in Callers, runner_stores(t, c) PROVE Types'
  <2>1. run' \in [Threads -> Handles \cup {Idle}]
    BY <1>0, <1>9, HandleNames, Depths DEF runner_stores, Types
  <2>2. promise' \in [Callers -> [Frames -> Promises]]
    BY <1>0, <1>2, <1>9, Depths DEF runner_stores, Types
  <2>3. UNCHANGED <<posted, at, ended>> /\ DOMAIN state' = DOMAIN state
    BY <1>9 DEF runner_stores
  <2> QED BY <1>0, <1>1, <2>1, <2>2, <2>3 DEF Types
<1>10. ASSUME NEW t \in Threads, NEW c \in Callers, runner_notifies(t, c) PROVE Types'
  BY <1>0, <1>1, <1>10 DEF runner_notifies, Types
<1>11. ASSUME NEW t \in Threads, NEW c \in Callers, runner_returns(t, c) PROVE Types'
  BY <1>0, <1>1, <1>11 DEF runner_returns, Resumed, Types
<1>12. ASSUME NEW w \in Workers, NEW c \in Callers, NEW k \in Frames, worker_runs(w, c, k)
       PROVE  Types'
  <2>1. run' \in [Threads -> Handles \cup {Idle}] /\ posted' \subseteq Handles
    BY <1>0, <1>12, HandleNames, Zenon DEF worker_runs, Types, Threads
  <2> QED BY <1>0, <1>1, <1>12, <2>1 DEF worker_runs, Types
<1>13. ASSUME NEW c \in Callers, sync_wait(c) PROVE Types'
  <2>1. run' \in [Threads -> Handles \cup {Idle}]
    BY <1>0, <1>13, HandleNames, Depths DEF sync_wait, Types, Threads
  <2> QED BY <1>0, <1>1, <1>13, <2>1 DEF sync_wait, Types
<1>14. ASSUME NEW c \in Callers, wait(c) \/ wake_spurious(c) \/ destroy_runner(c) PROVE Types'
  BY <1>0, <1>1, <1>14, Zenon DEF wait, wake_spurious, destroy_runner, Types
<1>15. CASE Ended \/ UNCHANGED vars
  BY <1>3, <1>15 DEF Ended, vars
<1> QED BY <1>5, <1>6, <1>7, <1>8, <1>9, <1>10, <1>11, <1>12, <1>13, <1>14, <1>15
        DEF Next, Step, Serve, Call

\* A call whose frame executes or waits for the executor has begun.
LEMMA Begun ==
  ASSUME Inv, NEW c \in Callers, NEW k \in Frames,
         (\E t \in Threads : run[t] = <<c, k>>) \/ <<c, k>> \in posted
  PROVE  at[c] # "before"
<1>1. frame[c][k] \in Executing(k) \/ frame[c][k] = "posted"
  BY DEF Inv, Placed
<1>2. frame[c][k] # "none"
  BY <1>1 DEF Executing
<1> QED BY <1>2 DEF Inv, CallersPlaces

\* Callers are where they should be.
LEMMA CallersKept == ASSUME Inv, [Next \/ Ended]_vars PROVE CallersPlaces'
<1>0. Types /\ CallersPlaces /\ Callers \subseteq Threads
  BY DEF Inv, Threads
<1> USE DEF Executes
<1>1. ASSUME UNCHANGED <<frame, run, at, state>> PROVE CallersPlaces'
  BY <1>0, <1>1 DEF CallersPlaces
<1>2. ASSUME NEW c \in Callers, at[c] # "before", UNCHANGED <<at, state>>,
             \A d \in Callers : d # c => frame'[d] = frame[d],
             \A d \in Callers : run'[d] # Idle => run[d] # Idle
      PROVE  CallersPlaces'
  BY <1>0, <1>2 DEF CallersPlaces
<1>3. ASSUME NEW t \in Threads, NEW c \in Callers, NEW k \in Frames, run[t] = <<c, k>>
      PROVE  run[t] # Idle /\ at[c] # "before" /\ (t \in Callers => at[t] = "resume")
  <2>1. run[t] # Idle
    BY <1>3, HandleNames
  <2>2. \E u \in Threads : run[u] = <<c, k>>
    BY <1>3
  <2>3. at[c] # "before"
    BY <2>2, Begun
  <2> QED BY <1>0, <2>1, <2>3 DEF CallersPlaces
<1>4. ASSUME NEW t \in Threads, NEW c \in Callers, NEW k \in Frames,
             co_await(t, c, k) \/ final_suspend(t, c, k)
      PROVE  CallersPlaces'
  <2>1. /\ run[t] = <<c, k>> /\ UNCHANGED <<at, state>>
        /\ \A d \in Callers : d # c => frame'[d] = frame[d]
        /\ \A d \in Threads : d # t => run'[d] = run[d]
    BY <1>0, <1>4 DEF co_await, final_suspend, Types
  <2> QED BY <1>0, <1>2, <1>3, <2>1
<1>5. ASSUME NEW t \in Threads, NEW c \in Callers, NEW k \in Frames,
             return_value(t, c, k) \/ return_void(t, c, k) \/ unhandled_exception(t, c, k)
      PROVE  CallersPlaces'
  <2>1. /\ run[t] = <<c, k>> /\ UNCHANGED <<run, at, state>>
        /\ \A d \in Callers : d # c => frame'[d] = frame[d]
    BY <1>0, <1>5 DEF return_value, return_void, unhandled_exception, Ends, Types
  <2> QED BY <1>2, <1>3, <2>1
<1>6. ASSUME NEW t \in Threads, NEW c \in Callers, NEW k \in Frames, run[t] = <<c, k>>, Resumed(t),
             UNCHANGED state, \A d \in Callers : d # c => frame'[d] = frame[d]
      PROVE  CallersPlaces'
  <2>1. at[c] # "before" /\ (t \in Callers => at[t] = "resume")
    BY <1>3, <1>6
  <2>2. /\ run'[t] = Idle /\ \A d \in Threads : d # t => run'[d] = run[d]
        /\ \A d \in Callers : at'[d] = IF d = t THEN "lock" ELSE at[d]
    BY <1>0, <1>6 DEF Resumed, Types
  <2> QED BY <1>0, <1>6, <2>1, <2>2 DEF CallersPlaces
<1>7. ASSUME NEW t \in Threads, NEW c \in Callers, NEW k \in Frames, schedule(t, c, k)
      PROVE  CallersPlaces'
  <2>1. run[t] = <<c, k>> /\ UNCHANGED state /\ \A d \in Callers : d # c => frame'[d] = frame[d]
    BY <1>0, <1>7 DEF schedule, post, Ends, Types
  <2>2. CASE Resumed(t)
    BY <1>6, <2>1, <2>2
  <2>3. CASE UNCHANGED <<run, at>>
    BY <1>2, <1>3, <2>1, <2>3
  <2> QED BY <1>7, <2>2, <2>3 DEF schedule, post
<1>8. ASSUME NEW t \in Threads, NEW c \in Callers, runner_stores(t, c) PROVE CallersPlaces'
  <2>1. /\ run[t] = <<c, 1>> /\ UNCHANGED at /\ state'[c].done
        /\ \A d \in Callers : d # c => frame'[d] = frame[d] /\ state'[d] = state[d]
        /\ \A d \in Threads : d # t => run'[d] = run[d]
    BY <1>0, <1>8 DEF runner_stores, Types
  <2>2. at[c] # "before" /\ (t \in Callers => at[t] = "resume")
    BY <1>3, <2>1, Depths
  <2> QED BY <1>0, <2>1, <2>2 DEF CallersPlaces
<1>9. ASSUME NEW t \in Threads, NEW c \in Callers, runner_notifies(t, c) PROVE CallersPlaces'
  <2>1. /\ run[t] = <<c, 0>> /\ UNCHANGED <<run, state>>
        /\ \A d \in Callers : d # c => frame'[d] = frame[d]
        /\ \A d \in Callers : at'[d] = at[d] \/ (d = c /\ at[d] = "asleep" /\ at'[d] = "lock")
    BY <1>0, <1>9 DEF runner_notifies, Types
  <2>2. at[c] # "before"
    BY <1>3, <2>1, Depths
  <2> QED BY <1>0, <2>1, <2>2 DEF CallersPlaces
<1>10. ASSUME NEW t \in Threads, NEW c \in Callers, runner_returns(t, c) PROVE CallersPlaces'
  <2>1. /\ run[t] = <<c, 0>> /\ Resumed(t) /\ UNCHANGED state
        /\ \A d \in Callers : d # c => frame'[d] = frame[d]
    BY <1>0, <1>10 DEF runner_returns, Types
  <2> QED BY <1>6, <2>1, Depths
<1>11. ASSUME NEW w \in Workers, NEW c \in Callers, NEW k \in Frames, worker_runs(w, c, k)
       PROVE  CallersPlaces'
  <2>1. /\ <<c, k>> \in posted /\ UNCHANGED <<at, state>>
        /\ \A d \in Callers : d # c => frame'[d] = frame[d]
        /\ \A d \in Threads : d # w => run'[d] = run[d]
    BY <1>0, <1>11 DEF worker_runs, Types
  <2>2. at[c] # "before" /\ w \notin Callers
    BY <2>1, Begun, CoroAssumption
  <2> QED BY <1>0, <1>2, <2>1, <2>2
<1>12. ASSUME NEW c \in Callers, sync_wait(c) PROVE CallersPlaces'
  <2>1. /\ at[c] = "before" /\ at'[c] = "resume" /\ UNCHANGED state
        /\ \A d \in Callers : d # c => frame'[d] = frame[d] /\ at'[d] = at[d] /\ run'[d] = run[d]
    BY <1>0, <1>12 DEF sync_wait, Types
  <2> QED BY <1>0, <2>1 DEF CallersPlaces
<1>13. ASSUME NEW c \in Callers, wait(c) \/ wake_spurious(c) \/ destroy_runner(c) PROVE CallersPlaces'
  BY <1>0, <1>13 DEF wait, wake_spurious, destroy_runner, CallersPlaces, Types
<1>14. CASE Ended \/ UNCHANGED vars
  BY <1>1, <1>14 DEF Ended, vars
<1> QED BY <1>4, <1>5, <1>7, <1>8, <1>9, <1>10, <1>11, <1>12, <1>13, <1>14
        DEF Next, Step, Serve, Call

\* What is known of a call stays when neither its result nor its first two frames change
\* in a way that matters.
LEMMA SameTold ==
  ASSUME NEW d \in Callers, Told(d), state'[d] = state[d], ended'[d] = ended[d],
         frame'[d][0] \in {"notify", "return", "final"} <=> frame[d][0] \in {"notify", "return", "final"},
         frame'[d][1] = "final" => frame[d][1] = "final" /\ promise'[d][1] = promise[d][1]
  PROVE  Told(d)'
<1>1. Outcome(d)' = Outcome(d)
  BY DEF Outcome, sync_wait_result, sync_wait_void_result
<1>2. frame'[d][1] = "final" => Awaited(d, promise'[d][1]) = Awaited(d, promise[d][1])
  OBVIOUS
<1>3. state'[d].done <=> state[d].done
  OBVIOUS
<1> QED BY <1>1, <1>2, <1>3 DEF Told

\* A body ends: if it is the task's own, its promise holds how it ended.
LEMMA EndTells ==
  ASSUME Inv, NEW t \in Threads, NEW c \in Callers, NEW k \in Frames, k > 0, run[t] = <<c, k>>,
         NEW p, Awaited(c, p) = (IF p.exp = "none" THEN "value" ELSE p.exp),
         Ends(c, k, p), UNCHANGED state
  PROVE  Delivered'
<1>0. Types /\ Delivered /\ 0 \in Frames /\ 1 \in Frames /\ 0 < k /\ k # 0
  BY Depths DEF Inv
<1>1. frame[c][0] = "awaiting" /\ (1 < k => frame[c][1] = "awaiting")
  BY <1>0, ExecutedFrame, Zenon
<1>2. /\ frame'[c][k] = "final" /\ \A i \in Frames : i # k => frame'[c][i] = frame[c][i]
      /\ promise'[c][k] = p /\ \A i \in Frames : i # k => promise'[c][i] = promise[c][i]
      /\ \A d \in Callers : d # c => /\ frame'[d] = frame[d] /\ promise'[d] = promise[d]
                                     /\ ended'[d] = ended[d]
      /\ ended'[c] = IF k = 1 THEN (IF p.exp = "none" THEN "value" ELSE p.exp) ELSE ended[c]
  BY <1>0 DEF Types, Ends
<1>3. ASSUME NEW d \in Callers, d # c PROVE Told(d)'
  BY <1>0, <1>2, <1>3, SameTold DEF Delivered
<1>4. CASE k = 1
  <2>1. ~state'[c].done /\ frame'[c][0] = "awaiting"
    BY <1>0, <1>1, <1>2, <1>4 DEF Delivered, Told
  <2>2. Awaited(c, promise'[c][1]) = ended'[c]
    BY <1>2, <1>4
  <2>3. Told(c)'
    BY <2>1, <2>2 DEF Told
  <2> QED BY <1>3, <2>3 DEF Delivered
<1>5. CASE k # 1
  <2>1. frame'[c][1] = frame[c][1] /\ frame'[c][0] = frame[c][0] /\ promise'[c][1] = promise[c][1]
    BY <1>0, <1>2, <1>5
  <2>2. ended'[c] = ended[c] /\ state'[c] = state[c] /\ Told(c)
    BY <1>0, <1>2, <1>5 DEF Delivered
  <2>3. Told(c)'
    BY <2>1, <2>2, SameTold
  <2> QED BY <1>3, <2>3 DEF Delivered
<1> QED BY <1>4, <1>5

\* An awaited frame other than the task's own ends: its awaiter goes on, or ends with the
\* exception it was given.
LEMMA ResumeTells ==
  ASSUME Inv, NEW t \in Threads, NEW c \in Callers, NEW k \in Frames, final_suspend(t, c, k)
  PROVE  Delivered'
<1>0. Types /\ Delivered /\ 0 \in Frames /\ 1 \in Frames
  BY Depths DEF Inv
<1>1. /\ run[t] = <<c, k>> /\ k > 1 /\ k \in Nat /\ k - 1 \in Frames /\ UNCHANGED state
      /\ k # 0 /\ k # 1 /\ k - 1 # 0
  BY Depths DEF final_suspend, Executes
<1>2. frame[c][0] = "awaiting" /\ frame[c][1] = "awaiting"
  <2>1. 0 < k /\ 1 < k
    BY <1>1
  <2>2. \A i \in Frames : i < k => frame[c][i] = "awaiting"
    BY <1>1, ExecutedFrame, Zenon
  <2> QED BY <1>0, <2>1, <2>2
<1>3. /\ frame'[c][0] = frame[c][0]
      /\ k - 1 # 1 => frame'[c][1] = frame[c][1] /\ ended'[c] = ended[c]
      /\ \A d \in Callers : d # c => /\ frame'[d] = frame[d] /\ promise'[d] = promise[d]
                                     /\ ended'[d] = ended[d]
  BY <1>0, <1>1 DEF Types, final_suspend
<1>4. ASSUME NEW d \in Callers, d # c PROVE Told(d)'
  BY <1>0, <1>1, <1>3, <1>4, SameTold DEF Delivered
<1>5. Told(c) /\ ~state'[c].done
  BY <1>0, <1>1, <1>2 DEF Delivered, Told
<1>6. CASE k - 1 # 1
  <2>1. Told(c)'
    BY <1>1, <1>2, <1>3, <1>5, <1>6, SameTold
  <2> QED BY <1>4, <2>1 DEF Delivered
<1>7. CASE k - 1 = 1
  <2> DEFINE e == Awaited(c, promise[c][k])
             p == [Fresh EXCEPT !.exp = e]
  <2>1. e \in Exps \ {"none"}
    BY <1>0, AwaitedTypes DEF Types
  <2>2. Awaited(c, p) = e
    <3> HIDE DEF e
    <3>1. p.exp = e /\ e # "none"
      BY <2>1 DEF Fresh
    <3> QED BY <3>1 DEF Awaited, await_resume, await_resume_void
  <2>3. CASE frame' = [frame EXCEPT ![c][k] = "none", ![c][k - 1] = "body"]
    <3>1. frame'[c][1] = "body"
      BY <1>0, <1>1, <1>7, <2>3 DEF Types
    <3>2. Told(c)'
      BY <1>2, <1>3, <1>5, <3>1 DEF Told
    <3> QED BY <1>4, <3>2 DEF Delivered
  <2>4. CASE /\ promise' = [promise EXCEPT ![c][k] = Fresh, ![c][k - 1] = p]
             /\ ended' = IF k = 2 THEN [ended EXCEPT ![c] = p.exp] ELSE ended
    <3>1. k = 2 /\ p.exp = e
      BY <1>1, <1>7 DEF Fresh
    <3> HIDE DEF p, e
    <3>2. promise'[c][1] = p
      BY <1>0, <1>1, <1>7, <2>4 DEF Types
    <3>3. ended'[c] = e
      BY <1>0, <2>4, <3>1 DEF Types
    <3>4. Awaited(c, promise'[c][1]) = ended'[c]
      BY <2>2, <3>2, <3>3
    <3>5. Told(c)'
      BY <1>2, <1>3, <1>5, <3>4, Zenon DEF Told
    <3> QED BY <1>4, <3>5 DEF Delivered
  <2> QED BY <2>3, <2>4 DEF final_suspend
<1> QED BY <1>6, <1>7

\* The runner stores what its await gave it.
LEMMA StoreTells ==
  ASSUME Inv, NEW t \in Threads, NEW c \in Callers, runner_stores(t, c)
  PROVE  Delivered'
<1>0. Types /\ Delivered /\ 0 \in Frames /\ 1 \in Frames
  BY Depths DEF Inv
<1> DEFINE got == Awaited(c, promise[c][1])
<1>1. got = ended[c] /\ got # "none"
  <2>1. got = ended[c]
    BY <1>0 DEF runner_stores, Executes, Delivered, Told
  <2>2. promise[c][1] \in [exp : Exps, value : BOOLEAN]
    BY <1>0 DEF Types
  <2> QED BY <2>1, <2>2, AwaitedTypes
<1>2. /\ frame'[c][0] = "notify" /\ frame'[c][1] = "none" /\ UNCHANGED ended
      /\ \A d \in Callers : d # c => /\ frame'[d] = frame[d] /\ promise'[d] = promise[d]
                                     /\ state'[d] = state[d]
  BY <1>0 DEF runner_stores, Types
<1>3. state'[c] = [done |-> TRUE, result |-> got = "value" /\ c \notin VoidCalls,
                   exception |-> IF got = "value" THEN "none" ELSE got]
  BY <1>0 DEF runner_stores, Types
<1> HIDE DEF got
<1>4. state'[c].done /\ Outcome(c)' = got
  <2>1. CASE got = "value"
    <3>1. /\ state'[c].exception = "none" /\ state'[c].done = TRUE
          /\ state'[c].result = (got = "value" /\ c \notin VoidCalls)
      BY <1>3, <2>1
    <3>2. CASE c \in VoidCalls
      BY <2>1, <3>1, <3>2 DEF Outcome, sync_wait_void_result
    <3>3. CASE c \notin VoidCalls
      <4>1. state'[c].result
        BY <2>1, <3>1, <3>3, Zenon
      <4> QED BY <2>1, <3>1, <3>3, <4>1 DEF Outcome, sync_wait_result
    <3> QED BY <3>2, <3>3
  <2>2. CASE got # "value"
    BY <1>1, <1>3, <2>2 DEF Outcome, sync_wait_result, sync_wait_void_result
  <2> QED BY <2>1, <2>2
<1>5. Told(c)'
  BY <1>1, <1>2, <1>4 DEF Told
<1>6. ASSUME NEW d \in Callers, d # c PROVE Told(d)'
  BY <1>0, <1>2, <1>6, SameTold DEF Delivered
<1> QED BY <1>5, <1>6 DEF Delivered

\* Results are delivered by every step.
LEMMA DeliveredKept == ASSUME Inv, [Next \/ Ended]_vars PROVE Delivered'
<1>0. Types /\ Delivered /\ 0 \in Frames /\ 1 \in Frames
  BY Depths DEF Inv
<1> USE DEF Executes
<1>1. ASSUME UNCHANGED <<promise, state, ended>>,
             \A d \in Callers :
               /\ frame'[d][0] \in {"notify", "return", "final"}
                    <=> frame[d][0] \in {"notify", "return", "final"}
               /\ frame'[d][1] = "final" => frame[d][1] = "final"
      PROVE  Delivered'
  <2>1. ASSUME NEW d \in Callers PROVE Told(d)'
    <3>1. /\ state'[d] = state[d] /\ ended'[d] = ended[d] /\ promise'[d][1] = promise[d][1]
          /\ Told(d)
      BY <1>0, <1>1 DEF Delivered
    <3> QED BY <1>1, <3>1, SameTold
  <2> QED BY <2>1 DEF Delivered
<1>2. ASSUME NEW t \in Threads, NEW c \in Callers, NEW k \in Frames, co_await(t, c, k)
      PROVE  Delivered'
  <2>1. /\ frame[c][k] = "body" /\ UNCHANGED <<promise, state, ended>>
        /\ \A d \in Callers : d # c => frame'[d] = frame[d]
        /\ k \in Nat /\ k + 1 \in Frames
    BY <1>0, <1>2, Depths DEF co_await, Types
  <2>2. /\ frame'[c][k] = "awaiting" /\ frame'[c][k + 1] = "body"
        /\ \A i \in Frames : i # k /\ i # k + 1 => frame'[c][i] = frame[c][i]
    <3>1. /\ frame' = [frame EXCEPT ![c][k] = "awaiting", ![c][k + 1] = "body"]
          /\ frame \in [Callers -> [Frames -> Stands]]
      BY <1>0, <1>2 DEF co_await, Types
    <3> QED BY <2>1, <3>1
  <2> QED BY <1>0, <1>1, <2>1, <2>2
<1>3. ASSUME NEW t \in Threads, NEW c \in Callers, NEW k \in Frames, NEW p \in Stands \ {"final"}, k > 0,
             frame' = [frame EXCEPT ![c][k] = p], UNCHANGED <<promise, state, ended>>
      PROVE  Delivered'
  <2>1. /\ frame'[c][k] = p /\ \A i \in Frames : i # k => frame'[c][i] = frame[c][i]
        /\ \A d \in Callers : d # c => frame'[d] = frame[d]
        /\ k # 0
    BY <1>0, <1>3, Depths DEF Types
  <2> QED BY <1>0, <1>1, <1>3, <2>1
<1>4. ASSUME NEW e \in Exps \ {"none"}, NEW c \in Callers
      PROVE  LET p == [Fresh EXCEPT !.exp = e]
             IN  Awaited(c, p) = IF p.exp = "none" THEN "value" ELSE p.exp
  BY DEF Fresh, Awaited, await_resume, await_resume_void
<1>5. ASSUME NEW t \in Threads, NEW c \in Callers, NEW k \in Frames,
             return_value(t, c, k) \/ return_void(t, c, k) \/ unhandled_exception(t, c, k)
      PROVE  Delivered'
  <2>1. run[t] = <<c, k>> /\ k > 0 /\ UNCHANGED state
    BY <1>5 DEF return_value, return_void, unhandled_exception
  <2>2. CASE return_value(t, c, k)
    <3> DEFINE p == [Fresh EXCEPT !.value = TRUE]
    <3>1. Awaited(c, p) = IF p.exp = "none" THEN "value" ELSE p.exp
      BY <2>2 DEF return_value, Fresh, Awaited, await_resume
    <3>2. Ends(c, k, p)
      BY <2>2 DEF return_value
    <3> QED BY <2>1, <3>1, <3>2, EndTells, Zenon
  <2>3. CASE return_void(t, c, k)
    <3>1. Awaited(c, Fresh) = IF Fresh.exp = "none" THEN "value" ELSE Fresh.exp
      BY <2>3 DEF return_void, Fresh, Awaited, await_resume_void
    <3>2. Ends(c, k, Fresh)
      BY <2>3 DEF return_void
    <3> QED BY <2>1, <3>1, <3>2, EndTells
  <2>4. CASE unhandled_exception(t, c, k)
    <3>1. Ends(c, k, [Fresh EXCEPT !.exp = "thrown"])
      BY <2>4 DEF unhandled_exception
    <3>2. "thrown" \in Exps \ {"none"}
      BY DEF Exps
    <3> QED BY <1>4, <2>1, <3>1, <3>2, EndTells, Zenon
  <2> QED BY <1>5, <2>2, <2>3, <2>4
<1>6. ASSUME NEW t \in Threads, NEW c \in Callers, NEW k \in Frames, schedule(t, c, k) PROVE Delivered'
  <2>1. run[t] = <<c, k>> /\ k > 0 /\ UNCHANGED state
    BY <1>6 DEF schedule
  <2>2. CASE frame' = [frame EXCEPT ![c][k] = "posted"] /\ UNCHANGED <<promise, ended>>
    BY <1>3, <2>1, <2>2, Zenon DEF Stands
  <2>3. CASE UNCHANGED <<frame, promise, ended>>
    BY <1>1, <2>1, <2>3
  <2>4. CASE Ends(c, k, [Fresh EXCEPT !.exp = "rejected"])
    <3>1. "rejected" \in Exps \ {"none"}
      BY DEF Exps
    <3> QED BY <1>4, <2>1, <2>4, <3>1, EndTells, Zenon
  <2> QED BY <1>6, <2>2, <2>3, <2>4 DEF schedule, post
<1>7. ASSUME NEW t \in Threads, NEW c \in Callers, runner_notifies(t, c) \/ runner_returns(t, c)
      PROVE  Delivered'
  <2>1. /\ frame[c][0] \in {"notify", "return"} /\ frame'[c][0] \in {"return", "final"}
        /\ frame'[c][1] = frame[c][1] /\ UNCHANGED <<promise, state, ended>>
        /\ \A d \in Callers : d # c => frame'[d] = frame[d]
    BY <1>0, <1>7 DEF runner_notifies, runner_returns, Types
  <2> QED BY <1>0, <1>1, <2>1
<1>8. ASSUME NEW w \in Workers, NEW c \in Callers, NEW k \in Frames, worker_runs(w, c, k)
      PROVE  Delivered'
  <2>1. w \in Threads /\ k > 0
    BY <1>8 DEF worker_runs, Inv, Placed, Chain, Threads
  <2>2. CASE frame' = [frame EXCEPT ![c][k] = "body"]
    BY <1>3, <1>8, <2>1, <2>2, Zenon DEF worker_runs, Stands
  <2>3. CASE UNCHANGED frame
    BY <1>1, <1>8, <2>3 DEF worker_runs
  <2> QED BY <1>8, <2>2, <2>3 DEF worker_runs
<1>9. ASSUME NEW c \in Callers, sync_wait(c) PROVE Delivered'
  <2>1. /\ frame[c][0] = "none" /\ frame'[c][0] = "body" /\ frame'[c][1] = "created"
        /\ UNCHANGED <<promise, state, ended>>
        /\ \A d \in Callers : d # c => frame'[d] = frame[d]
    BY <1>0, <1>9 DEF sync_wait, Types, Inv, CallersPlaces
  <2> QED BY <1>0, <1>1, <2>1
<1>10. ASSUME NEW c \in Callers, wait(c) \/ wake_spurious(c) \/ destroy_runner(c) PROVE Delivered'
  BY <1>1, <1>10 DEF wait, wake_spurious, destroy_runner
<1>11. CASE Ended \/ UNCHANGED vars
  BY <1>1, <1>11 DEF Ended, vars
<1> QED BY <1>2, <1>5, <1>6, <1>7, <1>8, <1>9, <1>10, <1>11, ResumeTells, StoreTells
        DEF Next, Step, Serve, Call
-----------------------------------------------------------------------------
\* The invariant behind the theorems below, for any calls, workers, depth and awaits.
THEOREM CoroInvariant == Spec => []Inv
<1>1. Inv /\ [Next \/ Ended]_vars => Inv'
  BY PlacesKept, TypesKept, CallersKept, DeliveredKept DEF Inv, FramesKept
<1> QED BY InitInv, <1>1, PTL DEF Spec

\* Every coroutine that executes does so on one thread, and every one that waits for the
\* executor is with it, once.
THEOREM FramesHaveOnePlace == Spec => []OnePlaceToRun
<1>1. ASSUME Inv PROVE OnePlaceToRun
  <2>0. Placed /\ Alone
    BY <1>1 DEF Inv
  <2>1. ASSUME NEW h \in Handles
        PROVE  LET place   == frame[h[1]][h[2]]
                   runners == {t \in Threads : run[t] = h}
               IN IF h \in posted THEN place = "posted" /\ runners = {}
                  ELSE /\ place # "posted"
                       /\ Cardinality(runners) =
                            IF place \in {"body", "notify", "return"} \/ (place = "final" /\ h[2] > 0)
                            THEN 1 ELSE 0
    <3> DEFINE runners == {t \in Threads : run[t] = h}
    <3>0. PICK c \in Callers, k \in Frames : h = <<c, k>>
      BY DEF Handles
    <3> HIDE DEF runners
    <3>1. /\ frame[c][k] \in Executing(k) <=> \E t \in Threads : run[t] = <<c, k>>
          /\ <<c, k>> \in posted <=> frame[c][k] = "posted"
      BY <2>0 DEF Placed
    <3>2. frame[c][k] \in Executing(k) <=>
            frame[c][k] \in {"body", "notify", "return"} \/ (frame[c][k] = "final" /\ k > 0)
      BY DEF Executing
    <3> DEFINE Fits == IF <<c, k>> \in posted THEN frame[c][k] = "posted" /\ runners = {}
                       ELSE /\ frame[c][k] # "posted"
                            /\ Cardinality(runners) =
                                 IF frame[c][k] \in {"body", "notify", "return"}
                                      \/ (frame[c][k] = "final" /\ k > 0)
                                 THEN 1 ELSE 0
    <3>3. ASSUME frame[c][k] \in Executing(k) PROVE Fits
      <4>1. PICK t \in Threads : run[t] = <<c, k>>
        BY <3>1, <3>3
      <4>2. runners = {t}
        BY <2>0, <3>0, <4>1, HandleNames DEF Alone, runners
      <4>3. Cardinality(runners) = 1
        BY <4>2, FS_Singleton
      <4>4. frame[c][k] # "posted"
        BY <3>2, <3>3
      <4>5. <<c, k>> \notin posted
        BY <3>1, <4>4
      <4> QED BY <3>2, <3>3, <4>3, <4>4, <4>5
    <3>4. ASSUME frame[c][k] \notin Executing(k) PROVE Fits
      <4>1. runners = {}
        BY <3>0, <3>1, <3>4 DEF runners
      <4>2. Cardinality(runners) = 0
        BY <4>1, FS_EmptySet
      <4> QED BY <3>1, <3>2, <3>4, <4>1, <4>2
    <3>5. h[1] = c /\ h[2] = k
      BY <3>0
    <3> QED BY <3>0, <3>3, <3>4, <3>5 DEF runners
  <2> QED BY <2>1, Zenon DEF OnePlaceToRun
<1> QED BY <1>1, CoroInvariant, PTL

\* sync_wait returns what its task ended with.
THEOREM ResultsAreDelivered == Spec => []ResultDelivered
<1>1. Inv => ResultDelivered
  BY DEF Inv, CallersPlaces, Delivered, Told, ResultDelivered
<1> QED BY <1>1, CoroInvariant, PTL

\* When sync_wait has returned only its runner may be left, past the point where it
\* published the result.
THEOREM OnlyTheRunnerIsLeft == Spec => []RunnerRaceWindow
<1>1. ASSUME Inv, NEW c \in Callers, at[c] = "returned"
      PROVE  /\ \A k \in 1..Depth : frame[c][k] = "none"
             /\ frame[c][0] \in {"notify", "return", "final"} /\ run[c] # <<c, 0>>
  <2>1. frame[c][0] \in {"notify", "return", "final"}
    BY <1>1 DEF Inv, CallersPlaces, Delivered, Told
  <2>2. run[c] # <<c, 0>>
    <3>1. run[c] = Idle
      BY <1>1 DEF Inv, CallersPlaces
    <3>2. <<c, 0>> # Idle
      BY HandleNames, Depths
    <3> QED BY <3>1, <3>2
  <2>3. ASSUME NEW k \in 1..Depth PROVE frame[c][k] = "none"
    <3>1. k \in Frames /\ 0 \in Frames /\ 0 < k
      BY CoroAssumption, Depths DEF Frames
    <3> QED BY <1>1, <2>1, <3>1 DEF Inv, Chain
  <2> QED BY <2>1, <2>2, <2>3
<1>2. Inv => RunnerRaceWindow
  BY <1>1 DEF RunnerRaceWindow
<1> QED BY <1>2, CoroInvariant, PTL
-----------------------------------------------------------------------------
Inner == {"inner_asleep", "woken", "expired"}

TimerTypes ==
  /\ m_pending \in BOOLEAN /\ m_cancelRequested \in BOOLEAN /\ m_stopping \in BOOLEAN
  /\ waits \in 0..MaxWaits
  /\ cancelled \subseteq 1..waits

\* A stored handler is that of the newest wait, which has no result yet.
HandlerIsNewest ==
  /\ m_pending <=> m_handler # 0
  /\ m_pending => m_handler = waits
  /\ \A d \in decided : d[1] <= waits /\ (m_pending => d[1] # waits)

\* A cancel of the pending wait stays noted until the loop settles it.
CancelNoted == (m_pending /\ m_handler \in cancelled) => m_cancelRequested

\* The inner wait's deadline is the expiry time unless the version tells otherwise.
LoopIsCurrent ==
  /\ version <= m_version
  /\ ~m_stopping => m_version <= MaxVersion
  /\ (loop \in Inner /\ version = m_version) => deadline = m_expiry
  /\ loop = "expired" => deadline <= now

TimerInv ==
  /\ TypeOK /\ TimerTypes /\ HandlerIsNewest /\ CancelNoted /\ LoopIsCurrent
  /\ OneResultPerWait /\ CancelWins /\ NoWaitForgotten /\ InnerMeansPending

Pairs == (1..MaxWaits) \X {"expired", "cancelled"}

\* The loop settles the pending wait: expired only if no cancel was noted.
LEMMA SettleKeepsInv ==
  ASSUME TimerInv, m_pending, ~m_stopping, NEW result \in {"expired", "cancelled"},
         result = "expired" => ~m_cancelRequested,
         Settle(result), UNCHANGED <<callVars, outerVars>>
  PROVE  TimerInv'
<1>1. /\ m_handler = waits /\ waits \in 1..MaxWaits
      /\ \A d \in decided : d[1] # waits
      /\ decided' = decided \cup {<<waits, result>>}
      /\ m_pending' = FALSE /\ m_handler' = 0 /\ loop' = "fire"
      /\ UNCHANGED <<m_expiry, m_stopping, m_version, deadline, version, waits, cancelled, now>>
      /\ m_cancelRequested' \in BOOLEAN
  <2>1. m_handler = waits /\ m_handler # 0 /\ \A d \in decided : d[1] # waits
    BY DEF TimerInv, HandlerIsNewest
  <2>2. waits \in 1..MaxWaits
    BY <2>1, TimerAssumption DEF TimerInv, TimerTypes
  <2>3. /\ decided' = decided \cup {<<m_handler, result>>}
        /\ m_pending' = FALSE /\ m_handler' = 0 /\ loop' = "fire"
        /\ UNCHANGED <<m_expiry, m_stopping, m_version, deadline, version>>
    BY DEF Settle, Clear
  <2>4. UNCHANGED <<waits, cancelled, now>>
    BY DEF callVars, outerVars
  <2>5. m_cancelRequested' \in BOOLEAN
    BY Zenon DEF Settle, TimerInv, TimerTypes
  <2> QED BY <2>1, <2>2, <2>3, <2>4, <2>5
<1>2. result = "expired" => waits \notin cancelled
  BY <1>1 DEF TimerInv, CancelNoted
<1>3. <<waits, result>> \in Pairs
  BY <1>1 DEF Pairs
<1>4. TypeOK'
  BY <1>1, <1>3, TimerAssumption DEF TimerInv, TypeOK, Pairs
<1>5. TimerTypes' /\ CancelNoted' /\ LoopIsCurrent' /\ InnerMeansPending'
  BY <1>1, Zenon DEF TimerInv, TimerTypes, CancelNoted, LoopIsCurrent, InnerMeansPending, Inner
<1>6. \A d \in decided' : d[1] <= waits
  BY <1>1 DEF TimerInv, HandlerIsNewest, TimerTypes
<1>7. HandlerIsNewest'
  BY <1>1, <1>6 DEF HandlerIsNewest
<1>8. OneResultPerWait'
  BY <1>1 DEF TimerInv, OneResultPerWait
<1>9. CancelWins'
  <2> SUFFICES ASSUME NEW w \in cancelled PROVE <<w, "expired">> \notin decided'
    BY <1>1, Zenon DEF CancelWins
  <2>1. <<w, "expired">> \notin decided
    BY DEF TimerInv, CancelWins
  <2> QED BY <2>1, <1>1, <1>2
<1>10. NoWaitForgotten'
  <2> SUFFICES ASSUME NEW w \in 1..waits PROVE \E d \in decided' : d[1] = w
    BY <1>1 DEF NoWaitForgotten
  <2>1. CASE w = waits
    <3>1. <<waits, result>> \in decided'
      BY <1>1
    <3> QED BY <2>1, <3>1
  <2>2. CASE w # waits
    BY <2>2, <1>1 DEF TimerInv, NoWaitForgotten
  <2> QED BY <2>1, <2>2
<1> QED BY <1>4, <1>5, <1>7, <1>8, <1>9, <1>10 DEF TimerInv

\* The loop enters the inner wait with the expiry time and version in force.
LEMMA ArmKeepsInv ==
  ASSUME TimerInv, m_pending, Arm, UNCHANGED <<callVars, outerVars>>
  PROVE  TimerInv'
<1>1. /\ deadline' = m_expiry /\ version' = m_version /\ loop' = "inner_asleep"
      /\ UNCHANGED <<m_expiry, m_pending, m_cancelRequested, m_stopping, m_version, m_handler,
                     decided, waits, cancelled, now>>
  BY DEF Arm, fields, callVars, outerVars
<1>2. TypeOK'
  BY <1>1 DEF TimerInv, TypeOK
<1>3. LoopIsCurrent'
  BY <1>1, TimerAssumption DEF TimerInv, TypeOK, LoopIsCurrent, Inner
<1>4. InnerMeansPending'
  BY <1>1 DEF InnerMeansPending
<1>5. TimerTypes' /\ HandlerIsNewest' /\ CancelNoted' /\ OneResultPerWait' /\ CancelWins'
      /\ NoWaitForgotten'
  BY <1>1 DEF TimerInv, TimerTypes, HandlerIsNewest, CancelNoted, OneResultPerWait, CancelWins,
     NoWaitForgotten
<1> QED BY <1>2, <1>3, <1>4, <1>5 DEF TimerInv

\* A step that only moves the loop keeps the invariant if the loop enters the inner
\* wait from inside it only, and reports a deadline only when it has passed.
LEMMA MoveKeepsInv ==
  ASSUME TimerInv,
         UNCHANGED <<fields, deadline, version, decided, waits, cancelled>>,
         now' \in 0..MaxTime, now <= now',
         loop' \in {"submitted", "refused", "outer", "outer_asleep", "inner_asleep", "woken",
                    "expired", "fire", "exited"},
         loop' \in Inner => loop \in Inner,
         loop' = "expired" => (loop = "expired" \/ deadline <= now)
  PROVE  TimerInv'
<1>1. UNCHANGED <<m_expiry, m_pending, m_cancelRequested, m_stopping, m_version, m_handler,
                  decided, waits, cancelled, deadline, version>>
  BY DEF fields
<1>2. TypeOK'
  BY <1>1 DEF TimerInv, TypeOK
<1>3. LoopIsCurrent'
  <2>1. deadline \in Nat /\ now \in Nat /\ now' \in Nat
    BY TimerAssumption DEF TimerInv, TypeOK
  <2> QED BY <1>1, <2>1 DEF TimerInv, LoopIsCurrent
<1>4. InnerMeansPending'
  BY <1>1 DEF TimerInv, InnerMeansPending, Inner
<1>5. TimerTypes' /\ HandlerIsNewest' /\ CancelNoted' /\ OneResultPerWait' /\ CancelWins'
      /\ NoWaitForgotten'
  BY <1>1 DEF TimerInv, TimerTypes, HandlerIsNewest, CancelNoted, OneResultPerWait, CancelWins,
     NoWaitForgotten
<1> QED BY <1>2, <1>3, <1>4, <1>5 DEF TimerInv

\* A call raises the version, so that a deadline it replaces is not the loop's.
LEMMA ExpiresAtKeepsInv ==
  ASSUME TimerInv, NEW c \in Users, NEW time \in 0..MaxTime, expires_at(c, time),
         UNCHANGED <<loopVars, outerVars>>
  PROVE  TimerInv'
<1>1. /\ m_expiry' = time /\ m_version < MaxVersion /\ m_version' = m_version + 1
      /\ UNCHANGED <<m_pending, m_cancelRequested, m_stopping, m_handler, waits, cancelled,
                     loop, deadline, version, decided, now>>
  BY DEF expires_at, Bump, loopVars, outerVars
<1>2. m_version \in Nat /\ version \in Nat /\ MaxVersion \in Nat /\ version <= m_version
  BY TimerAssumption DEF TimerInv, TypeOK, LoopIsCurrent
<1>3. TypeOK'
  BY <1>1, <1>2 DEF TimerInv, TypeOK
<1>4. LoopIsCurrent'
  BY <1>1, <1>2 DEF TimerInv, LoopIsCurrent
<1>5. TimerTypes' /\ HandlerIsNewest' /\ CancelNoted' /\ OneResultPerWait' /\ CancelWins'
      /\ NoWaitForgotten' /\ InnerMeansPending'
  BY <1>1 DEF TimerInv, TimerTypes, HandlerIsNewest, CancelNoted, OneResultPerWait, CancelWins,
     NoWaitForgotten, InnerMeansPending
<1> QED BY <1>3, <1>4, <1>5 DEF TimerInv

\* A new wait takes the place of none, and nothing was decided or cancelled for it.
LEMMA AsyncWaitKeepsInv ==
  ASSUME TimerInv, NEW c \in Users, async_wait(c), UNCHANGED <<loopVars, outerVars>>
  PROVE  TimerInv'
<1>1. /\ ~m_stopping /\ ~m_pending /\ waits < MaxWaits
      /\ waits' = waits + 1 /\ m_handler' = waits + 1 /\ m_pending' = TRUE
      /\ m_cancelRequested' = FALSE
      /\ m_version < MaxVersion /\ m_version' = m_version + 1
      /\ UNCHANGED <<m_expiry, m_stopping, cancelled, loop, deadline, version, decided, now>>
  BY DEF async_wait, MayWait, Bump, loopVars, outerVars
<1>2. /\ m_version \in Nat /\ version \in Nat /\ MaxVersion \in Nat /\ version <= m_version
      /\ waits \in Nat /\ MaxWaits \in Nat
  BY TimerAssumption DEF TimerInv, TypeOK, TimerTypes, LoopIsCurrent
<1>3. \A d \in decided : d[1] \in Nat /\ d[1] <= waits
  <2> SUFFICES ASSUME NEW d \in decided PROVE d[1] \in Nat /\ d[1] <= waits
    OBVIOUS
  <2>1. d \in (1..MaxWaits) \X {"expired", "cancelled"}
    BY DEF TimerInv, TypeOK
  <2>2. d[1] \in 1..MaxWaits
    BY <2>1
  <2> QED BY <1>2, <2>2 DEF TimerInv, HandlerIsNewest
<1>4. waits + 1 \notin cancelled /\ cancelled \subseteq 1..(waits + 1)
  BY <1>2 DEF TimerInv, TimerTypes
<1>5. TypeOK'
  BY <1>1, <1>2 DEF TimerInv, TypeOK
<1>6. TimerTypes'
  <2>1. (m_pending \in BOOLEAN)' /\ (m_cancelRequested \in BOOLEAN)' /\ (m_stopping \in BOOLEAN)'
    BY <1>1, Zenon DEF TimerInv, TimerTypes
  <2>2. (waits \in 0..MaxWaits)'
    BY <1>1, <1>2
  <2>3. (cancelled \subseteq 1..waits)'
    BY <1>1, <1>4
  <2> QED BY <2>1, <2>2, <2>3 DEF TimerTypes
<1>7. HandlerIsNewest'
  BY <1>1, <1>2, <1>3 DEF HandlerIsNewest
<1>8. CancelNoted'
  BY <1>1, <1>4 DEF CancelNoted
<1>9. LoopIsCurrent'
  BY <1>1, <1>2 DEF TimerInv, LoopIsCurrent
<1>10. OneResultPerWait' /\ CancelWins' /\ InnerMeansPending'
  BY <1>1 DEF TimerInv, OneResultPerWait, CancelWins, InnerMeansPending
<1>11. NoWaitForgotten'
  <2> SUFFICES ASSUME NEW w \in 1..(waits + 1)
               PROVE  w = waits + 1 \/ \E d \in decided : d[1] = w
    BY <1>1 DEF NoWaitForgotten
  <2>1. w = waits + 1 \/ w \in 1..waits
    BY <1>2
  <2> QED BY <2>1, <1>1 DEF TimerInv, NoWaitForgotten
<1> QED BY <1>5, <1>6, <1>7, <1>8, <1>9, <1>10, <1>11 DEF TimerInv

\* A cancel of the pending wait is noted before the loop can report it expired.
LEMMA CancelKeepsInv ==
  ASSUME TimerInv, NEW c \in Users, cancel(c), UNCHANGED <<loopVars, outerVars>>
  PROVE  TimerInv'
<1>1. /\ m_pending /\ m_cancelRequested' = TRUE /\ cancelled' = cancelled \cup {m_handler}
      /\ m_version < MaxVersion /\ m_version' = m_version + 1
      /\ UNCHANGED <<m_expiry, m_pending, m_stopping, m_handler, waits, loop, deadline,
                     version, decided, now>>
  BY DEF cancel, Bump, loopVars, outerVars
<1>2. /\ m_version \in Nat /\ version \in Nat /\ MaxVersion \in Nat /\ version <= m_version
      /\ waits \in Nat /\ m_handler = waits /\ waits # 0
  BY <1>1, TimerAssumption DEF TimerInv, TypeOK, TimerTypes, LoopIsCurrent, HandlerIsNewest
<1>3. TypeOK'
  BY <1>1, <1>2 DEF TimerInv, TypeOK
<1>4. TimerTypes' /\ CancelNoted'
  BY <1>1, <1>2 DEF TimerInv, TimerTypes, CancelNoted
<1>5. LoopIsCurrent'
  BY <1>1, <1>2 DEF TimerInv, LoopIsCurrent
<1>6. CancelWins'
  <2>1. <<m_handler, "expired">> \notin decided
    <3> SUFFICES ASSUME <<waits, "expired">> \in decided PROVE FALSE
      BY <1>2
    <3>1. <<waits, "expired">>[1] # waits
      BY <1>1 DEF TimerInv, HandlerIsNewest
    <3> QED BY <3>1
  <2> QED BY <2>1, <1>1, Zenon DEF TimerInv, CancelWins
<1>7. HandlerIsNewest' /\ OneResultPerWait' /\ NoWaitForgotten' /\ InnerMeansPending'
  BY <1>1 DEF TimerInv, HandlerIsNewest, OneResultPerWait, NoWaitForgotten, InnerMeansPending
<1> QED BY <1>3, <1>4, <1>5, <1>6, <1>7 DEF TimerInv

\* Shutdown, also by the destructor, drops the pending wait.
LEMMA StopKeepsInv ==
  ASSUME TimerInv, Stop, UNCHANGED <<waits, cancelled>>, UNCHANGED <<loopVars, outerVars>>
  PROVE  TimerInv'
<1>1. /\ ~m_stopping /\ m_stopping' = TRUE /\ m_handler' = 0 /\ m_pending' = FALSE
      /\ m_version' = m_version + 1
      /\ UNCHANGED <<m_expiry, m_cancelRequested, waits, cancelled, loop, deadline, version,
                     decided, now>>
  BY DEF Stop, Clear, loopVars, outerVars
<1>2. /\ m_version \in Nat /\ version \in Nat /\ MaxVersion \in Nat /\ version <= m_version
      /\ m_version <= MaxVersion /\ MaxWaits \in Nat
  BY <1>1, TimerAssumption DEF TimerInv, TypeOK, LoopIsCurrent
<1>3. TypeOK'
  BY <1>1, <1>2 DEF TimerInv, TypeOK
<1>4. LoopIsCurrent'
  BY <1>1, <1>2 DEF TimerInv, LoopIsCurrent
<1>5. HandlerIsNewest'
  BY <1>1 DEF TimerInv, HandlerIsNewest
<1>6. TimerTypes' /\ CancelNoted' /\ OneResultPerWait' /\ CancelWins' /\ NoWaitForgotten'
      /\ InnerMeansPending'
  BY <1>1, Zenon DEF TimerInv, TimerTypes, CancelNoted, OneResultPerWait, CancelWins, NoWaitForgotten,
     InnerMeansPending
<1> QED BY <1>3, <1>4, <1>5, <1>6 DEF TimerInv

\* Every step keeps the invariant.
LEMMA TimerInvStep ==
  ASSUME TimerInv, [TimerNext \/ TimerEnded]_timerVars
  PROVE  TimerInv'
<1>0. now \in 0..MaxTime /\ MaxTime \in Nat
  BY TimerAssumption DEF TimerInv, TypeOK
<1>1. ASSUME NEW c \in Users, UserCall(c) PROVE TimerInv'
  <2>1. UNCHANGED <<loopVars, outerVars>>
    BY <1>1 DEF UserCall
  <2>2. CASE \E time \in 0..MaxTime : expires_at(c, time)
    BY <2>1, <2>2, ExpiresAtKeepsInv
  <2>3. CASE async_wait(c)
    BY <2>1, <2>3, AsyncWaitKeepsInv
  <2>4. CASE cancel(c)
    BY <2>1, <2>4, CancelKeepsInv
  <2>5. CASE shutdown(c)
    BY <2>1, <2>5, StopKeepsInv DEF shutdown
  <2>6. CASE destructor(c)
    <3>1. CASE Stop
      BY <2>1, <2>6, <3>1, StopKeepsInv DEF destructor
    <3>2. CASE UNCHANGED fields
      <4>1. UNCHANGED <<fields, deadline, version, decided, waits, cancelled, loop, now>>
        BY <2>1, <2>6, <3>2 DEF destructor, loopVars, outerVars
      <4> QED BY <4>1, <1>0, MoveKeepsInv DEF TimerInv, TypeOK
    <3> QED BY <2>6, <3>1, <3>2 DEF destructor
  <2> QED BY <1>1, <2>2, <2>3, <2>4, <2>5, <2>6 DEF UserCall
<1>2. ASSUME NEW c \in Users, notify_all(c) PROVE TimerInv'
  <2>1. /\ UNCHANGED <<fields, deadline, version, decided, waits, cancelled, now>>
        /\ loop' = Woken(loop)
    BY <1>2 DEF notify_all, outerVars
  <2>2. /\ loop' \in {"submitted", "refused", "outer", "outer_asleep", "inner_asleep", "woken",
                      "expired", "fire", "exited"}
        /\ loop' \in Inner => loop \in Inner
        /\ loop' = "expired" => loop = "expired"
    BY <2>1 DEF TimerInv, TypeOK, Woken, Inner
  <2> QED BY <2>1, <2>2, <1>0, MoveKeepsInv
<1>3. ASSUME NEW c \in Users, destructor_return(c) PROVE TimerInv'
  <2>1. UNCHANGED <<fields, deadline, version, decided, waits, cancelled, loop, now>>
    BY <1>3 DEF destructor_return, loopVars, outerVars
  <2> QED BY <2>1, <1>0, MoveKeepsInv DEF TimerInv, TypeOK
<1>4. ASSUME NEW p \in {"outer", "outer_asleep", "inner_asleep", "woken", "expired", "exited"},
             InLoop(Goto(p)), p \in Inner => loop \in Inner,
             p = "expired" => deadline <= now
      PROVE  TimerInv'
  <2>1. /\ UNCHANGED <<fields, deadline, version, decided, waits, cancelled, now>>
        /\ loop' = p
    BY <1>4 DEF InLoop, Goto, callVars, outerVars
  <2> QED BY <1>4, <2>1, <1>0, MoveKeepsInv
<1>5. CASE InLoop(run_timer_start \/ run_timer_outer \/ run_timer_inner)
  <2>0. UNCHANGED <<callVars, outerVars>>
    BY <1>5 DEF InLoop
  <2>1. CASE run_timer_start
    BY <2>0, <2>1, <1>4 DEF run_timer_start, InLoop, Inner
  <2>2. CASE run_timer_outer
    <3>1. CASE m_stopping /\ Goto("exited")
      BY <2>0, <3>1, <1>4 DEF InLoop, Inner
    <3>2. CASE Goto("outer_asleep")
      BY <2>0, <3>2, <1>4 DEF InLoop, Inner
    <3>3. CASE ~m_stopping /\ m_pending /\ Settle("cancelled")
      BY <2>0, <3>3, SettleKeepsInv
    <3>4. CASE m_pending /\ Arm
      BY <2>0, <3>4, ArmKeepsInv
    <3> QED BY <2>2, <3>1, <3>2, <3>3, <3>4 DEF run_timer_outer
  <2>3. CASE run_timer_inner
    <3>0. loop \in Inner /\ (~m_stopping => m_pending)
      BY <2>3 DEF run_timer_inner, Inner, TimerInv, InnerMeansPending
    <3>1. CASE m_stopping /\ Goto("exited")
      BY <2>0, <3>1, <1>4 DEF InLoop, Inner
    <3>2. CASE ~m_stopping /\ Settle("cancelled")
      BY <2>0, <3>0, <3>2, SettleKeepsInv
    <3>3. CASE ~m_stopping /\ Arm
      BY <2>0, <3>0, <3>3, ArmKeepsInv
    <3>4. CASE Goto("inner_asleep")
      BY <2>0, <3>0, <3>4, <1>4 DEF InLoop
    <3>5. CASE ~m_stopping /\ ~CancelSeen /\ Settle("expired")
      BY <2>0, <3>0, <3>5, SettleKeepsInv DEF CancelSeen
    <3> QED BY <2>3, <3>1, <3>2, <3>3, <3>4, <3>5 DEF run_timer_inner
  <2> QED BY <1>5, <2>1, <2>2, <2>3 DEF InLoop
<1>6. CASE InLoop(inner_expire)
  <2>1. InLoop(Goto("expired")) /\ loop \in Inner /\ now >= deadline
    BY <1>6 DEF InLoop, inner_expire, Inner
  <2>2. deadline <= now
    BY <2>1, <1>0 DEF TimerInv, TypeOK
  <2> QED BY <2>1, <2>2, <1>4
<1>7. CASE InLoop(wait_spurious)
  <2>1. CASE loop = "outer_asleep"
    BY <1>7, <2>1, <1>4 DEF InLoop, wait_spurious, Woken, Inner
  <2>2. CASE loop = "inner_asleep"
    BY <1>7, <2>2, <1>4 DEF InLoop, wait_spurious, Woken, Inner
  <2> QED BY <1>7, <2>1, <2>2 DEF InLoop, wait_spurious
<1>8. CASE run_handler_on_executor
  <2>1. /\ UNCHANGED <<fields, deadline, version, decided, waits, cancelled, now>>
        /\ loop' = "outer"
    BY <1>8 DEF run_handler_on_executor, callVars
  <2> QED BY <2>1, <1>0, MoveKeepsInv DEF Inner
<1>9. CASE \/ \E w \in 1..MaxWaits : executor_runs(w)
           \/ executor_closes \/ others_fill \/ worker_drains \/ tick \/ UNCHANGED timerVars
  <2>1. UNCHANGED <<fields, deadline, version, decided, waits, cancelled, loop>>
    BY <1>9 DEF executor_runs, executor_closes, others_fill, worker_drains, tick, timerVars, loopVars, callVars
  <2>2. now' = now \/ (now < MaxTime /\ now' = now + 1)
    BY <1>9 DEF executor_runs, executor_closes, others_fill, worker_drains, tick, timerVars, outerVars
  <2>3. now' \in 0..MaxTime /\ now <= now'
    BY <2>2, <1>0
  <2> QED BY <2>1, <2>3, MoveKeepsInv DEF TimerInv, TypeOK
<1> QED BY <1>1, <1>2, <1>3, <1>5, <1>6, <1>7, <1>8, <1>9
   DEF TimerNext, TimerEnded, LoopStep

\* The invariant holds in every state.
THEOREM TimerInvariant == TimerSpec => []TimerInv
<1>1. TimerInit => TimerInv
  <2> SUFFICES ASSUME TimerInit PROVE TimerInv
    OBVIOUS
  <2>1. TypeOK
    BY TimerAssumption DEF TimerInit, TypeOK
  <2>2. TimerTypes
    <3>1. m_pending \in BOOLEAN /\ m_cancelRequested \in BOOLEAN /\ m_stopping \in BOOLEAN
      BY Zenon DEF TimerInit
    <3>2. waits \in 0..MaxWaits /\ cancelled \subseteq 1..waits
      BY TimerAssumption DEF TimerInit
    <3> QED BY <3>1, <3>2 DEF TimerTypes
  <2>3. HandlerIsNewest /\ CancelNoted
    BY DEF TimerInit, HandlerIsNewest, CancelNoted
  <2>4. LoopIsCurrent /\ InnerMeansPending
    BY TimerAssumption DEF TimerInit, LoopIsCurrent, InnerMeansPending, Inner
  <2>5. OneResultPerWait /\ CancelWins /\ NoWaitForgotten
    BY DEF TimerInit, OneResultPerWait, CancelWins, NoWaitForgotten
  <2> QED BY <2>1, <2>2, <2>3, <2>4, <2>5 DEF TimerInv
<1>2. TimerInv /\ [TimerNext \/ TimerEnded]_timerVars => TimerInv'
  BY TimerInvStep
<1> QED BY <1>1, <1>2, PTL DEF TimerSpec

\* The variables run_timer decides by keep their types.
THEOREM TimerTypeCorrect == TimerSpec => []TypeOK
<1>1. TimerInv => TypeOK
  BY DEF TimerInv
<1> QED BY <1>1, TimerInvariant, PTL

\* run_timer settles no wait twice.
THEOREM ResultsUnique == TimerSpec => []OneResultPerWait
<1>1. TimerInv => OneResultPerWait
  BY DEF TimerInv
<1> QED BY <1>1, TimerInvariant, PTL

\* A cancel() that returned true is never answered with an expiry.
THEOREM CancelIsHonoured == TimerSpec => []CancelWins
<1>1. TimerInv => CancelWins
  BY DEF TimerInv
<1> QED BY <1>1, TimerInvariant, PTL

\* Until shutdown every wait async_wait accepted is pending or settled.
THEOREM WaitsAreKept == TimerSpec => []NoWaitForgotten
<1>1. TimerInv => NoWaitForgotten
  BY DEF TimerInv
<1> QED BY <1>1, TimerInvariant, PTL

\* The exit of run_timer's inner loop for a wait that is no longer pending is dead code.
THEOREM InnerExitUnreachable == TimerSpec => []InnerMeansPending
<1>1. TimerInv => InnerMeansPending
  BY DEF TimerInv
<1> QED BY <1>1, TimerInvariant, PTL

\* A wait expires only when the expiry time in force has passed.
THEOREM ExpiryIsCurrent == TimerSpec => NeverEarly
<1> DEFINE Timely ==
      \A w \in 1..MaxWaits : (<<w, "expired">> \in decided' \ decided) => m_expiry <= now
<1>1. TimerInv /\ [TimerNext \/ TimerEnded]_timerVars => [Timely]_timerVars
  <2> SUFFICES ASSUME TimerInv, [TimerNext \/ TimerEnded]_timerVars,
                      NEW w \in 1..MaxWaits, <<w, "expired">> \in decided' \ decided
               PROVE  m_expiry <= now
    OBVIOUS
  <2>1. decided' # decided
    OBVIOUS
  <2>2. run_timer_outer \/ run_timer_inner
    BY <2>1 DEF TimerNext, TimerEnded, timerVars, UserCall, loopVars, notify_all, destructor_return, LoopStep,
       InLoop, run_timer_start, run_handler_on_executor, Goto, inner_expire, wait_spurious,
       executor_runs, executor_closes, others_fill, worker_drains, tick
  <2>3. ~Settle("cancelled")
    <3>1. <<w, "expired">> # <<m_handler, "cancelled">>
      OBVIOUS
    <3>2. Settle("cancelled") => decided' = decided \cup {<<m_handler, "cancelled">>}
      BY DEF Settle
    <3> QED BY <3>1, <3>2
  <2>4. run_timer_inner /\ loop = "expired" /\ ~Superseded
    BY <2>1, <2>2, <2>3 DEF run_timer_outer, run_timer_inner, Goto, Arm
  <2> QED BY <2>4 DEF Superseded, TimerInv, LoopIsCurrent, Inner
<1> QED BY <1>1, TimerInvariant, PTL DEF TimerSpec, NeverEarly

\* The loop, once it has returned or was refused, stays so, and the destructor
\* returns only then.
THEOREM DestroyedIsQuiet == TimerSpec => []DestroyedMeansQuiet
<1> DEFINE Quiet == DOMAIN caller = Users /\ DestroyedMeansQuiet
<1>1. TimerInit => Quiet
  BY DEF TimerInit, DestroyedMeansQuiet
<1>2. Quiet /\ [TimerNext \/ TimerEnded]_timerVars => Quiet'
  <2> SUFFICES ASSUME Quiet, [TimerNext \/ TimerEnded]_timerVars PROVE Quiet'
    OBVIOUS
  <2>1. LoopDone => loop' = loop
    BY DEF LoopDone, TimerNext, TimerEnded, timerVars, UserCall, loopVars, notify_all, Woken, destructor_return,
       LoopStep, InLoop, run_timer_start, run_timer_outer, run_timer_inner,
       run_handler_on_executor, inner_expire, wait_spurious, executor_runs, executor_closes,
       others_fill, worker_drains, tick
  <2>2. \/ UNCHANGED caller
        \/ \E d \in Users, p \in {"idle", "notify", "dtor", "get", "gone"} :
             caller' = [caller EXCEPT ![d] = p] /\ (p = "gone" => LoopDone)
    <3>1. ASSUME NEW d \in Users, UserCall(d)
          PROVE  \E p \in {"notify", "dtor", "get"} : caller' = [caller EXCEPT ![d] = p]
      BY <3>1 DEF UserCall, expires_at, async_wait, cancel, shutdown, destructor, Calls
    <3>2. ASSUME NEW d \in Users, notify_all(d)
          PROVE  \E p \in {"idle", "get"} : caller' = [caller EXCEPT ![d] = p]
      BY <3>2, Zenon DEF notify_all
    <3>3. ASSUME NEW d \in Users, destructor_return(d)
          PROVE  caller' = [caller EXCEPT ![d] = "gone"] /\ LoopDone
      BY <3>3 DEF destructor_return
    <3> QED BY <3>1, <3>2, <3>3 DEF TimerNext, TimerEnded, timerVars, callVars, LoopStep, InLoop,
            run_handler_on_executor, executor_runs, executor_closes, others_fill, worker_drains, tick
  <2>3. DOMAIN caller' = Users
    BY <2>2
  <2>4. ASSUME NEW c \in Users, caller'[c] = "gone" PROVE loop' \in {"exited", "refused"}
    <3>1. LoopDone \/ caller[c] = "gone"
      BY <2>2, <2>4
    <3> QED BY <3>1, <2>1 DEF DestroyedMeansQuiet, LoopDone
  <2> QED BY <2>3, <2>4 DEF DestroyedMeansQuiet
<1>3. Quiet => DestroyedMeansQuiet
  OBVIOUS
<1> QED BY <1>1, <1>2, <1>3, PTL DEF TimerSpec

\* All of the timer's state invariants, for any callers, times, waits and versions.
THEOREM TimerIsSafe == TimerSpec => []TimerSafe
BY TimerTypeCorrect, ResultsUnique, CancelIsHonoured, WaitsAreKept, InnerExitUnreachable,
   DestroyedIsQuiet, PTL DEF TimerSafe
=============================================================================
