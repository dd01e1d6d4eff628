--------------------------- MODULE ThreadPoolProofs ---------------------------
(***************************************************************************)
(* Proofs about ThreadPool, for any numbers of threads, workers and tasks: *)
(* the steps that move tasks, the invariant (of ThreadPoolSteps), stopping *)
(* and joining, and that the pool implements TaskService.                  *)
(***************************************************************************)
EXTENDS ThreadPoolSteps

\* What a step outside the queue that submits, starts or ends a task leaves alone.
LEMMA TaskFrame ==
  ASSUME Inv, NEW t \in Threads, NEW p \in Places, Goto(t, p),
         UNCHANGED <<queueVars, m_poolState, m_mtx, shutReturned, threads, next, late>>,
         pc[t] = "idle", at[t] \notin {"unborn", "exited", "close", "outside"},
         p \notin {"unborn", "close", "closing", "join_lock", "join_loop", "ctor", "queued", "taking"}
                  \cup BeforeRun,
         \A u \in Threads \ {t} : arg'[u] = arg[u],
         Unconstructed => frames' = frames /\ MayMove(t, p),
         t \in Workers /\ p = "exited" => at[t] = "taking" /\ erc[t] = "closed"
  PROVE  QueueTypes' /\ Agree' /\ Stopping' /\ Stopped' /\ Construction' /\ Lateness' /\ Drained'
<1>   /\ Types /\ QueueTypes /\ Agree /\ Stopping /\ Stopped /\ Construction /\ Drained
      /\ UNCHANGED <<m_buffer, m_state, op, pc, item, erc, accepted>>
  BY Zenon DEF Inv, queueVars
<1>1. at' \in [Threads -> Places] /\ at'[t] = p /\ \A u \in Threads \ {t} : at'[u] = at[u]
  BY GotoFacts, Zenon
<1>2. QueueTypes'
  BY Zenon DEF QueueTypes
<1>3. Agree'
  BY <1>1, ZenonT(30) DEF Agree, AgreeAt
<1>4. Stopping' /\ Stopped'
  BY ControlGoto, Zenon
<1>5. Construction'
  <2>1. CASE Unconstructed
    BY <2>1, ConstructionGoto
  <2>2. CASE ~Unconstructed
    <3>1. ~Unconstructed' /\ at'[Creator] # "ctor"
      BY <1>1, <2>2, ThreadFacts, Zenon DEF Unconstructed, Unborn
    <3> QED BY <1>1, <3>1, Zenon DEF Construction
  <2> QED BY <2>1, <2>2, Zenon
<1>6. Lateness'
  BY LatenessGoto, Zenon
<1>7. Drained'
  BY <1>1, ThreadFacts DEF Drained
<1> QED BY <1>2, <1>3, <1>4, <1>5, <1>6, <1>7, Zenon

\* A put that finds the pool not running is refused at once; any other goes to the queue.
LEMMA PutCheckStep ==
  ASSUME Inv, NEW t \in Threads, NEW k \in Tasks, put_check(t, k)
  PROVE  Inv'
<1>0. /\ Types /\ QueueTypes /\ Stacks /\ Ledger /\ Custody /\ Running
      /\ MayCall(t, Submitters) /\ told[k] = "nothing"
      /\ \A u \in Threads : Putting(u) => arg[u] # k
      /\ UNCHANGED <<queueVars, m_poolState, m_mtx, m_joinMtx, next, threads, frames,
                     runs, late, shutReturned>>
  BY DEF Inv, put_check, Putting, locks
<1>1. /\ at[t] \in {"idle", "body", "p_body"} /\ pc[t] = "idle" /\ (t \in Workers => frames[t] # <<>>)
      /\ Unconstructed => m_poolState # "running"
  BY <1>0, UserFacts
<1>2. k \notin Range(accepted) /\ runs[k] = 0 /\ \A u \in Threads : k \notin Range(frames[u])
  <2>1. k \notin Range(accepted)
    BY <1>0, Zenon DEF Ledger, Admitted, Putting
  <2>2. runs[k] = 0
    BY <1>0, <2>1, Zenon DEF Custody
  <2> QED BY <1>0, <2>1, <2>2 DEF Running
<1>3. UNCHANGED <<m_buffer, m_state, op, pc, item, erc, accepted>>
  BY <1>0 DEF queueVars
<1>4. CASE told' = [told EXCEPT ![k] = "ThreadPoolStopped"] /\ UNCHANGED <<at, arg>>
  <2>1. told'[k] = "ThreadPoolStopped" /\ \A j \in Tasks \ {k} : told'[j] = told[j]
    BY <1>0, <1>4 DEF Types
  <2>2. Types'
    BY <1>0, <1>4 DEF Types, Rejections, threads
  <2>3. QueueTypes' /\ Agree' /\ Stacks'
    BY <1>0, <1>3, <1>4, Zenon DEF Inv, QueueTypes, Agree, AgreeAt, Stacks, StackAt, StackOf
  <2>4. Stopping' /\ Drained' /\ Construction' /\ Lateness'
    BY <1>0, <1>3, <1>4, Zenon DEF Inv, Stopping, Drained, Construction, Unconstructed, Unborn, Lateness
  <2>5. Stopped'
    BY <1>0, <1>3, <1>4, Zenon DEF Inv, Stopped, JoinOrder, threads
  <2>6. Ledger'
    <3>1. \A u \in Threads : (Putting(u)' <=> Putting(u)) /\ (Admitted(u)' <=> Admitted(u))
      BY <1>3, <1>4, Zenon DEF Putting, Admitted
    <3>2. \A u \in Threads : Putting(u) => arg[u] \in Tasks \ {k} /\ told[arg[u]] = "nothing"
      BY <1>0, Zenon DEF Ledger
    <3>3. \A u \in Threads : Admitted(u) => arg[u] # k
      BY <1>0 DEF Admitted, Putting
    <3> QED BY <1>0, <1>2, <1>3, <1>4, <2>1, <3>1, <3>2, <3>3 DEF Ledger
  <2>7. Custody'
    <3>1. \A u \in Threads : \A j \in Tasks : Holds(u, j)' <=> Holds(u, j)
      BY <1>3, <1>4, Zenon DEF Holds
    <3>2. Range(m_buffer) \subseteq Tasks /\ Range(accepted) \subseteq Tasks
      BY <1>0, RangeIs DEF QueueTypes
    <3> QED BY <1>0, <1>2, <1>3, <2>1, <3>1, <3>2, ZenonT(30) DEF Custody
  <2>8. Running'
    <3>1. \A u \in Threads : Range(frames[u]) \subseteq Tasks
      BY <1>0, RangeIs DEF Types
    <3> QED BY <1>0, <1>2, <2>1, <3>1, Zenon DEF Running
  <2> QED BY <2>2, <2>3, <2>4, <2>5, <2>6, <2>7, <2>8, Zenon DEF Inv
<1>5. CASE /\ m_poolState = "running" /\ Goto(t, "enqueue") /\ arg' = [arg EXCEPT ![t] = k]
           /\ UNCHANGED told
  <2>0. "enqueue" \in Places
    BY DEF Places, CallPlaces
  <2>1. /\ at' \in [Threads -> Places] /\ at'[t] = "enqueue" /\ arg'[t] = k
        /\ \A u \in Threads \ {t} : at'[u] = at[u] /\ arg'[u] = arg[u]
    BY <1>0, <1>5, <2>0, GotoFacts DEF Types
  <2>2. QueueTypes' /\ Agree' /\ Stopping' /\ Stopped' /\ Construction' /\ Lateness' /\ Drained'
    BY <1>0, <1>1, <1>5, <2>0, <2>1, TaskFrame, Zenon DEF BeforeRun
  <2>3. Types'
    BY <1>0, <1>5, <2>1, Zenon DEF Types, threads
  <2>4. Stacks'
    BY <1>0, <1>1, <2>1, Zenon DEF Stacks, StackAt, StackOf, CallPlaces
  <2>5. Ledger'
    <3>1. /\ ~Putting(t) /\ Putting(t)' /\ ~Admitted(t) /\ ~Admitted(t)'
          /\ \A u \in Threads \ {t} : (Putting(u)' <=> Putting(u)) /\ (Admitted(u)' <=> Admitted(u))
      BY <1>1, <1>3, <2>1, Zenon DEF Putting, Admitted
    <3> QED BY <1>0, <1>3, <1>5, <2>1, <3>1 DEF Ledger
  <2>6. Custody'
    <3>1. \A u \in Threads : \A j \in Tasks : Holds(u, j)' <=> Holds(u, j)
      BY <1>1, <1>3, <2>1, Zenon DEF Holds
    <3>2. Range(m_buffer) \subseteq Tasks /\ Range(accepted) \subseteq Tasks
      BY <1>0, RangeIs DEF QueueTypes
    <3> QED BY <1>0, <1>3, <1>5, <3>1, <3>2, Zenon DEF Custody
  <2>7. Running'
    BY <1>0, <1>5, Zenon DEF Running
  <2> QED BY <2>2, <2>3, <2>4, <2>5, <2>6, <2>7, Zenon DEF Inv
<1> QED BY <1>4, <1>5 DEF put_check

\* put tells the submitter what the queue answered, or runs the task itself.
LEMMA PutReturnStep ==
  ASSUME Inv, NEW t \in Threads, put_return(t)
  PROVE  Inv'
<1>0. /\ Types /\ QueueTypes /\ Stacks /\ Ledger /\ Custody /\ Running /\ AgreeAt(t)
      /\ at[t] = "queued" /\ pc[t] = "idle" /\ at[t] \in CallPlaces /\ Putting(t)
      /\ arg' = [arg EXCEPT ![t] = 0]
      /\ UNCHANGED <<queueVars, m_poolState, m_mtx, m_joinMtx, next, threads, late, shutReturned>>
  BY Zenon DEF Inv, Agree, put_return, locks, CallPlaces, Putting
<1>1. UNCHANGED <<m_buffer, m_state, op, pc, item, erc, accepted>>
  BY <1>0 DEF queueVars
<1>2. PICK x \in Tasks : x = arg[t]
  BY <1>0, Zenon DEF Ledger
<1>3. PICK e \in {"accepted", "closed", "full", "timeout"} : e = erc[t]
  BY <1>0, Zenon DEF AgreeAt, Unaccepted, Queue!Blocked
<1>4. PICK r \in Rejections \cup {"accepted", "inline"} : r = Outcome(erc[t])
  BY <1>3 DEF Outcome, Rejections
<1>5. r = "accepted" <=> erc[t] = "accepted"
  BY <1>3, <1>4 DEF Outcome, Rejections
<1>6. /\ told[x] = "nothing" /\ (x \in Range(accepted) <=> r = "accepted")
      /\ \A u \in Threads \ {t} : Putting(u) => arg[u] # x
      /\ r # "accepted" => runs[x] = 0
      /\ \A u \in Threads : u \notin Workers \/ runs[x] = 0 => x \notin Range(frames[u])
  <2>1. told[x] = "nothing" /\ \A u \in Threads \ {t} : Putting(u) => arg[u] # x
    BY <1>0, <1>2, Zenon DEF Ledger
  <2>2. x \in Range(accepted) <=> r = "accepted"
    BY <1>0, <1>2, <1>5, <2>1, ZenonT(30) DEF Ledger, Admitted, Putting
  <2>3. r # "accepted" => runs[x] = 0
    BY <1>0, <2>1, <2>2, Zenon DEF Custody
  <2>4. \A u \in Threads : u \notin Workers \/ runs[x] = 0 => x \notin Range(frames[u])
    BY <1>0, <2>1 DEF Running
  <2> QED BY <2>1, <2>2, <2>3, <2>4, Zenon
<1>7. ~Unconstructed
  BY <1>0 DEF Inv, Construction, Threads
<1>8. /\ told' = [told EXCEPT ![x] = r]
      /\ r = "inline" => /\ frames' = [frames EXCEPT ![t] = Append(@, x)]
                         /\ runs' = [runs EXCEPT ![x] = @ + 1] /\ Goto(t, "body")
      /\ r # "inline" => Goto(t, Here(t)) /\ UNCHANGED <<frames, runs>>
  BY <1>2, <1>4, Zenon DEF put_return
<1>9. /\ told'[x] = r /\ \A j \in Tasks \ {x} : told'[j] = told[j]
      /\ told' \in [Tasks -> Rejections \cup {"nothing", "accepted", "inline"}]
  BY <1>0, <1>8 DEF Types
<1>10. /\ frames' \in [Threads -> Seq(Tasks)] /\ \A u \in Threads \ {t} : frames'[u] = frames[u]
       /\ r = "inline" => /\ frames'[t] # <<>> /\ IsInjective(frames'[t])
                          /\ Range(frames'[t]) = Range(frames[t]) \cup {x}
       /\ r # "inline" => frames' = frames
  <2>1. CASE r = "inline"
    <3>1. frames[t] \in Seq(Tasks) /\ IsInjective(frames[t]) /\ x \notin Range(frames[t])
      BY <1>0, <1>6, <2>1 DEF Types, Running
    <3>2. /\ Append(frames[t], x) \in Seq(Tasks) /\ Append(frames[t], x) # <<>>
          /\ Range(Append(frames[t], x)) = Range(frames[t]) \cup {x} /\ IsInjective(Append(frames[t], x))
      BY <3>1, AppendFacts
    <3>3. frames' = [frames EXCEPT ![t] = Append(frames[t], x)]
      BY <1>8, <2>1, Zenon
    <3> QED BY <1>0, <2>1, <3>2, <3>3 DEF Types
  <2> QED BY <1>0, <1>8, <2>1, Zenon DEF Types
<1>11. /\ runs' \in [Tasks -> Nat] /\ \A j \in Tasks \ {x} : runs'[j] = runs[j]
       /\ runs'[x] = IF r = "inline" THEN 1 ELSE runs[x]
  <2>1. CASE r = "inline"
    <3>1. runs[x] = 0 /\ runs \in [Tasks -> Nat] /\ runs' = [runs EXCEPT ![x] = runs[x] + 1]
      BY <1>0, <1>6, <1>8, <2>1 DEF Types
    <3>2. runs' = [runs EXCEPT ![x] = 1]
      BY <3>1
    <3> QED BY <2>1, <3>1, <3>2
  <2> QED BY <1>0, <1>8, <2>1 DEF Types
<1>12. PICK p \in {"body", "idle", "p_body"} : Goto(t, p) /\ StackOf(t, p)'
  <2>1. CASE r = "inline"
    BY <1>8, <1>10, <2>1, Zenon DEF StackOf, CallPlaces
  <2>2. CASE r # "inline"
    <3>1. Here(t) \in {"body", "idle", "p_body"} /\ StackOf(t, Here(t))
      BY <1>0, HereFacts
    <3>2. PICK p \in {"body", "idle", "p_body"} : p = Here(t)
      BY <3>1
    <3> QED BY <1>8, <1>10, <2>2, <3>1, <3>2, Zenon DEF StackOf
  <2> QED BY <2>1, <2>2
<1>13. /\ at' \in [Threads -> Places] /\ at'[t] = p /\ \A u \in Threads \ {t} : at'[u] = at[u] /\ arg'[u] = arg[u]
  BY <1>0, <1>12, GotoFacts DEF Places, CallPlaces, Types
<1>14. QueueTypes' /\ Agree' /\ Stopping' /\ Stopped' /\ Construction' /\ Lateness' /\ Drained'
  BY <1>0, <1>7, <1>12, <1>13, TaskFrame, Zenon DEF BeforeRun, Places, CallPlaces
<1>15. Types'
  BY <1>0, <1>9, <1>10, <1>11, <1>13, Zenon DEF Types, threads
<1>16. Stacks'
  BY <1>0, <1>10, <1>12, <1>13, Zenon DEF Stacks, StackAt, StackOf
<1>17. Ledger'
  <2>1. /\ ~Putting(t)' /\ ~Admitted(t)' /\ (Admitted(t) <=> r = "accepted")
        /\ \A u \in Threads \ {t} : (Putting(u)' <=> Putting(u)) /\ (Admitted(u)' <=> Admitted(u))
    BY <1>0, <1>1, <1>5, <1>12, <1>13, Zenon DEF Putting, Admitted
  <2>2. \A u \in Threads : Putting(u)' => arg'[u] \in Tasks /\ told'[arg'[u]] = "nothing"
    BY <1>0, <1>6, <1>9, <1>13, <2>1 DEF Ledger
  <2>3. \A v, u \in Threads : Putting(v)' /\ Putting(u)' /\ arg'[v] = arg'[u] => v = u
    BY <1>0, <1>13, <2>1, Zenon DEF Ledger
  <2>4. \A j \in Tasks \ {x} : j \in Range(accepted) <=>
          told'[j] = "accepted" \/ \E u \in Threads : Admitted(u)' /\ arg'[u] = j
    BY <1>0, <1>2, <1>9, <1>13, <2>1 DEF Ledger
  <2>5. x \in Range(accepted) <=>
          told'[x] = "accepted" \/ \E u \in Threads : Admitted(u)' /\ arg'[u] = x
    BY <1>6, <1>9, <1>13, <2>1 DEF Admitted, Putting
  <2> QED BY <1>1, <2>2, <2>3, <2>4, <2>5, Zenon DEF Ledger
<1>18. Custody'
  <2>1. \A u \in Threads : \A j \in Tasks : Holds(u, j)' <=> Holds(u, j)
    BY <1>0, <1>1, <1>12, <1>13, Zenon DEF Holds
  <2>2. Range(m_buffer) \subseteq Tasks /\ Range(accepted) \subseteq Tasks
    BY <1>0, RangeIs DEF QueueTypes
  <2>3. \A j \in Range(accepted) : runs'[j] = runs[j]
    BY <1>6, <1>11, <2>2, Zenon
  <2>4. \A j \in Tasks : j \notin Range(accepted) => runs'[j] = IF told'[j] = "inline" THEN 1 ELSE 0
    BY <1>0, <1>6, <1>9, <1>11, Zenon DEF Custody
  <2> QED BY <1>0, <1>1, <2>1, <2>2, <2>3, <2>4, Zenon DEF Custody
<1>19. Running'
  <2>1. \A u \in Threads : Range(frames[u]) \subseteq Tasks
    BY <1>0, RangeIs DEF Types
  <2>2. CASE r = "inline"
    <3>1. \A u \in Threads : x \notin Range(frames[u])
      BY <1>6, <2>2, Zenon DEF Rejections
    <3>2. \A u \in Threads : IsInjective(frames'[u])
      BY <1>0, <1>10, <2>2, Zenon DEF Running
    <3>3. \A v, u \in Threads : v # u => Range(frames'[v]) \cap Range(frames'[u]) = {}
      <4>1. \A u \in Threads : \A j \in Range(frames'[u]) : j \in Range(frames[u]) \/ (u = t /\ j = x)
        BY <1>10, <2>2, Zenon
      <4> SUFFICES ASSUME NEW v \in Threads, NEW u \in Threads, v # u, NEW j,
                          j \in Range(frames'[v]), j \in Range(frames'[u]) PROVE FALSE
        BY Zenon
      <4>2. ~(j \in Range(frames[v]) /\ j \in Range(frames[u]))
        BY <1>0, Zenon DEF Running
      <4> QED BY <3>1, <4>1, <4>2, Zenon
    <3>4. \A u \in Threads : \A j \in Range(frames'[u]) :
            (j = x \/ (j \in Tasks \ {x} /\ j \in Range(frames[u])))
      BY <1>10, <2>1, <2>2, <3>1, Zenon
    <3>5. \A u \in Threads : \A j \in Range(frames'[u]) :
            runs'[j] = 1 /\ (u \notin Workers => told'[j] = "inline")
      BY <1>0, <1>9, <1>11, <2>2, <3>4, Zenon DEF Running
    <3> QED BY <3>2, <3>3, <3>5, Zenon DEF Running
  <2>3. CASE r # "inline"
    <3>1. \A u \in Threads : frames'[u] = frames[u]
      BY <1>10, <2>3
    <3>2. \A j \in Tasks : runs'[j] = runs[j]
      BY <1>11, <2>3
    <3>3. \A u \in Threads : \A j \in Range(frames[u]) :
            runs'[j] = 1 /\ (u \notin Workers => told'[j] = "inline")
      BY <1>0, <1>6, <1>9, <2>1, <3>2 DEF Running
    <3> QED BY <1>0, <3>1, <3>3, Zenon DEF Running
  <2> QED BY <2>2, <2>3
<1> QED BY <1>14, <1>15, <1>16, <1>17, <1>18, <1>19, Zenon DEF Inv

\* The innermost task ends and the thread goes on with what called it.
LEMMA FinishStep ==
  ASSUME Inv, NEW t \in Threads, finish_task(t)
  PROVE  Inv'
<1>   /\ Types /\ QueueTypes /\ Stacks /\ Ledger /\ Custody /\ Running /\ AgreeAt(t) /\ StackAt(t)
      /\ at[t] = "body" /\ frames' = [frames EXCEPT ![t] = Outer(t)]
      /\ Goto(t, UserCode(t, Outer(t)))
      /\ UNCHANGED <<queueVars, m_poolState, m_mtx, m_joinMtx, next, threads, arg, told, runs,
                     late, shutReturned>>
  BY DEF Inv, Agree, Stacks, finish_task, locks, history
<1>1. UNCHANGED <<m_buffer, m_state, op, pc, item, erc, accepted>> /\ pc[t] = "idle" /\ frames[t] # <<>>
  BY Zenon DEF queueVars, AgreeAt, StackAt, StackOf
<1>2. ~Unconstructed
  BY Zenon DEF Inv, Construction, Threads
<1>3. PICK r \in Seq(Tasks) : r = Outer(t) /\ IsInjective(r) /\ Range(r) \subseteq Range(frames[t])
  <2>1. frames[t] \in Seq(Tasks) /\ IsInjective(frames[t])
    BY DEF Types, Running
  <2> QED BY <1>1, <2>1, OuterFacts, Zenon DEF Outer
<1>4. /\ frames' \in [Threads -> Seq(Tasks)] /\ frames'[t] = r
      /\ \A u \in Threads \ {t} : frames'[u] = frames[u]
  BY <1>3 DEF Types
<1>5. PICK p \in {"body", "idle", "p_body", "loop"} : Goto(t, p) /\ StackOf(t, p)'
  <2>1. PICK p \in {"body", "idle", "p_body", "loop"} : p = UserCode(t, Outer(t))
    BY DEF UserCode
  <2>2. /\ (p = "body" <=> r # <<>>) /\ (p = "loop" => t \in Workers)
        /\ p \in {"idle", "p_body"} => t \notin Workers
    BY <1>3, <2>1, ThreadFacts, Zenon DEF UserCode, Threads
  <2> QED BY <1>4, <2>1, <2>2 DEF StackOf, CallPlaces
<1>6. /\ at' \in [Threads -> Places] /\ at'[t] = p /\ \A u \in Threads \ {t} : at'[u] = at[u]
  BY <1>5, GotoFacts, Zenon DEF Places, CallPlaces, Types
<1>7. QueueTypes' /\ Agree' /\ Stopping' /\ Stopped' /\ Construction' /\ Lateness' /\ Drained'
  BY <1>1, <1>2, <1>5, <1>6, TaskFrame, Zenon DEF BeforeRun, Places, CallPlaces
<1>8. Types'
  BY <1>4, <1>6 DEF Types, threads
<1>9. Stacks'
  BY <1>4, <1>5, <1>6 DEF Stacks, StackAt, StackOf
<1>10. \A u \in Threads : /\ Putting(u)' <=> Putting(u)
                          /\ Admitted(u)' <=> Admitted(u)
                          /\ \A j \in Tasks : Holds(u, j)' <=> Holds(u, j)
  BY <1>1, <1>5, <1>6, Zenon DEF Putting, Admitted, Holds
<1>11. Ledger'
  BY <1>1, <1>10, Zenon DEF Ledger
<1>12. Custody'
  <2>1. Range(m_buffer) \subseteq Tasks /\ Range(accepted) \subseteq Tasks
    BY RangeIs DEF QueueTypes
  <2> QED BY <1>1, <1>10, <2>1, Zenon DEF Custody
<1>13. Running'
  <2>1. \A u \in Threads : IsInjective(frames'[u]) /\ Range(frames'[u]) \subseteq Range(frames[u])
    BY <1>3, <1>4, Zenon DEF Running
  <2>2. \A u \in Threads : \A j \in Range(frames'[u]) :
          runs'[j] = 1 /\ (u \notin Workers => told'[j] = "inline")
    BY <2>1, Zenon DEF Running
  <2>3. \A v, u \in Threads : v # u => Range(frames'[v]) \cap Range(frames'[u]) = {}
    BY <2>1, Zenon DEF Running
  <2> QED BY <2>1, <2>2, <2>3, Zenon DEF Running
<1> QED BY <1>7, <1>8, <1>9, <1>11, <1>12, <1>13, Zenon DEF Inv

\* What a worker does with the queue's answer: it exits, tries again or starts the task.
LEMMA WorkerRunStep ==
  ASSUME Inv, NEW t \in Workers, worker_run(t)
  PROVE  Inv'
<1>0. /\ t \in Threads /\ Types /\ QueueTypes /\ Stacks /\ Ledger /\ Custody /\ Running
      /\ AgreeAt(t) /\ StackAt(t) /\ Construction
      /\ at[t] = "taking" /\ pc[t] = "idle"
      /\ UNCHANGED <<queueVars, m_poolState, m_mtx, m_joinMtx, next, threads, arg, told,
                     late, shutReturned>>
  BY Zenon DEF Inv, Agree, Stacks, worker_run, locks, Threads
<1>1. /\ UNCHANGED <<m_buffer, m_state, op, pc, item, erc, accepted>> /\ frames[t] = <<>>
      /\ Unconstructed => erc[t] # "item"
  BY <1>0, Zenon DEF queueVars, StackAt, StackOf, CallPlaces, Construction
<1>2. CASE erc[t] # "item"
  <2>1. PICK p \in {"exited", "loop"} : /\ Goto(t, p) /\ UNCHANGED <<frames, runs>>
                                        /\ p = "exited" => erc[t] = "closed"
    BY <1>2, Zenon DEF worker_run
  <2>2. p \in Places /\ at' \in [Threads -> Places] /\ at'[t] = p /\ \A u \in Threads \ {t} : at'[u] = at[u]
    BY <1>0, <2>1, GotoFacts, Zenon DEF Places, CallPlaces, Types
  <2>3. MayMove(t, p)
    BY <1>0, <2>1, Zenon DEF MayMove
  <2>4. QueueTypes' /\ Agree' /\ Stopping' /\ Stopped' /\ Construction' /\ Lateness' /\ Drained'
    BY <1>0, <1>1, <2>1, <2>2, <2>3, TaskFrame, Zenon DEF BeforeRun
  <2>5. Types'
    BY <1>0, <2>1, <2>2, Zenon DEF Types, threads
  <2>6. Stacks'
    BY <1>0, <1>1, <2>1, <2>2, Zenon DEF Stacks, StackAt, StackOf, CallPlaces
  <2>7. \A u \in Threads : /\ Putting(u)' <=> Putting(u)
                           /\ Admitted(u)' <=> Admitted(u)
                           /\ \A j \in Tasks : Holds(u, j)' <=> Holds(u, j)
    BY <1>0, <1>1, <1>2, <2>1, <2>2, Zenon DEF Putting, Admitted, Holds
  <2>8. Ledger'
    BY <1>0, <1>1, <2>7, Zenon DEF Ledger
  <2>9. Custody'
    <3>1. Range(m_buffer) \subseteq Tasks /\ Range(accepted) \subseteq Tasks
      BY <1>0, RangeIs DEF QueueTypes
    <3> QED BY <1>0, <1>1, <2>1, <2>7, <3>1, Zenon DEF Custody
  <2>10. Running'
    BY <1>0, <2>1, Zenon DEF Running
  <2> QED BY <2>4, <2>5, <2>6, <2>8, <2>9, <2>10, Zenon DEF Inv
<1>3. CASE erc[t] = "item"
  <2>0. "body" \in Places
    BY Zenon DEF Places
  <2>1. PICK x \in Tasks : x = item[t]
    BY <1>0, <1>3, Zenon DEF AgreeAt
  <2>2. /\ Holds(t, x) /\ runs[x] = 0 /\ x \in Range(accepted) /\ x \notin Range(m_buffer)
        /\ \A u \in Threads \ {t} : ~Holds(u, x)
    BY <1>0, <1>3, <2>1, Zenon DEF Custody, Holds
  <2>3. Goto(t, "body") /\ frames' = [frames EXCEPT ![t] = <<x>>] /\ runs' = [runs EXCEPT ![x] = runs[x] + 1]
    BY <1>3, <2>1, Zenon DEF worker_run
  <2>4. at' \in [Threads -> Places] /\ at'[t] = "body" /\ \A u \in Threads \ {t} : at'[u] = at[u]
    BY <1>0, <2>0, <2>3, GotoFacts DEF Types
  <2>5. QueueTypes' /\ Agree' /\ Stopping' /\ Stopped' /\ Construction' /\ Lateness' /\ Drained'
    BY <1>0, <1>1, <1>3, <2>0, <2>3, TaskFrame, Zenon DEF BeforeRun
  <2>6. <<x>> \in Seq(Tasks) /\ <<x>> # <<>> /\ Range(<<x>>) = {x} /\ IsInjective(<<x>>)
    BY DEF Range, IsInjective
  <2>7. /\ frames' \in [Threads -> Seq(Tasks)] /\ frames'[t] = <<x>>
        /\ \A u \in Threads \ {t} : frames'[u] = frames[u]
    BY <1>0, <2>3, <2>6 DEF Types
  <2>8. runs' \in [Tasks -> Nat] /\ runs'[x] = 1 /\ \A j \in Tasks \ {x} : runs'[j] = runs[j]
    <3>1. runs' = [runs EXCEPT ![x] = 1] /\ runs \in [Tasks -> Nat]
      BY <1>0, <2>2, <2>3 DEF Types
    <3> QED BY <3>1, Zenon
  <2>9. Types'
    BY <1>0, <2>4, <2>7, <2>8 DEF Types, threads
  <2>10. Stacks'
    BY <1>0, <2>4, <2>6, <2>7, Zenon DEF Stacks, StackAt, StackOf, CallPlaces
  <2>11. Ledger'
    <3>1. \A u \in Threads : (Putting(u)' <=> Putting(u)) /\ (Admitted(u)' <=> Admitted(u))
      BY <1>0, <1>1, <2>4, Zenon DEF Putting, Admitted
    <3> QED BY <1>0, <1>1, <3>1, Zenon DEF Ledger
  <2>12. Custody'
    <3>1. Range(m_buffer) \subseteq Tasks /\ Range(accepted) \subseteq Tasks
      BY <1>0, RangeIs DEF QueueTypes
    <3>2. \A u \in Threads : \A j \in Tasks \ {x} : Holds(u, j)' <=> Holds(u, j)
      BY <1>0, <1>1, <2>1, <2>4, Zenon DEF Holds
    <3>3. \A u \in Threads : ~Holds(u, x)'
      BY <1>1, <2>2, <2>4, Zenon DEF Holds
    <3>4. \A j \in Range(m_buffer) : j \in Range(accepted) /\ runs'[j] = 0 /\ \A w \in Threads : ~Holds(w, j)'
      BY <1>0, <2>2, <2>8, <3>1, <3>2, Zenon DEF Custody
    <3>5. \A w \in Threads : \A j \in Tasks : Holds(w, j)' =>
            j \in Range(accepted) /\ runs'[j] = 0 /\ \A v \in Threads : Holds(v, j)' => v = w
      <4> SUFFICES ASSUME NEW w \in Threads, NEW j \in Tasks, Holds(w, j)'
                   PROVE  /\ j \in Range(accepted) /\ runs'[j] = 0
                          /\ \A v \in Threads : Holds(v, j)' => v = w
        BY Zenon
      <4>1. j # x /\ Holds(w, j) /\ \A v \in Threads : Holds(v, j)' <=> Holds(v, j)
        BY <3>2, <3>3, Zenon
      <4>2. j \in Range(accepted) /\ runs[j] = 0 /\ \A v \in Threads : Holds(v, j) => v = w
        BY <1>0, <4>1, Zenon DEF Custody
      <4> QED BY <2>8, <4>1, <4>2, Zenon
    <3>6. \A j \in Range(accepted) :
            j \in Range(m_buffer) \/ (\E w \in Threads : Holds(w, j)') \/ runs'[j] = 1
      BY <1>0, <2>8, <3>1, <3>2, Zenon DEF Custody
    <3>7. \A j \in Tasks : j \notin Range(accepted) => runs'[j] = IF told[j] = "inline" THEN 1 ELSE 0
      BY <1>0, <2>2, <2>8, Zenon DEF Custody
    <3> QED BY <1>0, <1>1, <3>4, <3>5, <3>6, <3>7, Zenon DEF Custody
  <2>13. Running'
    <3>1. \A u \in Threads : Range(frames[u]) \subseteq Tasks \ {x}
      BY <1>0, <2>2, RangeIs DEF Types, Running
    <3>2. \A u \in Threads : IsInjective(frames'[u])
      BY <1>0, <2>6, <2>7, Zenon DEF Running
    <3>3. \A v, u \in Threads : v # u => Range(frames'[v]) \cap Range(frames'[u]) = {}
      <4>1. \A u \in Threads : \A j \in Range(frames'[u]) : j \in Range(frames[u]) \/ (u = t /\ j = x)
        BY <2>6, <2>7
      <4> SUFFICES ASSUME NEW v \in Threads, NEW u \in Threads, v # u, NEW j,
                          j \in Range(frames'[v]), j \in Range(frames'[u]) PROVE FALSE
        BY Zenon
      <4>2. ~(j \in Range(frames[v]) /\ j \in Range(frames[u]))
        BY <1>0, Zenon DEF Running
      <4> QED BY <3>1, <4>1, <4>2
    <3>4. \A u \in Threads : \A j \in Range(frames'[u]) :
            runs'[j] = 1 /\ (u \notin Workers => told'[j] = "inline")
      BY <1>0, <2>6, <2>7, <2>8, <3>1, Zenon DEF Running
    <3> QED BY <3>2, <3>3, <3>4, Zenon DEF Running
  <2> QED BY <2>5, <2>9, <2>10, <2>11, <2>12, <2>13, Zenon DEF Inv
<1> QED BY <1>2, <1>3, Zenon
-----------------------------------------------------------------------------
\* The steps of a thread, by what they are about: the queue, a task, the end of join,
\* or the control of the pool and of its threads.
PeriodicMove(t) ==
  \/ periodic_check(t) \/ periodic_wait(t) \/ periodic_recheck(t) \/ periodic_done(t)
  \/ periodic_expire(t) \/ periodic_spurious(t)

Control(t) ==
  \/ setup_threads(t) \/ put_periodic(t) \/ (\E b \in BOOLEAN : shutdown_call(t, b))
  \/ shutdown_graceful(t) \/ shutdown_return(t) \/ join_lock(t) \/ blocking_thread_stopping(t)
  \/ (t \in Periodics /\ (PeriodicMove(t) \/ periodic_run(t)))

TaskMove(t) ==
  \/ (\E k \in Tasks : put_check(t, k)) \/ put_return(t) \/ finish_task(t)
  \/ (t \in Workers /\ worker_run(t))

\* Every step of the pool is one of these.
LEMMA NextKinds ==
  ASSUME Next \/ Ended, ~UNCHANGED vars
  PROVE  \E t \in Threads : InQueue(t) \/ TaskMove(t) \/ join_return(t) \/ Control(t)
<1>1. PICK t \in Threads :
        \/ Run(t) \/ CallPool(t)
        \/ QueueContinue(t) \/ QueueExpire(t) \/ QueueSpurious(t)
        \/ t \in Periodics /\ (periodic_expire(t) \/ periodic_spurious(t))
  BY Zenon DEF Next, Ended
<1>2. InQueue(t) \/ TaskMove(t) \/ join_return(t) \/ Control(t)
  BY <1>1, Zenon DEF Run, CallPool, InQueue, TaskMove, Control, PeriodicMove
<1> QED BY <1>2

\* The invariant holds when the constructor begins.
LEMMA InitInv ==
  ASSUME Init
  PROVE  Inv
<1>1. /\ m_buffer = <<>> /\ accepted = <<>> /\ m_state = "open" /\ m_poolState = "running"
      /\ op = [t \in Threads |-> "put"] /\ pc = [t \in Threads |-> "idle"]
      /\ item = [t \in Threads |-> 0] /\ erc = [t \in Threads |-> "none"]
  BY DEF Init, Queue!Init, Queue!NoItem
<1>2. /\ m_mtx = {} /\ m_joinMtx = {} /\ m_activeWorkers = <<>> /\ m_periodicWorkers = <<>>
      /\ arg = [t \in Threads |-> 0] /\ frames = [t \in Threads |-> <<>>]
      /\ next = [t \in Threads |-> 0] /\ told = [k \in Tasks |-> "nothing"]
      /\ runs = [k \in Tasks |-> 0] /\ late = [p \in Periodics |-> 0] /\ shutReturned = FALSE
      /\ at = [t \in Threads |-> IF t = Creator THEN "ctor"
                                 ELSE IF t \in Clients THEN "outside" ELSE "unborn"]
  BY DEF Init
<1>3. /\ at \in [Threads -> {"ctor", "outside", "unborn"}] /\ at[Creator] = "ctor"
      /\ \A t \in Threads : at[t] = "ctor" => t = Creator
      /\ \A c \in Clients \ {Creator} : at[c] = "outside"
      /\ \A t \in Workers \cup Periodics : at[t] = "unborn"
  BY <1>2, ThreadFacts
<1>4. Range(<<>>) = {} /\ IsInjective(<<>>)
  BY DEF Range, IsInjective
<1>5. Types
  BY <1>1, <1>2, <1>3 DEF Types, Places
<1>6. QueueTypes
  BY <1>1 DEF QueueTypes, Queue!OpNames, Queue!Points, Queue!Results
<1>7. Agree /\ Stacks
  BY <1>1, <1>2, <1>3 DEF Agree, AgreeAt, Stacks, StackAt, StackOf, CallPlaces
<1>8. Stopping /\ Drained
  BY <1>1, <1>2, <1>3, ThreadFacts DEF Stopping, Drained
<1>9. Stopped
  BY <1>1, <1>2, <1>3, <1>4 DEF Stopped
<1>10. Construction
  BY <1>1, <1>2, <1>3, ThreadFacts DEF Construction
<1>11. Lateness
  BY <1>2 DEF Lateness
<1>12. \A t \in Threads : ~Putting(t) /\ ~Admitted(t) /\ \A k \in Tasks : ~Holds(t, k)
  BY <1>3 DEF Putting, Admitted, Holds
<1>13. Ledger
  BY <1>1, <1>2, <1>4, <1>12 DEF Ledger
<1>14. Custody /\ Running
  BY <1>1, <1>2, <1>4, <1>12 DEF Custody, Running
<1> QED
  BY <1>5, <1>6, <1>7, <1>8, <1>9, <1>10, <1>11, <1>13, <1>14, Zenon DEF Inv

\* A step that changes nothing preserves the invariant.
LEMMA StutterInv ==
  ASSUME Inv, UNCHANGED vars
  PROVE  Inv'
<1>1. /\ UNCHANGED <<m_buffer, m_state, op, pc, item, erc, accepted, m_poolState>>
      /\ UNCHANGED <<m_mtx, m_joinMtx, next, m_activeWorkers, m_periodicWorkers, at, arg, frames>>
      /\ UNCHANGED <<told, runs, late, shutReturned>>
  BY Zenon DEF vars, queueVars, locks, threads, history
<1>2. Types' /\ QueueTypes' /\ Agree' /\ Stacks'
  BY <1>1, Zenon DEF Inv, Types, QueueTypes, Agree, AgreeAt, Stacks, StackAt, StackOf
<1>3. Stopping' /\ Stopped' /\ Drained' /\ Construction' /\ Lateness'
  BY <1>1, Zenon DEF Inv, Stopping, Stopped, JoinOrder, Drained, Construction, Unconstructed, Unborn, Lateness
<1>4. Ledger' /\ Custody' /\ Running'
  <2>1. Ledger'
    <3>1. \A t \in Threads : (Putting(t)' <=> Putting(t)) /\ (Admitted(t)' <=> Admitted(t))
      BY <1>1, Zenon DEF Putting, Admitted
    <3>2. told' = told /\ arg' = arg /\ accepted' = accepted /\ Ledger
      BY <1>1, Zenon DEF Inv
    <3> QED BY <3>1, <3>2, Zenon DEF Ledger
  <2>2. Custody'
    BY <1>1, Zenon DEF Inv, Custody, Holds
  <2>3. Running'
    BY <1>1, Zenon DEF Inv, Running
  <2> QED BY <2>1, <2>2, <2>3
<1> QED BY <1>2, <1>3, <1>4, Zenon DEF Inv

\* Every step preserves the invariant.
LEMMA NextInv ==
  ASSUME Inv, [Next \/ Ended]_vars
  PROVE  Inv'
<1>1. CASE UNCHANGED vars
  BY <1>1, StutterInv
<1>2. CASE ~UNCHANGED vars
  <2>1. PICK t \in Threads : InQueue(t) \/ TaskMove(t) \/ join_return(t) \/ Control(t)
    BY <1>2, NextKinds
  <2>2. CASE InQueue(t)
    BY <2>2, QueueInv
  <2>3. CASE TaskMove(t)
    BY <2>3, PutCheckStep, PutReturnStep, FinishStep, WorkerRunStep, Zenon DEF TaskMove
  <2>4. CASE join_return(t)
    BY <2>4, JoinReturnStep
  <2>5. CASE Control(t)
    BY <2>5, SetupStep, PutPeriodicStep, ShutdownCallStep, ShutdownStep, ShutdownReturnStep,
       JoinLockStep, JoinLoopStep, PeriodicStep, PeriodicRunStep, Zenon DEF Control, PeriodicMove
  <2> QED BY <2>1, <2>2, <2>3, <2>4, <2>5
<1> QED BY <1>1, <1>2

\* Whatever the interleaving of clients, workers and periodic threads, the invariant holds.
THEOREM PoolInvariant == Spec => []Inv
<1>1. Init => Inv
  BY InitInv
<1>2. Inv /\ [Next \/ Ended]_vars => Inv'
  BY NextInv
<1> QED BY <1>1, <1>2, PTL DEF Spec

\* A stopped pool has run every task it accepted.
LEMMA StoppedFacts ==
  ASSUME Inv
  PROVE  StoppedMeansDrained
<1> SUFFICES ASSUME m_poolState = "stopped"
             PROVE  /\ m_buffer = <<>> /\ (\A k \in Range(accepted) : runs[k] = 1)
                    /\ Alive(Workers \cup Periodics) = {}
  BY Zenon DEF StoppedMeansDrained
<1>   Types /\ QueueTypes /\ Agree /\ Stopped /\ Drained /\ Construction /\ Custody
  BY DEF Inv
<1>1. \A t \in Workers \cup Periodics : at[t] \in {"unborn", "exited"}
  BY DEF Stopped
<1>2. Alive(Workers \cup Periodics) = {}
  BY <1>1 DEF Alive
<1>3. m_buffer = <<>>
  <2>1. CASE Unborn(Workers) # {}
    BY <2>1 DEF Construction, Unconstructed
  <2>2. CASE Unborn(Workers) = {}
    <3>1. PICK w \in Workers : TRUE
      BY PoolAssumption DEF PoolAssumption
    <3>2. at[w] = "exited"
      BY <1>1, <2>2, <3>1 DEF Unborn
    <3> QED BY <3>1, <3>2 DEF Drained
  <2> QED BY <2>1, <2>2
<1>4. \A t \in Threads : \A k \in Tasks : ~Holds(t, k)
  BY <1>1, Zenon DEF Holds, Agree, AgreeAt
<1>5. Range(m_buffer) = {} /\ Range(accepted) \subseteq Tasks
  BY <1>3, RangeIs, Zenon DEF QueueTypes
<1>6. \A k \in Range(accepted) : runs[k] = 1
  BY <1>4, <1>5, Zenon DEF Custody
<1> QED BY <1>2, <1>3, <1>6, Zenon

\* Stopping is safe for every pool: a returned shutdown_graceful has closed the queue, a
\* periodic function starts at most once more after it, and when join has made the pool
\* "stopped" every accepted task has run and no thread of the pool is left.
THEOREM StoppingIsSafe == Spec => []StopSafe
<1>1. ASSUME Inv PROVE StopSafe
  <2>1. TypeOK
    BY <1>1, RangeIs DEF Inv, Types, TypeOK
  <2>2. ShutdownReturnsClosed
    BY <1>1 DEF Inv, Stopping, ShutdownReturnsClosed
  <2>3. PeriodicStopsSoon
    BY <1>1 DEF Inv, Lateness, PeriodicStopsSoon
  <2> QED BY <1>1, <2>1, <2>2, <2>3, StoppedFacts DEF StopSafe
<1> QED BY <1>1, PoolInvariant, PTL
-----------------------------------------------------------------------------
\* What a step does to the threads that are in join.
JoinStep ==
  /\ \A t \in Threads : Joins(t) /\ ~Joins(t)' => m_poolState' = "stopped"
  /\ \A w \in Workers \cup Periodics : w \in joining => w \in joining'
  /\ m_periodicWorkers' # m_periodicWorkers => \A t \in Threads : ~Joins(t)

\* A step that moves one thread which is not in join.
LEMMA NotInJoin ==
  ASSUME Types, NEW t \in Threads, ~Joins(t), NEW p, Goto(t, p) \/ UNCHANGED at,
         joining \subseteq joining', UNCHANGED m_periodicWorkers
  PROVE  JoinStep
<1>1. \A u \in Threads \ {t} : at'[u] = at[u]
  BY DEF Goto, Types
<1> QED BY <1>1, Zenon DEF JoinStep, Joins

\* Only a stopped pool lets join return, and then to no thread of the pool.
LEMMA JoinSteps ==
  ASSUME Inv, [Next \/ Ended]_vars
  PROVE  JoinStep \/ UNCHANGED vars
<1>   Types /\ Stopping /\ Stopped /\ Construction
  BY DEF Inv
<1> SUFFICES ASSUME ~UNCHANGED vars PROVE JoinStep
  OBVIOUS
<1>1. PICK t \in Threads : InQueue(t) \/ TaskMove(t) \/ join_return(t) \/ Control(t)
  BY NextKinds
<1>2. CASE InQueue(t)
  <2>1. QueueStep(t)
    <3>1. Callers
      BY Zenon DEF Inv, Callers, Ledger
    <3> QED BY <1>2, <3>1, QueueSteps
  <2>2. UNCHANGED <<joining, m_periodicWorkers>>
    BY <2>1, Zenon DEF QueueStep, PutStep, TakeStep, CloseStep, MoveStep, Elsewhere, locks, threads
  <2>3. CASE PutStep(t) \/ TakeStep(t) \/ CloseStep(t)
    <3>1. ~Joins(t) /\ \E p \in Places : Goto(t, p)
      BY <2>3, Zenon DEF PutStep, TakeStep, CloseStep, Joins, Goto, Places, CallPlaces
    <3> QED BY <2>2, <3>1, NotInJoin
  <2>4. CASE MoveStep(t)
    BY <2>2, <2>4, Zenon DEF MoveStep, JoinStep, Joins
  <2> QED BY <2>1, <2>3, <2>4 DEF QueueStep
<1>3. CASE TaskMove(t)
  <2>1. CASE \E k \in Tasks : put_check(t, k)
    <3>1. ~Joins(t) /\ (Goto(t, "enqueue") \/ UNCHANGED at) /\ UNCHANGED <<joining, m_periodicWorkers>>
      BY <2>1 DEF put_check, MayCall, Joins, locks, threads
    <3> QED BY <3>1, NotInJoin
  <2>2. CASE put_return(t)
    <3>1. ~Joins(t) /\ (Goto(t, "body") \/ Goto(t, Here(t))) /\ UNCHANGED <<joining, m_periodicWorkers>>
      BY <2>2, Zenon DEF put_return, Joins, locks, threads
    <3> QED BY <3>1, NotInJoin
  <2>3. CASE finish_task(t)
    <3>1. ~Joins(t) /\ Goto(t, UserCode(t, Outer(t))) /\ UNCHANGED <<joining, m_periodicWorkers>>
      BY <2>3 DEF finish_task, Joins, locks, threads
    <3> QED BY <3>1, NotInJoin
  <2>4. CASE t \in Workers /\ worker_run(t)
    <3>1. /\ ~Joins(t) /\ (Goto(t, "exited") \/ Goto(t, "loop") \/ Goto(t, "body"))
          /\ UNCHANGED <<joining, m_periodicWorkers>>
      BY <2>4, Zenon DEF worker_run, Joins, locks, threads
    <3> QED BY <3>1, NotInJoin
  <2> QED BY <1>3, <2>1, <2>2, <2>3, <2>4 DEF TaskMove
<1>4. CASE join_return(t)
  <2>1. \A w \in Workers \cup Periodics : w # t
    <3>1. at[t] = "join_loop" /\ next[t] > Len(JoinOrder)
      BY <1>4 DEF join_return
    <3> QED BY <3>1, JoinDoneFacts
  <2> QED BY <1>4, <2>1, Zenon DEF join_return, JoinStep, threads
<1>5. CASE join_lock(t)
  <2>1. UNCHANGED <<m_periodicWorkers, m_poolState>> /\ at[t] = "join_lock"
    BY <1>5 DEF join_lock, threads
  <2>2. CASE JoinDone
    <3>1. m_poolState' = "stopped" /\ \A w \in Workers \cup Periodics : w # t
      BY <2>1, <2>2, Zenon DEF JoinDone, Stopped
    <3>2. joining' = joining \ {t}
      BY <1>5, <2>2 DEF join_lock
    <3> QED BY <2>1, <3>1, <3>2 DEF JoinStep
  <2>3. CASE ~JoinDone
    <3>1. Goto(t, "join_loop") /\ UNCHANGED joining
      BY <1>5, <2>3 DEF join_lock
    <3>2. at'[t] = "join_loop" /\ \A u \in Threads \ {t} : at'[u] = at[u]
      BY <3>1 DEF Types, Goto
    <3> QED BY <2>1, <3>1, <3>2, Zenon DEF JoinStep, Joins
  <2> QED BY <2>2, <2>3
<1>6. CASE blocking_thread_stopping(t)
  BY <1>6 DEF blocking_thread_stopping, JoinStep, Joins, threads
<1>7. CASE setup_threads(t)
  <2>1. at[t] = "ctor" /\ m_poolState = "running" /\ UNCHANGED m_periodicWorkers /\ joining \subseteq joining'
    BY <1>7, Zenon DEF setup_threads, Construction
  <2>2. \A u \in Threads : ~Joins(u)
    BY <2>1 DEF Stopping, Joins
  <2> QED BY <2>1, <2>2 DEF JoinStep
<1>8. CASE put_periodic(t)
  <2>1. \A u \in Threads : ~Joins(u)
    BY <1>8 DEF put_periodic, MayAddPeriodic, Stopping, Joins
  <2> QED BY <1>8, <2>1 DEF put_periodic, locks, JoinStep
<1>9. CASE (\E b \in BOOLEAN : shutdown_call(t, b)) \/ shutdown_return(t)
  <2>1. /\ ~Joins(t) /\ (Goto(t, "shutdown") \/ Goto(t, AfterShutdown(t)))
        /\ joining \subseteq joining' /\ UNCHANGED m_periodicWorkers
    BY <1>9, Zenon DEF shutdown_call, shutdown_return, MayCall, Joins, threads
  <2> QED BY <2>1, NotInJoin
<1>10. CASE shutdown_graceful(t)
  <2>1. ~Joins(t) /\ UNCHANGED <<joining, m_periodicWorkers>>
    BY <1>10 DEF shutdown_graceful, Joins, threads
  <2>2. CASE m_poolState # "running"
    BY <1>10, <2>1, <2>2, NotInJoin DEF shutdown_graceful
  <2>3. CASE m_poolState = "running"
    BY <2>1, <2>3 DEF Stopping, Joins, JoinStep
  <2> QED BY <2>2, <2>3
<1>11. CASE t \in Periodics /\ (PeriodicMove(t) \/ periodic_run(t))
  <2>1. /\ ~Joins(t) /\ UNCHANGED <<joining, m_periodicWorkers>> /\ \E p \in Places : Goto(t, p)
    <3>1. CASE periodic_run(t)
      BY <3>1 DEF periodic_run, Joins, locks, threads, Places
    <3>2. CASE PeriodicMove(t)
      <4>1. ~Joins(t) /\ \E p \in Places : Move(t, p)
        BY <3>2 DEF PeriodicMove, periodic_check, periodic_wait, periodic_recheck, periodic_done,
                    periodic_expire, periodic_spurious, Joins, Places
      <4> QED BY <4>1 DEF Move, locks, threads
    <3> QED BY <1>11, <3>1, <3>2
  <2> QED BY <2>1, NotInJoin
<1> QED
  BY <1>1, <1>2, <1>3, <1>4, <1>5, <1>6, <1>7, <1>8, <1>9, <1>10, <1>11, Zenon DEF Control

\* join() is sound for every number of concurrent or repeated callers: it returns only
\* when the pool is stopped, never to a thread of the pool itself, and the list of periodic
\* threads it walks without m_mtx does not change under it.
THEOREM JoinIsSound == Spec => JoinSound
<1>1. Inv /\ [Next \/ Ended]_vars => [JoinStep]_vars
  BY JoinSteps
<1>2. Spec => [][JoinStep]_vars
  BY <1>1, PoolInvariant, PTL DEF Spec
<1> QED BY <1>2 DEF JoinSound, JoinStep
-----------------------------------------------------------------------------
\* The service the pool implements: what it shows of the pool's phase.
Phase ==
  IF m_poolState = "stopped" THEN "drained" ELSE IF m_state = "closing" THEN "closed" ELSE "open"

\* What a step may do to one task's status.
Moves ==
  {<<"new", "refused">>, <<"new", "inline">>, <<"queued", "running">>,
   <<"running", "done">>, <<"inline", "done">>}

\* A step of the pool that shows nothing is no step of the service.
LEMMA ServiceStutter ==
  ASSUME \A j \in Tasks : Status(j)' = Status(j), Phase' = Phase
  PROVE  UNCHANGED Service!vars
BY DEF Service!vars, Phase

\* A step that moves one task is a step of the service.
LEMMA ServiceMove ==
  ASSUME NEW k \in Tasks, \A j \in Tasks \ {k} : Status(j)' = Status(j), Phase' = Phase,
         \/ <<Status(k), Status(k)'>> \in Moves
         \/ Phase = "open" /\ Status(k) = "new" /\ Status(k)' = "queued"
  PROVE  Service!Next
<1> DEFINE s == [j \in Tasks |-> Status(j)]
<1>1. s[k] = Status(k) /\ s' = [s EXCEPT ![k] = Status(k)']
  BY Zenon
<1>2. \A old, new : Status(k) = old /\ Status(k)' = new => Service!Becomes(k, old, new)
  BY <1>1 DEF Service!Becomes
<1>3. CASE <<Status(k), Status(k)'>> \in Moves
  <2>1. \/ Service!Becomes(k, "new", "refused") \/ Service!Becomes(k, "new", "inline")
        \/ Service!Becomes(k, "queued", "running") \/ Service!Becomes(k, "running", "done")
        \/ Service!Becomes(k, "inline", "done")
    BY <1>2, <1>3 DEF Moves
  <2> QED
    BY <2>1, Zenon DEF Service!Next, Service!Refuse, Service!Inline, Service!Start, Service!Finish, Phase
<1>4. CASE Phase = "open" /\ Status(k) = "new" /\ Status(k)' = "queued"
  BY <1>2, <1>4 DEF Service!Next, Service!Admit, Phase
<1> QED BY <1>3, <1>4

\* A step that closes or drains the pool is a step of the service.
LEMMA ServicePhase ==
  ASSUME \A j \in Tasks : Status(j)' = Status(j),
         \/ Phase = "open" /\ Phase' = "closed"
         \/ /\ Phase = "closed" /\ Phase' = "drained"
            /\ \A j \in Tasks : Status(j) \notin {"queued", "running"}
  PROVE  Service!Next
<1>1. [j \in Tasks |-> Status(j)]' = [j \in Tasks |-> Status(j)]
  OBVIOUS
<1>2. \A k \in Tasks : [j \in Tasks |-> Status(j)][k] = Status(k)
  OBVIOUS
<1>3. CASE Phase = "open" /\ Phase' = "closed"
  BY <1>1, <1>3, Zenon DEF Service!Next, Service!Close, Phase
<1>4. CASE /\ Phase = "closed" /\ Phase' = "drained"
           /\ \A j \in Tasks : Status(j) \notin {"queued", "running"}
  BY <1>1, <1>2, <1>4, Zenon DEF Service!Next, Service!Drain, Phase
<1> QED BY <1>3, <1>4

\* A task whose records a step leaves alone keeps its status.
LEMMA SameStatus ==
  ASSUME NEW j \in Tasks, told'[j] = told[j], runs'[j] = runs[j],
         j \in Range(accepted') <=> j \in Range(accepted), InFrames(j)' <=> InFrames(j)
  PROVE  Status(j)' = Status(j)
BY DEF Status

\* A step that leaves the tasks' records alone and does not move the phase.
LEMMA QuietService ==
  ASSUME UNCHANGED <<told, runs, accepted, frames>>, Phase' = Phase
  PROVE  UNCHANGED Service!vars
<1>1. \A j \in Tasks : Status(j)' = Status(j)
  BY Zenon DEF Status, InFrames
<1> QED BY <1>1, ServiceStutter

\* Storing a task in the queue admits it, closing the queue closes the service.
LEMMA QueueService ==
  ASSUME Inv, NEW t \in Threads, InQueue(t)
  PROVE  Service!Next \/ UNCHANGED Service!vars
<1>0. Types /\ QueueTypes /\ Stopped /\ Ledger /\ Custody /\ Callers
  BY Zenon DEF Inv, Callers, Ledger
<1>1. QueueStep(t)
  BY <1>0, QueueSteps
<1>2. Elsewhere(t) /\ UNCHANGED <<m_poolState, frames, told, runs, arg>>
  BY <1>1, Zenon DEF QueueStep, PutStep, TakeStep, CloseStep, MoveStep, Elsewhere, history
<1>3. CASE PutStep(t) /\ Stores(t)
  <2>1. PICK x \in Tasks : x = arg[t] /\ told[x] = "nothing"
    BY <1>0, <1>3, Zenon DEF PutStep, Ledger, Putting
  <2>2. x \notin Range(accepted)
    <3>1. Putting(t) /\ ~Admitted(t)
      BY <1>3, Zenon DEF PutStep, Putting, Admitted
    <3>2. \A u \in Threads : Admitted(u) => Putting(u)
      BY Zenon DEF Admitted, Putting
    <3> QED BY <1>0, <2>1, <3>1, <3>2, Zenon DEF Ledger
  <2>3. runs[x] = 0
    BY <1>0, <2>1, <2>2, Zenon DEF Custody
  <2>4. Range(accepted') = Range(accepted) \cup {x}
    BY <1>0, <1>3, <2>1, AppendFacts DEF Stores, QueueTypes
  <2>5. \A j \in Tasks \ {x} : Status(j)' = Status(j)
    <3>1. \A j \in Tasks : InFrames(j)' <=> InFrames(j)
      BY <1>2 DEF InFrames
    <3> QED BY <1>2, <2>4, <3>1, SameStatus, Zenon
  <2>6. Status(x) = "new" /\ Status(x)' = "queued"
    BY <1>2, <2>1, <2>2, <2>3, <2>4, Zenon DEF Status, Rejections
  <2>7. Phase = "open" /\ Phase' = Phase
    BY <1>0, <1>2, <1>3, Zenon DEF Stores, Phase, Stopped
  <2> QED BY <2>5, <2>6, <2>7, ServiceMove, Zenon
<1>4. CASE CloseStep(t)
  <2>1. \A j \in Tasks : Status(j)' = Status(j)
    BY <1>2, <1>4, Zenon DEF CloseStep, Status, InFrames
  <2>2. (Phase = "open" /\ Phase' = "closed") \/ Phase' = Phase
    BY <1>0, <1>2, <1>4, Zenon DEF CloseStep, Phase, QueueTypes, Stopped
  <2> QED BY <2>1, <2>2, ServicePhase, ServiceStutter
<1>5. CASE (PutStep(t) /\ Idles(t)) \/ TakeStep(t) \/ MoveStep(t)
  <2>1. accepted' = accepted /\ m_state' = m_state
    BY <1>5, Zenon DEF TakeStep, MoveStep, Idles, Removes
  <2>2. Phase' = Phase
    BY <1>2, <2>1 DEF Phase
  <2> QED BY <1>2, <2>1, <2>2, QuietService
<1> QED BY <1>1, <1>3, <1>4, <1>5, Zenon DEF QueueStep, PutStep

\* A put refused at the door.
LEMMA PutCheckService ==
  ASSUME Inv, NEW t \in Threads, NEW k \in Tasks, put_check(t, k)
  PROVE  Service!Next \/ UNCHANGED Service!vars
<1>   /\ Ledger /\ Custody /\ told[k] = "nothing" /\ Types
      /\ \A u \in Threads : Putting(u) => arg[u] # k
      /\ UNCHANGED <<accepted, m_state, m_poolState, frames, runs>>
  BY DEF Inv, put_check, Putting, queueVars
<1>1. Phase' = Phase
  BY DEF Phase
<1>2. CASE UNCHANGED told
  BY <1>1, <1>2, QuietService
<1>3. CASE told' = [told EXCEPT ![k] = "ThreadPoolStopped"]
  <2>1. k \notin Range(accepted)
    BY DEF Ledger, Admitted, Putting
  <2>2. runs[k] = 0
    BY <2>1, Zenon DEF Custody
  <2>3. told'[k] = "ThreadPoolStopped" /\ \A j \in Tasks \ {k} : told'[j] = told[j]
    BY <1>3 DEF Types
  <2>4. \A j \in Tasks \ {k} : Status(j)' = Status(j)
    <3>1. \A j \in Tasks : InFrames(j)' <=> InFrames(j)
      BY Zenon DEF InFrames
    <3> QED BY <2>3, <3>1, SameStatus, Zenon
  <2>5. Status(k) = "new" /\ Status(k)' = "refused"
    BY <2>1, <2>2, <2>3, Zenon DEF Status, Rejections
  <2> QED BY <1>1, <2>4, <2>5, ServiceMove, Zenon DEF Moves
<1> QED BY <1>2, <1>3 DEF put_check

\* A put that returns refuses its task, runs it, or shows nothing: it was admitted.
LEMMA PutReturnService ==
  ASSUME Inv, NEW t \in Threads, put_return(t)
  PROVE  Service!Next \/ UNCHANGED Service!vars
<1>0. /\ Types /\ QueueTypes /\ Ledger /\ Custody /\ Running /\ AgreeAt(t)
      /\ at[t] = "queued" /\ pc[t] = "idle" /\ Putting(t)
      /\ UNCHANGED <<accepted, m_state, m_poolState>>
  BY Zenon DEF Inv, Agree, put_return, queueVars, Putting
<1>1. PICK x \in Tasks : x = arg[t] /\ told[x] = "nothing"
  BY <1>0, Zenon DEF Ledger
<1>2. PICK e \in {"accepted", "closed", "full", "timeout"} : e = erc[t]
  BY <1>0, Zenon DEF AgreeAt, Unaccepted, Queue!Blocked
<1>3. PICK r \in Rejections \cup {"accepted", "inline"} : r = Outcome(erc[t])
  BY <1>2 DEF Outcome, Rejections
<1>4. r = "accepted" <=> erc[t] = "accepted"
  BY <1>2, <1>3 DEF Outcome, Rejections
<1>5. /\ told' = [told EXCEPT ![x] = r]
      /\ r = "inline" => /\ frames' = [frames EXCEPT ![t] = Append(@, x)]
                         /\ runs' = [runs EXCEPT ![x] = @ + 1]
      /\ r # "inline" => UNCHANGED <<frames, runs>>
  BY <1>1, <1>3, Zenon DEF put_return
<1>6. told'[x] = r /\ \A j \in Tasks \ {x} : told'[j] = told[j]
  BY <1>0, <1>5 DEF Types
<1>7. r # "accepted" => x \notin Range(accepted) /\ runs[x] = 0
  <2>1. r # "accepted" => x \notin Range(accepted)
    BY <1>0, <1>1, <1>4, ZenonT(30) DEF Ledger, Admitted, Putting
  <2> QED BY <1>0, <1>1, <2>1, Zenon DEF Custody
<1>8. Phase' = Phase
  BY <1>0 DEF Phase
<1>9. CASE r = "inline"
  <2>1. /\ runs' = [runs EXCEPT ![x] = 1] /\ runs \in [Tasks -> Nat]
    BY <1>0, <1>5, <1>7, <1>9 DEF Types
  <2>2. runs'[x] = 1 /\ \A j \in Tasks \ {x} : runs'[j] = runs[j]
    BY <2>1, Zenon
  <2>3. frames[t] \in Seq(Tasks) /\ frames \in [Threads -> Seq(Tasks)]
    BY <1>0 DEF Types
  <2>4. Range(frames'[t]) = Range(frames[t]) \cup {x} /\ \A u \in Threads \ {t} : frames'[u] = frames[u]
    <3>1. Range(Append(frames[t], x)) = Range(frames[t]) \cup {x}
      BY <2>3, AppendFacts
    <3>2. frames'[t] = Append(frames[t], x) /\ \A u \in Threads \ {t} : frames'[u] = frames[u]
      BY <1>5, <1>9, <2>3, Zenon
    <3> QED BY <3>1, <3>2, Zenon
  <2>5. InFrames(x)' /\ \A j \in Tasks \ {x} : InFrames(j)' <=> InFrames(j)
    BY <2>4, Zenon DEF InFrames
  <2>6. \A j \in Tasks \ {x} : Status(j)' = Status(j)
    BY <1>0, <1>6, <2>2, <2>5, SameStatus, Zenon
  <2>7. Status(x) = "new" /\ Status(x)' = "inline"
    BY <1>1, <1>6, <1>7, <1>9, <2>2, <2>5 DEF Status, Rejections
  <2> QED BY <1>8, <2>6, <2>7, ServiceMove, Zenon DEF Moves
<1>10. CASE r # "inline"
  <2>1. \A j \in Tasks : (InFrames(j)' <=> InFrames(j)) /\ runs'[j] = runs[j]
    BY <1>5, <1>10, Zenon DEF InFrames
  <2>2. \A j \in Tasks \ {x} : Status(j)' = Status(j)
    BY <1>0, <1>6, <2>1, SameStatus, Zenon
  <2>3. CASE r = "accepted"
    <3>1. Status(x)' = Status(x)
      BY <1>0, <1>1, <1>6, <2>1, <2>3, Zenon DEF Status, Rejections
    <3>2. \A j \in Tasks : Status(j)' = Status(j)
      BY <2>2, <3>1, Zenon
    <3> QED BY <1>8, <3>2, ServiceStutter, Zenon
  <2>4. CASE r \in Rejections
    <3>1. Status(x) = "new" /\ Status(x)' = "refused"
      BY <1>0, <1>1, <1>6, <1>7, <2>1, <2>4, Zenon DEF Status, Rejections
    <3> QED BY <1>8, <2>2, <3>1, ServiceMove, Zenon DEF Moves
  <2> QED BY <1>10, <2>3, <2>4, Zenon
<1> QED BY <1>9, <1>10

\* The innermost task of a thread ends: it is on no other stack.
LEMMA FinishService ==
  ASSUME Inv, NEW t \in Threads, finish_task(t)
  PROVE  Service!Next \/ UNCHANGED Service!vars
<1>0. /\ Types /\ Ledger /\ Custody /\ Running /\ StackAt(t) /\ at[t] = "body"
      /\ frames' = [frames EXCEPT ![t] = Outer(t)]
      /\ UNCHANGED <<accepted, m_state, m_poolState, told, runs>>
  BY DEF Inv, Stacks, finish_task, queueVars, history
<1>1. frames[t] \in Seq(Tasks) /\ frames[t] # <<>> /\ IsInjective(frames[t])
  BY <1>0 DEF Types, Running, StackAt, StackOf
<1>2. PICK x \in Tasks : x = Innermost(t) /\ x \in Range(frames[t]) /\ Range(Outer(t)) = Range(frames[t]) \ {x}
  BY <1>1, OuterFacts DEF Outer, Innermost
<1>3. /\ Range(frames'[t]) = Range(frames[t]) \ {x}
      /\ \A u \in Threads \ {t} : frames'[u] = frames[u] /\ x \notin Range(frames[u])
  <2>1. \A u \in Threads \ {t} : x \notin Range(frames[u])
    BY <1>0, <1>2, Zenon DEF Running
  <2>2. frames'[t] = Outer(t) /\ \A u \in Threads \ {t} : frames'[u] = frames[u]
    BY <1>0 DEF Types
  <2> QED BY <1>2, <2>1, <2>2
<1>4. InFrames(x) /\ ~InFrames(x)' /\ \A j \in Tasks \ {x} : InFrames(j)' <=> InFrames(j)
  BY <1>2, <1>3 DEF InFrames
<1>5. runs[x] = 1 /\ told[x] \notin Rejections
  <2>1. runs[x] = 1
    BY <1>0, <1>2, Zenon DEF Running
  <2>2. CASE x \in Range(accepted)
    <3>1. told[x] \in {"accepted", "nothing"}
      BY <1>0, <2>2 DEF Ledger, Admitted, Putting
    <3> QED BY <2>1, <3>1, Zenon DEF Rejections
  <2>3. CASE x \notin Range(accepted)
    <3>1. told[x] = "inline"
      BY <1>0, <2>1, <2>3, SMTT(30) DEF Custody
    <3> QED BY <2>1, <3>1 DEF Rejections
  <2> QED BY <2>2, <2>3
<1>6. \A j \in Tasks \ {x} : Status(j)' = Status(j)
  BY <1>0, <1>4, SameStatus, Zenon
<1>7. Status(x) \in {"inline", "running"} /\ Status(x)' = "done"
  BY <1>0, <1>4, <1>5 DEF Status
<1>8. Phase' = Phase
  BY <1>0 DEF Phase
<1> QED BY <1>6, <1>7, <1>8, ServiceMove DEF Moves

\* A worker starts the task it was handed.
LEMMA WorkerRunService ==
  ASSUME Inv, NEW t \in Workers, worker_run(t)
  PROVE  Service!Next \/ UNCHANGED Service!vars
<1>0. /\ t \in Threads /\ Types /\ Ledger /\ Custody /\ Running /\ AgreeAt(t) /\ StackAt(t)
      /\ at[t] = "taking" /\ UNCHANGED <<accepted, m_state, m_poolState, told>>
  BY Zenon DEF Inv, Agree, Stacks, worker_run, queueVars, Threads
<1>1. Phase' = Phase
  BY <1>0 DEF Phase
<1>2. CASE erc[t] # "item"
  <2>1. UNCHANGED <<frames, runs>>
    BY <1>2, Zenon DEF worker_run
  <2> QED BY <1>0, <1>1, <2>1, QuietService
<1>3. CASE erc[t] = "item"
  <2>1. PICK x \in Tasks : x = item[t]
    BY <1>0, <1>3, Zenon DEF AgreeAt
  <2>2. runs[x] = 0 /\ x \in Range(accepted)
    BY <1>0, <1>3, <2>1, Zenon DEF Custody, Holds
  <2>3. told[x] \in {"accepted", "nothing"}
    BY <1>0, <2>2 DEF Ledger, Admitted, Putting
  <2>4. frames' = [frames EXCEPT ![t] = <<x>>] /\ runs' = [runs EXCEPT ![x] = runs[x] + 1]
    BY <1>3, <2>1, Zenon DEF worker_run
  <2>5. runs'[x] = 1 /\ \A j \in Tasks \ {x} : runs'[j] = runs[j]
    <3>1. runs' = [runs EXCEPT ![x] = 1] /\ runs \in [Tasks -> Nat]
      BY <1>0, <2>2, <2>4 DEF Types
    <3> QED BY <3>1
  <2>6. Range(<<x>>) = {x} /\ Range(<<>>) = {} /\ frames[t] = <<>>
    BY <1>0 DEF Range, StackAt, StackOf, CallPlaces
  <2>7. frames'[t] = <<x>> /\ \A u \in Threads \ {t} : frames'[u] = frames[u]
    BY <1>0, <2>4 DEF Types
  <2>8. InFrames(x)' /\ \A j \in Tasks \ {x} : InFrames(j)' <=> InFrames(j)
    BY <1>0, <2>6, <2>7, Zenon DEF InFrames
  <2>9. \A j \in Tasks \ {x} : Status(j)' = Status(j)
    BY <1>0, <2>5, <2>8, SameStatus, Zenon
  <2>10. Status(x) = "queued" /\ Status(x)' = "running"
    <3>1. told[x] \notin Rejections /\ told[x] # "inline" /\ told' = told
      BY <1>0, <2>3 DEF Rejections
    <3>2. Status(x) = "queued"
      BY <2>2, <3>1 DEF Status
    <3>3. Status(x)' = "running"
      BY <2>5, <2>8, <3>1 DEF Status
    <3> QED BY <3>2, <3>3
  <2> QED BY <1>1, <2>9, <2>10, ServiceMove DEF Moves
<1> QED BY <1>2, <1>3, Zenon

\* join returns: nothing that was admitted is still waiting or running.
LEMMA JoinReturnService ==
  ASSUME Inv, NEW t \in Threads, join_return(t)
  PROVE  Service!Next \/ UNCHANGED Service!vars
<1>0. /\ Types /\ Stacks /\ Stopping /\ Running /\ at[t] = "join_loop" /\ next[t] > Len(JoinOrder)
      /\ UNCHANGED <<accepted, m_state, told, runs, frames>> /\ m_poolState' = "stopped"
      /\ m_state = "closing"
  BY Zenon DEF Inv, join_return, queueVars, history, Stopping
<1>1. \A j \in Tasks : Status(j)' = Status(j)
  BY <1>0, Zenon DEF Status, InFrames
<1>2. Phase \in {"closed", "drained"} /\ Phase' = "drained"
  BY <1>0 DEF Phase
<1>3. \A k \in Range(accepted) : runs[k] = 1
  <2>1. Inv'
    BY JoinReturnStep
  <2>2. StoppedMeansDrained'
    BY <2>1, StoppedFacts, PTL
  <2> QED BY <1>0, <2>2, Zenon DEF StoppedMeansDrained
<1>4. \A j \in Tasks : InFrames(j) => told[j] = "inline"
  <2>1. \A u \in Workers \cup Periodics : at[u] \in {"unborn", "exited"}
    BY <1>0, JoinDoneFacts
  <2>2. Range(<<>>) = {}
    BY DEF Range
  <2>3. \A w \in Workers : Range(frames[w]) = {}
    BY <1>0, <2>1, <2>2, ThreadFacts DEF Stacks, StackAt, StackOf, CallPlaces
  <2> QED BY <1>0, <2>3 DEF InFrames, Running
<1>5. \A j \in Tasks : Status(j) \notin {"queued", "running"}
  BY <1>3, <1>4 DEF Status
<1> QED BY <1>1, <1>2, <1>5, ServicePhase, ServiceStutter

\* Control steps show nothing.
LEMMA ControlService ==
  ASSUME Inv, NEW t \in Threads, Control(t)
  PROVE  UNCHANGED Service!vars
<1>1. UNCHANGED <<told, runs, accepted, frames, m_state>>
  BY Zenon DEF Control, setup_threads, put_periodic, shutdown_call, shutdown_graceful, shutdown_return,
     join_lock, blocking_thread_stopping, PeriodicMove, periodic_check, periodic_wait,
     periodic_recheck, periodic_done, periodic_expire, periodic_spurious, periodic_run, Move,
     queueVars, history
<1>2. m_poolState' = m_poolState \/ (m_poolState = "running" /\ m_poolState' = "stopping")
  BY Zenon DEF Control, setup_threads, put_periodic, shutdown_call, shutdown_graceful, shutdown_return,
     join_lock, blocking_thread_stopping, PeriodicMove, periodic_check, periodic_wait,
     periodic_recheck, periodic_done, periodic_expire, periodic_spurious, periodic_run, Move
<1>3. Phase' = Phase
  BY <1>1, <1>2 DEF Phase
<1> QED BY <1>1, <1>3, QuietService

\* The pool implements the task service: whatever the interleaving, every task is admitted,
\* run by its submitter or refused, an admitted one is started once and only before it is
\* done, nothing is admitted after closing, a refused one never runs, and the pool is
\* stopped only when everything it admitted has ended.
THEOREM PoolImplementsService == Spec => ImplementsService
<1>1. Init => Service!Init
  <2> SUFFICES ASSUME Init PROVE Service!Init
    OBVIOUS
  <2>1. /\ m_state = "open" /\ m_poolState = "running" /\ accepted = <<>>
        /\ told = [k \in Tasks |-> "nothing"] /\ runs = [k \in Tasks |-> 0]
    BY DEF Init, Queue!Init
  <2>2. Range(<<>>) = {}
    BY DEF Range
  <2>3. \A k \in Tasks : Status(k) = "new"
    BY <2>1, <2>2 DEF Status, Rejections
  <2> QED BY <2>1, <2>3 DEF Service!Init
<1>2. Inv /\ [Next \/ Ended]_vars => [Service!Next]_Service!vars
  <2> SUFFICES ASSUME Inv, [Next \/ Ended]_vars PROVE Service!Next \/ UNCHANGED Service!vars
    BY Zenon
  <2>1. CASE UNCHANGED vars
    <3>1. UNCHANGED <<told, runs, accepted, frames>> /\ Phase' = Phase
      BY <2>1 DEF vars, queueVars, history, Phase
    <3> QED BY <3>1, QuietService
  <2>2. CASE ~UNCHANGED vars
    <3>1. PICK t \in Threads : InQueue(t) \/ TaskMove(t) \/ join_return(t) \/ Control(t)
      BY <2>2, NextKinds
    <3>2. CASE TaskMove(t)
      BY <3>2, PutCheckService, PutReturnService, FinishService, WorkerRunService, Zenon DEF TaskMove
    <3> QED BY <3>1, <3>2, QueueService, JoinReturnService, ControlService, Zenon
  <2> QED BY <2>1, <2>2
<1> QED BY <1>1, <1>2, PoolInvariant, PTL DEF Spec, ImplementsService, Service!Spec
=============================================================================
