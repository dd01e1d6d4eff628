----------------------------- MODULE TaskService -----------------------------
(***************************************************************************)
(* What the thread pool promises: a submitted task is admitted, run by its *)
(* submitter, or refused; an admitted task is run once; after closing      *)
(* nothing is admitted; the service is drained only when everything that   *)
(* was admitted is done.                                                   *)
(***************************************************************************)
CONSTANT Jobs

VARIABLES status, phase

vars == <<status, phase>>

Init == status = [k \in Jobs |-> "new"] /\ phase = "open"

Becomes(k, old, new) == status[k] = old /\ status' = [status EXCEPT ![k] = new]

Admit(k)  == phase = "open" /\ Becomes(k, "new", "queued") /\ UNCHANGED phase
Refuse(k) == Becomes(k, "new", "refused") /\ UNCHANGED phase
Start(k)  == Becomes(k, "queued", "running") /\ UNCHANGED phase
Inline(k) == Becomes(k, "new", "inline") /\ UNCHANGED phase
Finish(k) == /\ Becomes(k, "running", "done") \/ Becomes(k, "inline", "done")
             /\ UNCHANGED phase

Close == phase = "open" /\ phase' = "closed" /\ UNCHANGED status

Drain ==
  /\ phase = "closed" /\ \A k \in Jobs : status[k] \notin {"queued", "running"}
  /\ phase' = "drained"
  /\ UNCHANGED status

Next ==
  \/ \E k \in Jobs : Admit(k) \/ Refuse(k) \/ Start(k) \/ Inline(k) \/ Finish(k)
  \/ Close \/ Drain

Spec == Init /\ [][Next]_vars

\* Admitted tasks are started and tasks that were started end.
FairSpec == Spec /\ \A k \in Jobs : WF_vars(Start(k)) /\ WF_vars(Finish(k))
=============================================================================
