--------------------------- MODULE TaskExecution ---------------------------
(***************************************************************************)
(* What CThreadPool promises the code that hands it a ThreadContext: the   *)
(* task is started once, by somebody, after it was handed over, and if     *)
(* nothing is wrong it is started eventually.  Threads, free lists and     *)
(* wake-ups are not part of the promise.                                   *)
(***************************************************************************)
CONSTANT Tasks

VARIABLE taskState

States == {"new", "queued", "running", "finished"}

Init == taskState = [k \in Tasks |-> "new"]

Move(k, from, to) == /\ taskState[k] = from
                     /\ taskState' = [taskState EXCEPT ![k] = to]

Submit(k) == Move(k, "new", "queued")
Start(k)  == Move(k, "queued", "running")
Finish(k) == Move(k, "running", "finished")

Next == \E k \in Tasks : Submit(k) \/ Start(k) \/ Finish(k)

SafeSpec == Init /\ [][Next]_taskState

Spec == SafeSpec /\ \A k \in Tasks : WF_taskState(Start(k))
=============================================================================
