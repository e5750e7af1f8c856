-------------------------- MODULE ThreadPoolProofs --------------------------
(***************************************************************************)
(* Theorems about ThreadPool, for any number of threads and tasks.         *)
(***************************************************************************)
EXTENDS ThreadPool, FiniteSetTheorems, TLAPS

-----------------------------------------------------------------------------
(* Inductive invariants                                                    *)

\* A task is pointed to, or run, by at most one thread, and only after it
\* was handed over; it is begun when, and only when, a thread has entered it.
TaskInv ==
  /\ TypeOK
  /\ \A t \in Threads : pc[t] = "running" <=> running[t] # NoTask
  /\ \A t \in Threads : ExecutionTarget[t] # NoTask => ExecutionTarget[t] \in submitted
  /\ \A t \in Threads : running[t] # NoTask => begun[running[t]] = 1
  /\ \A t \in Threads :
       ExecutionTarget[t] # NoTask /\ running[t] # ExecutionTarget[t]
         => begun[ExecutionTarget[t]] = 0
  /\ \A t, u \in Threads :
       ExecutionTarget[t] = ExecutionTarget[u] /\ ExecutionTarget[t] # NoTask => t = u
  /\ \A t, u \in Threads : running[t] = running[u] /\ running[t] # NoTask => t = u
  /\ AtMostOnce

\* A thread in the free set that is past its Suspend() was woken to be killed.
FreeInv ==
  /\ Remembered => \A t \in Threads : pc[t] # "waiting"
  /\ ~Remembered => \A t \in Threads : wakeups[t] = 0
  /\ \A t \in Threads :
       pc[t] \in {"unborn", "gone"} => t \notin activeThreads /\ t \notin freeThreads
  /\ \A t \in freeThreads :
       pc[t] \notin {"suspending", "waiting"} => t \in DeleteAfterExit
  /\ \A t \in freeThreads : wakeups[t] > 0 => t \in DeleteAfterExit
  /\ \A t \in Threads : wakeups[t] > 0 /\ pc[t] # "suspending" => t \in DeleteAfterExit
  /\ \A t \in Threads : wakeups[t] > 1 => t \in DeleteAfterExit

\* While the pool serves, nobody is marked for deletion, a free thread has no
\* target and a thread that is past Suspend() with a target is active.
ServeInv ==
  shutdown = "no" =>
    /\ DeleteAfterExit = {}
    /\ threadsToExit = 0
    /\ activeThreads \cap freeThreads = {}
    /\ \A t \in freeThreads : ExecutionTarget[t] = NoTask
    /\ \A t \in Threads : ExecutionTarget[t] # NoTask => t \in activeThreads
    /\ \A t \in Threads : running[t] # NoTask => running[t] = ExecutionTarget[t]
    /\ \A t \in Threads : pc[t] = "exiting" => ExecutionTarget[t] = NoTask

\* In the build with the condition variable no free thread is inside Run(),
\* even during Shutdown(), so a running thread's target is what it runs.
DestroyInv ==
  /\ \A t \in freeThreads : pc[t] # "running"
  /\ \A t \in freeThreads : pc[t] = "top" => ExecutionTarget[t] = NoTask
  /\ \A t \in Threads : running[t] # NoTask => running[t] = ExecutionTarget[t]
  /\ DestroyedAfterRun

-----------------------------------------------------------------------------
(* Type correctness                                                        *)

LEMMA CardinalityNat ==
  ASSUME NEW S \in SUBSET Threads
  PROVE  IsFiniteSet(S) /\ Cardinality(S) \in Nat
BY PoolAssumption, FS_Subset, FS_CardinalityType

\* What a wake-up does to the threads that are not woken, and to the others.
LEMMA ResumeEffect ==
  ASSUME TypeOK, NEW S \in SUBSET Threads, Resume(S)
  PROVE  /\ pc' \in [Threads -> PCs]
         /\ wakeups' \in [Threads -> Nat]
         /\ \A t \in Threads :
              \/ pc'[t] = pc[t]
              \/ ~Remembered /\ t \in S /\ pc[t] = "waiting" /\ pc'[t] = "top"
         /\ \A t \in Threads :
              \/ wakeups'[t] = wakeups[t]
              \/ Remembered /\ t \in S /\ wakeups'[t] = wakeups[t] + 1
<1>1. CASE Remembered
  BY <1>1 DEF Resume, TypeOK
<1>2. CASE ~Remembered
  BY <1>2 DEF Resume, TypeOK, PCs
<1>. QED
  BY <1>1, <1>2

\* Starting idle threads only moves unborn threads to the head of the loop.
LEMMA StartIdleEffect ==
  ASSUME TypeOK, NEW n, StartIdle(n)
  PROVE  /\ pc' \in [Threads -> PCs]
         /\ \A t \in Threads : pc'[t] = pc[t] \/ (pc[t] = "unborn" /\ pc'[t] = "top")
<1>1. PICK S \in SUBSET Unborn : pc' = [t \in Threads |-> IF t \in S THEN "top" ELSE pc[t]]
  BY DEF StartIdle
<1>2. S \subseteq Threads /\ \A t \in S : pc[t] = "unborn"
  BY DEF Unborn
<1>3. pc \in [Threads -> PCs]
  BY DEF TypeOK
<1>4. \A t \in Threads : pc'[t] = IF t \in S THEN "top" ELSE pc[t]
  BY <1>1
<1>5. pc' \in [Threads -> PCs]
  BY <1>1, <1>3 DEF PCs
<1>. QED
  BY <1>2, <1>4, <1>5

LEMMA InitTypeOK == Init => TypeOK
<1>. SUFFICES ASSUME Init
              PROVE  TypeOK
  OBVIOUS
<1>1. pc \in [Threads -> PCs] /\ wakeups \in [Threads -> Nat] /\ begun \in [Tasks -> Nat]
  BY DEF Init, PCs
<1>2. stuck \in BOOLEAN
  BY DEF Init
<1>3. /\ ExecutionTarget \in [Threads -> Tasks \cup {NoTask}]
      /\ running \in [Threads -> Tasks \cup {NoTask}]
      /\ shutdown \in ShutdownSteps
      /\ threadsToExit \in Nat /\ threadsEaten \in Int /\ register \in Nat
  BY DEF Init, ShutdownSteps
<1>. QED
  BY <1>1, <1>2, <1>3 DEF Init, TypeOK

LEMMA NextTypeOK == TypeOK /\ [Next]_vars => TypeOK'
<1>. SUFFICES ASSUME TypeOK, [Next]_vars
              PROVE  TypeOK'
  OBVIOUS
<1>. USE DEF TypeOK, PCs, ShutdownSteps, poolVars, taskVars, shutVars
<1>1. ASSUME NEW t \in Threads, TakeTask(t)
      PROVE  TypeOK'
  BY <1>1, PoolAssumption DEF TakeTask
<1>2. ASSUME NEW t \in Threads, ThreadExit(t)
      PROVE  TypeOK'
  BY <1>2 DEF ThreadExit
<1>3. ASSUME NEW t \in Threads, Suspend(t)
      PROVE  TypeOK'
  BY <1>3 DEF Suspend
<1>4. ASSUME NEW t \in Threads, SpuriousWakeup(t)
      PROVE  TypeOK'
  BY <1>4 DEF SpuriousWakeup
<1>5. ASSUME NEW t \in Threads, NEW deletes \in BOOLEAN, FinishTask(t, deletes)
      PROVE  TypeOK'
  BY <1>5 DEF FinishTask
<1>6. ASSUME NEW k \in Tasks, ExecuteTask(k)
      PROVE  TypeOK'
  <2>1. ASSUME NEW t \in freeThreads, Resume({t}), ExecutionTarget' = [ExecutionTarget EXCEPT ![t] = k],
               freeThreads' = freeThreads \ {t}, activeThreads' = activeThreads \cup {t}
        PROVE  TypeOK'
    <3>1. pc' \in [Threads -> PCs] /\ wakeups' \in [Threads -> Nat]
      BY <2>1, ResumeEffect
    <3>2. /\ submitted' \subseteq Tasks /\ threadsEaten' \in Int
          /\ UNCHANGED <<running, threadsToExit, DeleteAfterExit, stuck, shutVars, begun, destroyed>>
      BY <1>6 DEF ExecuteTask
    <3>. QED
      BY <2>1, <3>1, <3>2
  <2>2. CASE freeThreads = {}
    BY <1>6, <2>2 DEF ExecuteTask, Unborn
  <2>. QED
    BY <1>6, <2>1, <2>2 DEF ExecuteTask
<1>7. ASSUME Startup
      PROVE  TypeOK'
  BY <1>7, StartIdleEffect DEF Startup
<1>8. ASSUME IntegrityCheck
      PROVE  TypeOK'
  <2>1. pc' \in [Threads -> PCs]
    BY <1>8, StartIdleEffect DEF IntegrityCheck
  <2>2. threadsEaten' \in Int
    BY <1>8 DEF IntegrityCheck
  <2>3. stuck' \in BOOLEAN
    BY <1>8 DEF IntegrityCheck
  <2>. QED
    BY <1>8, <2>1, <2>2, <2>3 DEF IntegrityCheck
<1>9. ASSUME ShutdownBegin
      PROVE  TypeOK'
  BY <1>9, CardinalityNat DEF ShutdownBegin
<1>10. ASSUME ShutdownKill
       PROVE  TypeOK'
  <2>1. PICK K \in SUBSET freeThreads : KillFreeThreads(K)
    BY <1>10 DEF ShutdownKill
  <2>2. pc' \in [Threads -> PCs] /\ wakeups' \in [Threads -> Nat]
    BY <2>1, ResumeEffect DEF KillFreeThreads
  <2>3. threadsToExit' \in Nat
    BY <2>1, CardinalityNat DEF KillFreeThreads
  <2>. QED
    BY <1>10, <2>1, <2>2, <2>3 DEF ShutdownKill, KillFreeThreads
<1>11. ASSUME ShutdownCount
       PROVE  TypeOK'
  BY <1>11, CardinalityNat DEF ShutdownCount
<1>12. ASSUME ShutdownAdd
       PROVE  TypeOK'
  BY <1>12 DEF ShutdownAdd
<1>13. ASSUME ShutdownClear
       PROVE  TypeOK'
  BY <1>13 DEF ShutdownClear
<1>14. CASE UNCHANGED vars
  BY <1>14 DEF vars
<1>. QED
  BY <1>1, <1>2, <1>3, <1>4, <1>5, <1>6, <1>7, <1>8, <1>9, <1>10, <1>11, <1>12, <1>13, <1>14
  DEF Next, ThreadStep, Shutdown

\* The variables keep their types in every behaviour of the pool.
THEOREM TypeCorrect == Spec => []TypeOK
BY InitTypeOK, NextTypeOK, PTL DEF Spec

-----------------------------------------------------------------------------
(* No task is run twice                                                    *)

LEMMA InitTaskInv == Init => TaskInv
BY InitTypeOK DEF Init, TaskInv, AtMostOnce

\* An action that only moves threads about, without entering or leaving
\* Run() and without a new target, keeps the invariant.
LEMMA MoveKeepsTaskInv ==
  ASSUME TaskInv, TypeOK',
         running' = running, submitted' = submitted, begun' = begun,
         \A t \in Threads : ExecutionTarget'[t] \in {ExecutionTarget[t], NoTask},
         \A t \in Threads : pc'[t] = "running" <=> pc[t] = "running"
  PROVE  TaskInv'
BY DEF TaskInv, TypeOK, AtMostOnce

LEMMA NextTaskInv == TaskInv /\ [Next]_vars => TaskInv'
<1>. SUFFICES ASSUME TaskInv, [Next]_vars
              PROVE  TaskInv'
  OBVIOUS
<1>0. TypeOK /\ TypeOK'
  BY NextTypeOK DEF TaskInv
<1>. USE DEF poolVars, taskVars, shutVars
<1>1. ASSUME NEW t \in Threads, TakeTask(t)
      PROVE  TaskInv'
  <2>. DEFINE k == ExecutionTarget[t]
  <2>1. CASE k = NoTask
    BY <1>0, <1>1, <2>1, MoveKeepsTaskInv DEF TakeTask, TypeOK
  <2>2. CASE k # NoTask
    <3>1. k \in Tasks /\ k \in submitted /\ begun[k] = 0 /\ running[t] = NoTask
      BY <1>0, <1>1, <2>2 DEF TakeTask, TypeOK, TaskInv
    <3>2. /\ pc' = [pc EXCEPT ![t] = "running"]
          /\ running' = [running EXCEPT ![t] = k]
          /\ begun' = [begun EXCEPT ![k] = @ + 1]
          /\ UNCHANGED <<ExecutionTarget, submitted>>
      BY <1>1, <2>2 DEF TakeTask
    <3>3. \A u \in Threads : running[u] # k
      BY <3>1, <2>2 DEF TaskInv
    <3>. QED
      BY <1>0, <2>2, <3>1, <3>2, <3>3 DEF TaskInv, TypeOK, AtMostOnce
  <2>. QED
    BY <2>1, <2>2
<1>2. ASSUME NEW t \in Threads, ThreadExit(t)
      PROVE  TaskInv'
  BY <1>0, <1>2, MoveKeepsTaskInv DEF ThreadExit, TypeOK
<1>3. ASSUME NEW t \in Threads, Suspend(t)
      PROVE  TaskInv'
  BY <1>0, <1>3, MoveKeepsTaskInv DEF Suspend, TypeOK
<1>4. ASSUME NEW t \in Threads, SpuriousWakeup(t)
      PROVE  TaskInv'
  BY <1>0, <1>4, MoveKeepsTaskInv DEF SpuriousWakeup, TypeOK
<1>5. ASSUME NEW t \in Threads, NEW deletes \in BOOLEAN, FinishTask(t, deletes)
      PROVE  TaskInv'
  BY <1>0, <1>5 DEF FinishTask, TaskInv, TypeOK, AtMostOnce
<1>6. ASSUME NEW k \in Tasks, ExecuteTask(k)
      PROVE  TaskInv'
  <2>1. /\ k \notin submitted /\ submitted' = submitted \cup {k}
        /\ running' = running /\ begun' = begun
    BY <1>6 DEF ExecuteTask
  <2>2. PICK t \in Threads :
             /\ ExecutionTarget' = [ExecutionTarget EXCEPT ![t] = k]
             /\ \A u \in Threads : pc'[u] = "running" <=> pc[u] = "running"
    <3>1. CASE freeThreads = {}
      BY <1>0, <1>6, <3>1 DEF ExecuteTask, Unborn, TypeOK
    <3>2. CASE freeThreads # {}
      <4>1. PICK t \in freeThreads : /\ ExecutionTarget' = [ExecutionTarget EXCEPT ![t] = k]
                                     /\ Resume({t})
        BY <1>6, <3>2 DEF ExecuteTask
      <4>2. t \in Threads
        BY <1>0 DEF TypeOK
      <4>3. \A u \in Threads : pc'[u] = pc[u] \/ (u = t /\ pc[u] = "waiting" /\ pc'[u] = "top")
        BY <1>0, <4>1, <4>2, ResumeEffect
      <4>. QED
        BY <4>1, <4>2, <4>3
    <3>. QED
      BY <3>1, <3>2
  <2>3. begun[k] = 0 /\ \A u \in Threads : running[u] # k /\ ExecutionTarget[u] # k
    BY <1>0, <2>1, PoolAssumption DEF TaskInv, TypeOK, AtMostOnce
  <2>. QED
    BY <1>0, <2>1, <2>2, <2>3, PoolAssumption DEF TaskInv, TypeOK, AtMostOnce
<1>7. ASSUME Startup
      PROVE  TaskInv'
  BY <1>0, <1>7, StartIdleEffect, MoveKeepsTaskInv DEF Startup
<1>8. ASSUME IntegrityCheck
      PROVE  TaskInv'
  <2>1. \A t \in Threads : pc'[t] = pc[t] \/ (pc[t] = "unborn" /\ pc'[t] = "top")
    BY <1>0, <1>8, StartIdleEffect DEF IntegrityCheck
  <2>. QED
    BY <1>0, <1>8, <2>1, MoveKeepsTaskInv DEF IntegrityCheck
<1>9. ASSUME ShutdownBegin
      PROVE  TaskInv'
  BY <1>0, <1>9, MoveKeepsTaskInv DEF ShutdownBegin
<1>10. ASSUME ShutdownKill
       PROVE  TaskInv'
  <2>1. PICK K \in SUBSET freeThreads : KillFreeThreads(K)
    BY <1>10 DEF ShutdownKill
  <2>2. K \in SUBSET Threads
    BY <1>0 DEF TypeOK
  <2>3. \A t \in Threads : pc'[t] = pc[t] \/ (pc[t] = "waiting" /\ pc'[t] = "top")
    BY <1>0, <2>1, <2>2, ResumeEffect DEF KillFreeThreads
  <2>4. \A t \in Threads : ExecutionTarget'[t] \in {ExecutionTarget[t], NoTask}
    BY <2>1 DEF KillFreeThreads
  <2>. QED
    BY <1>0, <1>10, <2>3, <2>4, MoveKeepsTaskInv DEF ShutdownKill
<1>11. ASSUME ShutdownCount
       PROVE  TaskInv'
  BY <1>0, <1>11, MoveKeepsTaskInv DEF ShutdownCount
<1>12. ASSUME ShutdownAdd
       PROVE  TaskInv'
  BY <1>0, <1>12, MoveKeepsTaskInv DEF ShutdownAdd
<1>13. ASSUME ShutdownClear
       PROVE  TaskInv'
  BY <1>0, <1>13, MoveKeepsTaskInv DEF ShutdownClear
<1>14. CASE UNCHANGED vars
  BY <1>0, <1>14, MoveKeepsTaskInv DEF vars
<1>. QED
  BY <1>1, <1>2, <1>3, <1>4, <1>5, <1>6, <1>7, <1>8, <1>9, <1>10, <1>11, <1>12, <1>13, <1>14
  DEF Next, ThreadStep, Shutdown

\* Whatever the build, and with spurious wake-ups, Startup, IntegrityCheck
\* and Shutdown: no ThreadContext is entered twice.
THEOREM TaskRunsAtMostOnce == Spec => []AtMostOnce
<1>1. TaskInv => AtMostOnce
  BY DEF TaskInv
<1>. QED
  BY <1>1, InitTaskInv, NextTaskInv, PTL DEF Spec

-----------------------------------------------------------------------------
(* The sets of the pool hold live threads                                  *)

LEMMA InitFreeInv == Init => FreeInv
BY DEF Init, FreeInv

LEMMA NextFreeInv ==
  ASSUME ~Spurious
  PROVE  TypeOK /\ FreeInv /\ [Next]_vars => FreeInv'
<1>. SUFFICES ASSUME TypeOK, FreeInv, [Next]_vars
              PROVE  FreeInv'
  OBVIOUS
<1>0. TypeOK'
  BY NextTypeOK
<1>. USE DEF poolVars, taskVars, shutVars
<1>1. ASSUME NEW t \in Threads, TakeTask(t)
      PROVE  FreeInv'
  <2>1. /\ \A u \in Threads : pc'[u] = pc[u] \/ (u = t /\ pc'[u] \in {"running", "exiting"})
        /\ pc[t] = "top"
        /\ UNCHANGED <<wakeups, activeThreads, freeThreads, DeleteAfterExit>>
    BY <1>1 DEF TakeTask, TypeOK
  <2>. QED
    BY <2>1 DEF FreeInv, TypeOK
<1>2. ASSUME NEW t \in Threads, ThreadExit(t)
      PROVE  FreeInv'
  BY <1>2 DEF ThreadExit, FreeInv, TypeOK
<1>3. ASSUME NEW t \in Threads, Suspend(t)
      PROVE  FreeInv'
  BY <1>3 DEF Suspend, FreeInv, TypeOK
<1>5. ASSUME NEW t \in Threads, NEW deletes \in BOOLEAN, FinishTask(t, deletes)
      PROVE  FreeInv'
  BY <1>5 DEF FinishTask, FreeInv, TypeOK
<1>6. ASSUME NEW k \in Tasks, ExecuteTask(k)
      PROVE  FreeInv'
  <2>1. CASE freeThreads = {}
    BY <1>6, <2>1 DEF ExecuteTask, Unborn, TypeOK, FreeInv
  <2>2. CASE freeThreads # {}
    <3>1. PICK t \in freeThreads : /\ freeThreads' = freeThreads \ {t}
                                   /\ activeThreads' = activeThreads \cup {t}
                                   /\ Resume({t})
      BY <1>6, <2>2 DEF ExecuteTask
    <3>2. /\ \A u \in Threads : pc'[u] = pc[u] \/ (u = t /\ pc[u] = "waiting" /\ pc'[u] = "top" /\ ~Remembered)
          /\ \A u \in Threads : wakeups'[u] = wakeups[u] \/ (u = t /\ Remembered /\ wakeups'[u] = wakeups[u] + 1)
      BY <3>1, ResumeEffect DEF TypeOK
    <3>3. DeleteAfterExit' = DeleteAfterExit /\ t \in Threads
      BY <1>6 DEF ExecuteTask, TypeOK
    <3>4. ~Remembered => \A u \in Threads : wakeups'[u] = 0
      BY <3>2 DEF FreeInv
    <3>5. \A u \in Threads \ {t} : pc'[u] = pc[u] /\ wakeups'[u] = wakeups[u]
      BY <3>2
    <3>6. t \notin DeleteAfterExit => wakeups[t] = 0 /\ pc[t] \in {"suspending", "waiting"}
      BY <3>1, <3>3 DEF FreeInv, TypeOK
    <3>7. /\ wakeups'[t] > 0 /\ pc'[t] # "suspending" => t \in DeleteAfterExit
          /\ wakeups'[t] > 1 => t \in DeleteAfterExit
      BY <3>2, <3>3, <3>6 DEF FreeInv, TypeOK
    <3>8. pc'[t] \notin {"unborn", "gone"}
      BY <3>1, <3>2, <3>3 DEF FreeInv
    <3>9. Remembered => pc'[t] # "waiting"
      BY <3>2, <3>3 DEF FreeInv
    <3>. QED
      BY <3>1, <3>3, <3>4, <3>5, <3>7, <3>8, <3>9 DEF FreeInv, TypeOK
  <2>. QED
    BY <2>1, <2>2
<1>7. ASSUME Startup
      PROVE  FreeInv'
  BY <1>7, StartIdleEffect DEF Startup, FreeInv, TypeOK
<1>8. ASSUME IntegrityCheck
      PROVE  FreeInv'
  <2>1. \A t \in Threads : pc'[t] = pc[t] \/ (pc[t] = "unborn" /\ pc'[t] = "top")
    BY <1>8, StartIdleEffect DEF IntegrityCheck
  <2>. QED
    BY <1>8, <2>1 DEF IntegrityCheck, FreeInv, TypeOK
<1>9. ASSUME ShutdownBegin
      PROVE  FreeInv'
  BY <1>9 DEF ShutdownBegin, FreeInv
<1>10. ASSUME ShutdownKill
       PROVE  FreeInv'
  <2>1. PICK K \in SUBSET freeThreads : KillFreeThreads(K)
    BY <1>10 DEF ShutdownKill
  <2>2. /\ \A t \in Threads : pc'[t] = pc[t] \/ (t \in K /\ pc[t] = "waiting" /\ pc'[t] = "top" /\ ~Remembered)
        /\ \A t \in Threads : wakeups'[t] = wakeups[t] \/ (t \in K /\ Remembered)
        /\ DeleteAfterExit' = DeleteAfterExit \cup K
        /\ UNCHANGED <<activeThreads, freeThreads>>
    BY <1>10, <2>1, ResumeEffect DEF KillFreeThreads, ShutdownKill, TypeOK
  <2>. QED
    BY <2>2 DEF FreeInv, TypeOK
<1>11. ASSUME ShutdownCount
       PROVE  FreeInv'
  BY <1>11 DEF ShutdownCount, FreeInv
<1>12. ASSUME ShutdownAdd
       PROVE  FreeInv'
  BY <1>12 DEF ShutdownAdd, FreeInv
<1>13. ASSUME ShutdownClear
       PROVE  FreeInv'
  BY <1>13 DEF ShutdownClear, FreeInv
<1>14. CASE UNCHANGED vars
  BY <1>14 DEF vars, FreeInv
<1>. QED
  BY <1>1, <1>2, <1>3, <1>5, <1>6, <1>7, <1>8, <1>9, <1>10, <1>11, <1>12, <1>13, <1>14
  DEF Next, ThreadStep, Shutdown, SpuriousWakeup

\* Without spurious wake-ups the pool never keeps a deleted Thread, in either
\* build and through Shutdown().
THEOREM PoolHoldsLiveThreads ==
  ASSUME ~Spurious
  PROVE  Spec => []NoDangling
<1>1. TypeOK /\ FreeInv => NoDangling
  BY DEF TypeOK, FreeInv, NoDangling, Alive
<1>. QED
  BY <1>1, InitTypeOK, NextTypeOK, InitFreeInv, NextFreeInv, PTL DEF Spec

-----------------------------------------------------------------------------
(* A hand-over never overwrites a task                                     *)

LEMMA InitServeInv == Init => ServeInv
BY DEF Init, ServeInv

LEMMA NextServeInv ==
  ASSUME ~Spurious
  PROVE  TaskInv /\ FreeInv /\ ServeInv /\ [Next]_vars => ServeInv'
<1>. SUFFICES ASSUME TaskInv, FreeInv, ServeInv, [Next]_vars, shutdown' = "no"
              PROVE  ServeInv'
  BY DEF ServeInv
<1>0. TypeOK /\ TypeOK'
  BY NextTypeOK DEF TaskInv
<1>. USE DEF poolVars, taskVars, shutVars
<1>1. ASSUME NEW t \in Threads, TakeTask(t)
      PROVE  ServeInv'
  <2>1. CASE ExecutionTarget[t] = NoTask
    BY <1>0, <1>1, <2>1 DEF TakeTask, TypeOK, ServeInv
  <2>2. CASE ExecutionTarget[t] # NoTask
    BY <1>0, <1>1, <2>2 DEF TakeTask, TypeOK, ServeInv
  <2>. QED
    BY <2>1, <2>2
<1>2. ASSUME NEW t \in Threads, ThreadExit(t)
      PROVE  ServeInv'
  BY <1>0, <1>2 DEF ThreadExit, TypeOK, ServeInv
<1>3. ASSUME NEW t \in Threads, Suspend(t)
      PROVE  ServeInv'
  BY <1>0, <1>3 DEF Suspend, TypeOK, ServeInv
<1>5. ASSUME NEW t \in Threads, NEW deletes \in BOOLEAN, FinishTask(t, deletes)
      PROVE  ServeInv'
  BY <1>0, <1>5 DEF FinishTask, TypeOK, ServeInv
<1>6. ASSUME NEW k \in Tasks, ExecuteTask(k)
      PROVE  ServeInv'
  <2>1. CASE freeThreads = {}
    BY <1>0, <1>6, <2>1 DEF ExecuteTask, Unborn, TypeOK, ServeInv, TaskInv
  <2>2. CASE freeThreads # {}
    <3>1. PICK t \in freeThreads : /\ freeThreads' = freeThreads \ {t}
                                   /\ ExecutionTarget' = [ExecutionTarget EXCEPT ![t] = k]
                                   /\ activeThreads' = activeThreads \cup {t}
                                   /\ Resume({t})
      BY <1>6, <2>2 DEF ExecuteTask
    <3>2. /\ \A u \in Threads : pc'[u] = pc[u] \/ (u = t /\ pc'[u] = "top")
          /\ UNCHANGED <<DeleteAfterExit, threadsToExit, running>>
      BY <1>0, <1>6, <3>1, ResumeEffect DEF ExecuteTask, TypeOK
    <3>3. pc[t] \in {"suspending", "waiting"} /\ running[t] = NoTask
      BY <1>0, <1>6, <3>1 DEF ExecuteTask, FreeInv, ServeInv, TaskInv, TypeOK
    <3>. QED
      BY <1>0, <1>6, <3>1, <3>2, <3>3 DEF ExecuteTask, ServeInv, TypeOK
  <2>. QED
    BY <2>1, <2>2
<1>7. ASSUME Startup
      PROVE  ServeInv'
  BY <1>0, <1>7, StartIdleEffect DEF Startup, ServeInv, TypeOK
<1>8. ASSUME IntegrityCheck
      PROVE  ServeInv'
  <2>1. \A t \in Threads : pc'[t] = pc[t] \/ (pc[t] = "unborn" /\ pc'[t] = "top")
    BY <1>0, <1>8, StartIdleEffect DEF IntegrityCheck
  <2>. QED
    BY <1>0, <1>8, <2>1 DEF IntegrityCheck, ServeInv, TypeOK
<1>9. ASSUME Shutdown
      PROVE  FALSE
  BY <1>9 DEF Shutdown, ShutdownBegin, ShutdownKill, ShutdownCount, ShutdownAdd, ShutdownClear
<1>10. CASE UNCHANGED vars
  BY <1>10 DEF vars, ServeInv
<1>. QED
  BY <1>1, <1>2, <1>3, <1>5, <1>6, <1>7, <1>8, <1>9, <1>10
  DEF Next, ThreadStep, SpuriousWakeup

\* The three invariants together are inductive.
PoolInv == TaskInv /\ FreeInv /\ ServeInv

LEMMA PoolInvariant ==
  ASSUME ~Spurious
  PROVE  Spec => []PoolInv
<1>1. Init => PoolInv
  BY InitTaskInv, InitFreeInv, InitServeInv DEF PoolInv
<1>2. PoolInv /\ [Next]_vars => PoolInv'
  BY NextTaskInv, NextFreeInv, NextServeInv DEF PoolInv, TaskInv
<1>. QED
  BY <1>1, <1>2, PTL DEF Spec

\* Until Shutdown() starts, and without spurious wake-ups, the thread that
\* ExecuteTask picks is idle.
THEOREM HandOverIsSafe ==
  ASSUME ~Spurious
  PROVE  Spec => []FreeThreadsAreIdle
<1>1. PoolInv => FreeThreadsAreIdle
  <2>. SUFFICES ASSUME PoolInv, shutdown = "no"
                PROVE  FreeThreadsAreIdle
    BY DEF FreeThreadsAreIdle
  <2>1. \A t \in freeThreads : running[t] = NoTask
    BY DEF PoolInv, ServeInv, TaskInv, TypeOK
  <2>. QED
    BY <2>1 DEF PoolInv, ServeInv, FreeThreadsAreIdle, Alive
<1>. QED
  BY <1>1, PoolInvariant, PTL

-----------------------------------------------------------------------------
(* delete t->ExecutionTarget deletes what ran                              *)

LEMMA NextDestroyInv ==
  ASSUME ~Spurious, ~Remembered
  PROVE  TaskInv /\ FreeInv /\ DestroyInv /\ [Next]_vars => DestroyInv'
<1>. SUFFICES ASSUME TaskInv, FreeInv, DestroyInv, [Next]_vars
              PROVE  DestroyInv'
  OBVIOUS
<1>0. TypeOK /\ TypeOK'
  BY NextTypeOK DEF TaskInv
<1>. USE DEF poolVars, taskVars, shutVars
<1>1. ASSUME NEW t \in Threads, TakeTask(t)
      PROVE  DestroyInv'
  <2>. DEFINE k == ExecutionTarget[t]
  <2>1. CASE k = NoTask
    BY <1>0, <1>1, <2>1 DEF TakeTask, TypeOK, DestroyInv, DestroyedAfterRun
  <2>2. CASE k # NoTask
    <3>1. k \in Tasks /\ begun[k] = 0 /\ t \notin freeThreads
      BY <1>0, <1>1, <2>2 DEF TakeTask, TypeOK, TaskInv, DestroyInv
    <3>2. k \notin destroyed
      BY <3>1, PoolAssumption DEF DestroyInv, DestroyedAfterRun
    <3>. QED
      BY <1>0, <1>1, <2>2, <3>1, <3>2 DEF TakeTask, TypeOK, DestroyInv, DestroyedAfterRun
  <2>. QED
    BY <2>1, <2>2
<1>2. ASSUME NEW t \in Threads, ThreadExit(t)
      PROVE  DestroyInv'
  BY <1>0, <1>2 DEF ThreadExit, TypeOK, DestroyInv, DestroyedAfterRun
<1>3. ASSUME NEW t \in Threads, Suspend(t)
      PROVE  DestroyInv'
  BY <1>0, <1>3 DEF Suspend, TypeOK, DestroyInv, DestroyedAfterRun
<1>5. ASSUME NEW t \in Threads, NEW deletes \in BOOLEAN, FinishTask(t, deletes)
      PROVE  DestroyInv'
  <2>. DEFINE k == running[t]
  <2>1. /\ k \in Tasks /\ k # NoTask /\ begun[k] = 1 /\ ExecutionTarget[t] = k
    BY <1>0, <1>5, PoolAssumption DEF FinishTask, TypeOK, TaskInv, DestroyInv
  <2>2. \A u \in Threads \ {t} : running[u] # k /\ ExecutionTarget[u] # k
    BY <1>0, <2>1 DEF TaskInv
  <2>. QED
    BY <1>0, <1>5, <2>1, <2>2 DEF FinishTask, TypeOK, DestroyInv, DestroyedAfterRun
<1>6. ASSUME NEW k \in Tasks, ExecuteTask(k)
      PROVE  DestroyInv'
  <2>1. k \notin destroyed /\ k # NoTask /\ running' = running /\ begun' = begun /\ destroyed' = destroyed
    BY <1>0, <1>6, PoolAssumption DEF ExecuteTask, DestroyInv, DestroyedAfterRun, TaskInv, AtMostOnce, TypeOK
  <2>2. CASE freeThreads = {}
    <3>1. PICK t \in Threads : /\ pc[t] = "unborn"
                               /\ ExecutionTarget' = [ExecutionTarget EXCEPT ![t] = k]
                               /\ pc' = [pc EXCEPT ![t] = "top"]
                               /\ freeThreads' = freeThreads
      BY <1>6, <2>2 DEF ExecuteTask, Unborn
    <3>2. running[t] = NoTask
      BY <1>0, <3>1 DEF TaskInv, TypeOK
    <3>. QED
      BY <1>0, <2>1, <2>2, <3>1, <3>2 DEF DestroyInv, DestroyedAfterRun, TypeOK
  <2>3. CASE freeThreads # {}
    <3>1. PICK t \in freeThreads : /\ freeThreads' = freeThreads \ {t}
                                   /\ ExecutionTarget' = [ExecutionTarget EXCEPT ![t] = k]
                                   /\ Resume({t})
      BY <1>6, <2>3 DEF ExecuteTask
    <3>2. \A u \in Threads \ {t} : pc'[u] = pc[u]
      BY <1>0, <3>1, ResumeEffect DEF TypeOK
    <3>3. running[t] = NoTask
      BY <1>0, <3>1 DEF TaskInv, DestroyInv, TypeOK
    <3>. QED
      BY <1>0, <2>1, <3>1, <3>2, <3>3 DEF DestroyInv, DestroyedAfterRun, TypeOK
  <2>. QED
    BY <2>2, <2>3
<1>7. ASSUME \A t \in Threads : pc'[t] = pc[t] \/ (pc[t] = "unborn" /\ pc'[t] = "top"),
             UNCHANGED <<ExecutionTarget, running, freeThreads, taskVars>>
      PROVE  DestroyInv'
  <2>1. \A t \in freeThreads : t \in Threads /\ pc'[t] = pc[t]
    BY <1>0, <1>7 DEF FreeInv, TypeOK
  <2>. QED
    BY <1>7, <2>1 DEF DestroyInv, DestroyedAfterRun
<1>8. ASSUME Startup \/ IntegrityCheck
      PROVE  DestroyInv'
  BY <1>0, <1>7, <1>8, StartIdleEffect DEF Startup, IntegrityCheck
<1>10. ASSUME ShutdownKill
       PROVE  DestroyInv'
  <2>1. PICK K \in SUBSET freeThreads : KillFreeThreads(K)
    BY <1>10 DEF ShutdownKill
  <2>2. /\ \A t \in Threads : pc'[t] = pc[t] \/ (t \in K /\ pc[t] = "waiting" /\ pc'[t] = "top")
        /\ ExecutionTarget' = [t \in Threads |-> IF t \in K THEN NoTask ELSE ExecutionTarget[t]]
        /\ UNCHANGED <<running, freeThreads, taskVars>>
    BY <1>0, <1>10, <2>1, ResumeEffect DEF KillFreeThreads, ShutdownKill, TypeOK
  <2>3. \A t \in K : running[t] = NoTask
    BY <1>0, <2>1 DEF TaskInv, DestroyInv, TypeOK
  <2>4. freeThreads \subseteq Threads
    BY <1>0 DEF TypeOK
  <2>. QED
    BY <1>0, <2>2, <2>3, <2>4 DEF DestroyInv, DestroyedAfterRun, TypeOK
<1>11. ASSUME ShutdownBegin \/ ShutdownCount \/ ShutdownAdd
       PROVE  DestroyInv'
  BY <1>11 DEF ShutdownBegin, ShutdownCount, ShutdownAdd, DestroyInv, DestroyedAfterRun
<1>13. ASSUME ShutdownClear
       PROVE  DestroyInv'
  BY <1>13 DEF ShutdownClear, DestroyInv, DestroyedAfterRun
<1>14. CASE UNCHANGED vars
  BY <1>14 DEF vars, DestroyInv, DestroyedAfterRun
<1>. QED
  BY <1>1, <1>2, <1>3, <1>5, <1>6, <1>8, <1>10, <1>11, <1>13, <1>14
  DEF Next, ThreadStep, Shutdown, SpuriousWakeup

\* In the build with the condition variable, without spurious wake-ups, the
\* pool deletes only contexts whose Run() has returned, through Shutdown() too.
THEOREM DeletesOnlyWhatRan ==
  ASSUME ~Spurious, ~Remembered
  PROVE  Spec => []DestroyedAfterRun
<1>1. Init => DestroyInv
  BY DEF Init, DestroyInv, DestroyedAfterRun
<1>2. TaskInv /\ FreeInv /\ DestroyInv /\ [Next]_vars => DestroyInv'
  BY NextDestroyInv
<1>3. PoolInv => TaskInv /\ FreeInv
  BY DEF PoolInv
<1>4. DestroyInv => DestroyedAfterRun
  BY DEF DestroyInv
<1>. QED
  BY <1>1, <1>2, <1>3, <1>4, PoolInvariant, PTL DEF Spec

-----------------------------------------------------------------------------
(* The pool implements the promise                                         *)

\* A task's abstract state depends on nothing but the history of the tasks
\* and on who runs it.
LEMMA SameTaskState ==
  ASSUME submitted' = submitted, begun' = begun, running' = running
  PROVE  taskState' = taskState
BY DEF taskState

LEMMA StepKeepsPromise ==
  TaskInv /\ [Next]_vars => [Promise!Next]_taskState
<1>. SUFFICES ASSUME TaskInv, [Next]_vars
              PROVE  Promise!Next \/ taskState' = taskState
  OBVIOUS
<1>0. TypeOK
  BY DEF TaskInv
<1>. USE DEF poolVars, taskVars, shutVars
<1>1. ASSUME NEW t \in Threads, TakeTask(t)
      PROVE  Promise!Next \/ taskState' = taskState
  <2>. DEFINE k == ExecutionTarget[t]
  <2>1. CASE k = NoTask
    BY <1>1, <2>1, SameTaskState DEF TakeTask
  <2>2. CASE k # NoTask
    <3>1. k \in Tasks /\ k \in submitted /\ begun[k] = 0 /\ running[t] = NoTask
      BY <1>0, <1>1, <2>2 DEF TakeTask, TypeOK, TaskInv
    <3>2. /\ running' = [running EXCEPT ![t] = k]
          /\ begun' = [begun EXCEPT ![k] = @ + 1]
          /\ submitted' = submitted
      BY <1>1, <2>2 DEF TakeTask
    <3>3. taskState[k] = "queued" /\ taskState'[k] = "running"
      BY <1>0, <3>1, <3>2 DEF taskState, TypeOK
    <3>4. ASSUME NEW j \in Tasks, j # k
          PROVE  taskState'[j] = taskState[j]
      BY <1>0, <3>1, <3>2, <3>4, PoolAssumption DEF taskState, TypeOK
    <3>5. taskState' = [taskState EXCEPT ![k] = "running"]
      BY <3>1, <3>3, <3>4 DEF taskState
    <3>. QED
      BY <3>1, <3>3, <3>5 DEF Promise!Next, Promise!Start, Promise!Move
  <2>. QED
    BY <2>1, <2>2
<1>2. ASSUME NEW t \in Threads, NEW deletes \in BOOLEAN, FinishTask(t, deletes)
      PROVE  Promise!Next \/ taskState' = taskState
  <2>. DEFINE k == running[t]
  <2>1. k \in Tasks /\ k # NoTask /\ begun[k] = 1 /\ k \in submitted
    BY <1>0, <1>2 DEF FinishTask, TypeOK, TaskInv, AtMostOnce
  <2>2. \A u \in Threads \ {t} : running[u] # k
    BY <2>1 DEF TaskInv
  <2>3. running' = [running EXCEPT ![t] = NoTask] /\ begun' = begun /\ submitted' = submitted
    BY <1>2 DEF FinishTask
  <2>4. taskState[k] = "running" /\ taskState'[k] = "finished"
    BY <1>0, <2>1, <2>2, <2>3 DEF taskState, TypeOK
  <2>5. ASSUME NEW j \in Tasks, j # k
        PROVE  taskState'[j] = taskState[j]
    BY <1>0, <2>3, <2>5, PoolAssumption DEF taskState, TypeOK
  <2>6. taskState' = [taskState EXCEPT ![k] = "finished"]
    BY <2>1, <2>4, <2>5 DEF taskState
  <2>. QED
    BY <2>1, <2>4, <2>6 DEF Promise!Next, Promise!Finish, Promise!Move
<1>3. ASSUME NEW k \in Tasks, ExecuteTask(k)
      PROVE  Promise!Next \/ taskState' = taskState
  <2>1. k \notin submitted /\ submitted' = submitted \cup {k} /\ begun' = begun /\ running' = running
    BY <1>3 DEF ExecuteTask
  <2>2. begun[k] = 0
    BY <1>0, <2>1 DEF TaskInv, AtMostOnce, TypeOK
  <2>3. taskState[k] = "new" /\ taskState'[k] = "queued"
    BY <2>1, <2>2 DEF taskState
  <2>4. ASSUME NEW j \in Tasks, j # k
        PROVE  taskState'[j] = taskState[j]
    BY <2>1, <2>4 DEF taskState
  <2>5. taskState' = [taskState EXCEPT ![k] = "queued"]
    BY <2>3, <2>4 DEF taskState
  <2>. QED
    BY <2>3, <2>5 DEF Promise!Next, Promise!Submit, Promise!Move
<1>4. ASSUME NEW t \in Threads, ThreadExit(t) \/ Suspend(t) \/ SpuriousWakeup(t)
      PROVE  taskState' = taskState
  BY <1>4, SameTaskState DEF ThreadExit, Suspend, SpuriousWakeup
<1>5. ASSUME Startup \/ IntegrityCheck \/ Shutdown
      PROVE  taskState' = taskState
  BY <1>5, SameTaskState
  DEF Startup, IntegrityCheck, Shutdown, ShutdownBegin, ShutdownKill, ShutdownCount,
      ShutdownAdd, ShutdownClear
<1>6. CASE UNCHANGED vars
  BY <1>6, SameTaskState DEF vars
<1>. QED
  BY <1>1, <1>2, <1>3, <1>4, <1>5, <1>6 DEF Next, ThreadStep

\* The pool implements the safety part of TaskExecution, whatever the build
\* and whatever Shutdown() and spurious wake-ups do.
THEOREM PoolKeepsPromise == Spec => KeepsPromise
<1>1. Init => Promise!Init
  BY DEF Init, Promise!Init, taskState
<1>. QED
  BY <1>1, InitTaskInv, NextTaskInv, StepKeepsPromise, PTL
  DEF Spec, KeepsPromise, Promise!SafeSpec

-----------------------------------------------------------------------------
(* What threadsEaten counts                                                *)

\* Without idle threads started in reserve, every thread between its wake-up
\* and its ThreadExit is active.
EatenInv ==
  shutdown = "no" =>
    /\ threadsEaten = -Cardinality(activeThreads)
    /\ \A t \in Threads : pc[t] \in {"top", "running", "exiting"} => t \in activeThreads
    /\ \A t \in Threads : wakeups[t] > 0 => t \in activeThreads

LEMMA NextEatenInv ==
  ASSUME ~Spurious, ~Maintained
  PROVE  PoolInv /\ EatenInv /\ [Next]_vars => EatenInv'
<1>. SUFFICES ASSUME PoolInv, EatenInv, [Next]_vars, shutdown' = "no"
              PROVE  EatenInv'
  BY DEF EatenInv
<1>0. /\ TypeOK
      /\ \A t \in activeThreads : t \in Threads
      /\ IsFiniteSet(activeThreads) /\ Cardinality(activeThreads) \in Nat
  BY CardinalityNat DEF PoolInv, TaskInv, TypeOK
<1>. USE DEF poolVars, taskVars, shutVars
<1>1. ASSUME NEW t \in Threads, TakeTask(t)
      PROVE  EatenInv'
  BY <1>0, <1>1 DEF TakeTask, TypeOK, EatenInv
<1>2. ASSUME NEW t \in Threads, ThreadExit(t)
      PROVE  EatenInv'
  <2>1. t \in activeThreads /\ shutdown = "no" /\ threadsToExit = 0
    BY <1>2 DEF ThreadExit, EatenInv, PoolInv, ServeInv
  <2>2. Cardinality(activeThreads \ {t}) = Cardinality(activeThreads) - 1
    BY <1>0, <2>1, FS_RemoveElement
  <2>3. /\ activeThreads' = activeThreads \ {t} /\ threadsEaten' = threadsEaten + 1
        /\ pc' = [pc EXCEPT ![t] = "suspending"]
        /\ wakeups' = wakeups
    BY <1>2, <2>1 DEF ThreadExit
  <2>4. wakeups[t] = 0
    BY <1>0, <1>2, <2>1 DEF ThreadExit, PoolInv, FreeInv, ServeInv, TypeOK
  <2>. QED
    BY <1>0, <2>1, <2>2, <2>3, <2>4 DEF EatenInv, TypeOK
<1>3. ASSUME NEW t \in Threads, Suspend(t)
      PROVE  EatenInv'
  <2>1. CASE Remembered
    BY <1>0, <1>3, <2>1 DEF Suspend, TypeOK, EatenInv
  <2>2. CASE ~Remembered
    BY <1>0, <1>3, <2>2 DEF Suspend, TypeOK, EatenInv
  <2>. QED
    BY <2>1, <2>2
<1>4. ASSUME NEW t \in Threads, NEW deletes \in BOOLEAN, FinishTask(t, deletes)
      PROVE  EatenInv'
  BY <1>0, <1>4 DEF FinishTask, TypeOK, EatenInv
<1>5. ASSUME NEW k \in Tasks, ExecuteTask(k)
      PROVE  EatenInv'
  <2>1. PICK t \in Threads \ activeThreads :
             /\ activeThreads' = activeThreads \cup {t}
             /\ \A u \in Threads \ {t} : pc'[u] = pc[u] /\ wakeups'[u] = wakeups[u]
    <3>1. CASE freeThreads = {}
      <4>1. PICK t \in Threads : /\ pc[t] = "unborn"
                                 /\ pc' = [pc EXCEPT ![t] = "top"]
                                 /\ activeThreads' = activeThreads \cup {t}
                                 /\ wakeups' = wakeups
        BY <1>5, <3>1 DEF ExecuteTask, Unborn
      <4>2. t \notin activeThreads
        BY <4>1 DEF PoolInv, FreeInv
      <4>. QED
        BY <1>0, <4>1, <4>2 DEF TypeOK
    <3>2. CASE freeThreads # {}
      <4>1. PICK t \in freeThreads : /\ activeThreads' = activeThreads \cup {t}
                                     /\ Resume({t})
        BY <1>5, <3>2 DEF ExecuteTask
      <4>2. t \in Threads \ activeThreads
        BY <1>0, <1>5, <4>1 DEF ExecuteTask, PoolInv, ServeInv, TypeOK
      <4>3. \A u \in Threads \ {t} : pc'[u] = pc[u] /\ wakeups'[u] = wakeups[u]
        BY <1>0, <4>1, <4>2, ResumeEffect
      <4>. QED
        BY <4>1, <4>2, <4>3
    <3>. QED
      BY <3>1, <3>2
  <2>2. Cardinality(activeThreads') = Cardinality(activeThreads) + 1
    BY <1>0, <2>1, FS_AddElement
  <2>3. threadsEaten' = threadsEaten - 1 /\ shutdown = "no"
    BY <1>5 DEF ExecuteTask
  <2>. QED
    BY <1>0, <2>1, <2>2, <2>3 DEF EatenInv, TypeOK
<1>6. ASSUME Shutdown
      PROVE  FALSE
  BY <1>6 DEF Shutdown, ShutdownBegin, ShutdownKill, ShutdownCount, ShutdownAdd, ShutdownClear
<1>7. CASE UNCHANGED vars
  BY <1>7 DEF vars, EatenInv
<1>. QED
  BY <1>1, <1>2, <1>3, <1>4, <1>5, <1>6, <1>7
  DEF Next, ThreadStep, SpuriousWakeup, Startup, IntegrityCheck

\* As the bot runs the pool, its statistic is never positive.
THEOREM EatenCountsActiveThreads ==
  ASSUME ~Spurious, ~Maintained
  PROVE  Spec => []EatenIsMinusActive
<1>1. Init => EatenInv
  BY FS_EmptySet DEF Init, EatenInv
<1>2. EatenInv => EatenIsMinusActive
  BY DEF EatenInv, EatenIsMinusActive
<1>3. PoolInv /\ EatenInv /\ [Next]_vars => EatenInv'
  BY NextEatenInv
<1>. QED
  BY <1>1, <1>2, <1>3, PoolInvariant, PTL DEF Spec
=============================================================================
