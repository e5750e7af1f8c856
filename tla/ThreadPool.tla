----------------------------- MODULE ThreadPool -----------------------------
(***************************************************************************)
(* CThreadPool: the pool of threads that runs the bot's ThreadContexts     *)
(* (the console, the IRC session, every SocketMgr).                        *)
(*                                                                         *)
(* A critical section of _mutex is one action.  What the code does outside *)
(* it is split where another thread can step in: the test of               *)
(* ExecutionTarget, Run(), the return from ThreadExit, Suspend(), and      *)
(* Shutdown(), whose locking is commented out.                             *)
(***************************************************************************)
EXTENDS Integers, FiniteSets

CONSTANTS
  Threads,     \* the threads StartThread may create (the bound on the pool)
  Tasks,       \* ThreadContexts; each is handed to ExecuteTask once
  NoTask,      \* ExecutionTarget == NULL
  Reserve,     \* THREAD_RESERVE, also IntegrityCheck's and Startup's default
  Remembered,  \* Resume() before Suspend() is not lost: the semaphore build
               \* (Mac); FALSE is the condition variable without a predicate
  Spurious,    \* pthread_cond_wait may return unsignalled, ...
  EatenBound,  \* ... while threadsEaten is below this bound of the model
  Stoppable,   \* Shutdown() may be called
  Maintained   \* Startup() and IntegrityCheck() are called, as the header asks

ASSUME PoolAssumption ==
  /\ NoTask \notin Tasks
  /\ Reserve \in Nat /\ EatenBound \in Int
  /\ {Remembered, Spurious, Stoppable, Maintained} \subseteq BOOLEAN
  /\ IsFiniteSet(Threads)

VARIABLES
  pc,               \* where each thread is in thread_proc
  ExecutionTarget,  \* Thread::ExecutionTarget
  running,          \* the task whose Run() the thread is inside
  wakeups,          \* the thread's semaphore count (0 in the other build)
  activeThreads, freeThreads, threadsToExit, threadsEaten,
  DeleteAfterExit,  \* the threads whose flag is set
  stuck,            \* _mutex is held by a thread that waits for it
  shutdown,         \* how far Shutdown() is
  register,         \* the value Shutdown() has read without the lock
  submitted, begun, destroyed   \* history of the tasks

poolVars == <<activeThreads, freeThreads, threadsToExit, threadsEaten, DeleteAfterExit>>
taskVars == <<submitted, begun, destroyed>>
shutVars == <<shutdown, register>>
vars == <<pc, ExecutionTarget, running, wakeups, poolVars, stuck, shutVars, taskVars>>

PCs == {"unborn", "top", "running", "exiting", "suspending", "waiting", "gone"}
ShutdownSteps == {"no", "kill", "count", "add", "clear", "done"}

Unborn == {t \in Threads : pc[t] = "unborn"}
Alive  == {t \in Threads : pc[t] \notin {"unborn", "gone"}}

Init ==
  /\ pc = [t \in Threads |-> "unborn"]
  /\ ExecutionTarget = [t \in Threads |-> NoTask]
  /\ running = [t \in Threads |-> NoTask]
  /\ wakeups = [t \in Threads |-> 0]
  /\ activeThreads = {} /\ freeThreads = {} /\ DeleteAfterExit = {}
  /\ threadsToExit = 0 /\ threadsEaten = 0
  /\ stuck = FALSE
  /\ shutdown = "no" /\ register = 0
  /\ submitted = {} /\ destroyed = {}
  /\ begun = [k \in Tasks |-> 0]

-----------------------------------------------------------------------------
(* ThreadController.  A signal wakes the thread only if it waits already;  *)
(* a semaphore keeps the count.                                            *)

\* Faulty: nobody is woken (TaskStarts).
ResumeNobody(S) == UNCHANGED <<pc, wakeups>>

Resume(S) ==
  IF Remembered
    THEN /\ wakeups' = [t \in Threads |-> IF t \in S THEN wakeups[t] + 1 ELSE wakeups[t]]
         /\ UNCHANGED pc
    ELSE /\ pc' = [t \in Threads |-> IF t \in S /\ pc[t] = "waiting" THEN "top" ELSE pc[t]]
         /\ UNCHANGED wakeups

Suspend(t) ==
  /\ pc[t] = "suspending"
  /\ IF Remembered
       THEN /\ wakeups[t] > 0
            /\ wakeups' = [wakeups EXCEPT ![t] = @ - 1]
            /\ pc' = [pc EXCEPT ![t] = "top"]
       ELSE /\ pc' = [pc EXCEPT ![t] = "waiting"]
            /\ UNCHANGED wakeups
  /\ UNCHANGED <<ExecutionTarget, running, poolVars, stuck, shutVars, taskVars>>

SpuriousWakeup(t) ==
  /\ Spurious
  /\ threadsEaten < EatenBound
  /\ pc[t] = "waiting"
  /\ pc' = [pc EXCEPT ![t] = "top"]
  /\ UNCHANGED <<ExecutionTarget, running, wakeups, poolVars, stuck, shutVars, taskVars>>

-----------------------------------------------------------------------------
(* thread_proc                                                             *)

\* A thread that finds a target enters its Run(); one that finds none
\* goes straight to ThreadExit.
TakeTask(t) ==
  /\ pc[t] = "top"
  /\ LET k == ExecutionTarget[t] IN
       IF k = NoTask
         THEN /\ pc' = [pc EXCEPT ![t] = "exiting"]
              /\ UNCHANGED <<running, begun>>
         ELSE /\ pc' = [pc EXCEPT ![t] = "running"]
              /\ running' = [running EXCEPT ![t] = k]
              /\ begun' = [begun EXCEPT ![k] = @ + 1]
  /\ UNCHANGED <<ExecutionTarget, wakeups, poolVars, stuck, shutVars, submitted, destroyed>>

\* Faulty: the target is not reset (AtMostOnce, KeepsPromise, DestroyedAfterRun).
FinishTaskKeepsTarget(t, deletes) ==
  /\ pc[t] = "running"
  /\ pc' = [pc EXCEPT ![t] = "exiting"]
  /\ running' = [running EXCEPT ![t] = NoTask]
  /\ destroyed' = IF deletes THEN destroyed \cup {ExecutionTarget[t]} ELSE destroyed
  /\ UNCHANGED <<ExecutionTarget, wakeups, poolVars, stuck, shutVars, submitted, begun>>

\* Run() returns; on TRUE the object ExecutionTarget points to now is deleted.
FinishTask(t, deletes) ==
  /\ pc[t] = "running"
  /\ pc' = [pc EXCEPT ![t] = "exiting"]
  /\ running' = [running EXCEPT ![t] = NoTask]
  /\ destroyed' = IF deletes THEN destroyed \cup {ExecutionTarget[t]} ELSE destroyed
  /\ ExecutionTarget' = [ExecutionTarget EXCEPT ![t] = NoTask]
  /\ UNCHANGED <<wakeups, poolVars, stuck, shutVars, submitted, begun>>

\* Faulty: a thread that returns to the pool stays in the active set
\* (FreeThreadsAreIdle, EatenIsMinusActive) ...
ThreadExitStaysActive(t) ==
  /\ pc[t] = "exiting" /\ ~stuck
  /\ IF threadsToExit > 0
       THEN /\ threadsToExit' = threadsToExit - 1
            /\ activeThreads' = activeThreads \ {t}
            /\ freeThreads' = IF t \in DeleteAfterExit THEN freeThreads \ {t} ELSE freeThreads
            /\ pc' = [pc EXCEPT ![t] = "gone"]
            /\ UNCHANGED threadsEaten
       ELSE /\ threadsEaten' = threadsEaten + 1
            /\ freeThreads' = freeThreads \cup {t}
            /\ pc' = [pc EXCEPT ![t] = "suspending"]
            /\ UNCHANGED <<threadsToExit, activeThreads>>
  /\ UNCHANGED <<ExecutionTarget, running, wakeups, DeleteAfterExit, stuck, shutVars, taskVars>>

\* ... and: a ticket is found when none is left (TypeOK).
ThreadExitOffByOne(t) ==
  /\ pc[t] = "exiting" /\ ~stuck
  /\ activeThreads' = activeThreads \ {t}
  /\ IF threadsToExit >= 0
       THEN /\ threadsToExit' = threadsToExit - 1
            /\ freeThreads' = IF t \in DeleteAfterExit THEN freeThreads \ {t} ELSE freeThreads
            /\ pc' = [pc EXCEPT ![t] = "gone"]
            /\ UNCHANGED threadsEaten
       ELSE /\ threadsEaten' = threadsEaten + 1
            /\ freeThreads' = freeThreads \cup {t}
            /\ pc' = [pc EXCEPT ![t] = "suspending"]
            /\ UNCHANGED threadsToExit
  /\ UNCHANGED <<ExecutionTarget, running, wakeups, DeleteAfterExit, stuck, shutVars, taskVars>>

\* An exit ticket ends the thread that finds it, whichever thread it was
\* issued for; only a thread marked DeleteAfterExit leaves the free set.
ThreadExit(t) ==
  /\ pc[t] = "exiting"
  /\ ~stuck
  /\ activeThreads' = activeThreads \ {t}
  /\ IF threadsToExit > 0
       THEN /\ threadsToExit' = threadsToExit - 1
            /\ freeThreads' = IF t \in DeleteAfterExit THEN freeThreads \ {t} ELSE freeThreads
            /\ pc' = [pc EXCEPT ![t] = "gone"]
            /\ UNCHANGED threadsEaten
       ELSE /\ threadsEaten' = threadsEaten + 1
            /\ freeThreads' = freeThreads \cup {t}
            /\ pc' = [pc EXCEPT ![t] = "suspending"]
            /\ UNCHANGED threadsToExit
  /\ UNCHANGED <<ExecutionTarget, running, wakeups, DeleteAfterExit, stuck, shutVars, taskVars>>

-----------------------------------------------------------------------------
(* CThreadPool                                                             *)

ExecuteTask(k) ==
  /\ ~stuck
  /\ k \notin submitted
  /\ submitted' = submitted \cup {k}
  /\ threadsEaten' = threadsEaten - 1
  /\ \/ \E t \in freeThreads :
          /\ freeThreads' = freeThreads \ {t}
          /\ ExecutionTarget' = [ExecutionTarget EXCEPT ![t] = k]
          /\ Resume({t})
          /\ activeThreads' = activeThreads \cup {t}
     \/ /\ freeThreads = {}
        /\ \E t \in Unborn :
             /\ ExecutionTarget' = [ExecutionTarget EXCEPT ![t] = k]
             /\ pc' = [pc EXCEPT ![t] = "top"]
             /\ activeThreads' = activeThreads \cup {t}
        /\ UNCHANGED <<freeThreads, wakeups>>
  /\ UNCHANGED <<running, threadsToExit, DeleteAfterExit, stuck, shutVars, begun, destroyed>>

\* StartThread(NULL) n times.
StartIdle(n) ==
  \E S \in SUBSET Unborn :
    /\ Cardinality(S) = n
    /\ pc' = [t \in Threads |-> IF t \in S THEN "top" ELSE pc[t]]

Startup ==
  /\ Maintained
  /\ submitted = {} /\ Unborn = Threads
  /\ StartIdle(Reserve)
  /\ UNCHANGED <<ExecutionTarget, running, wakeups, poolVars, stuck, shutVars, taskVars>>

\* With too many threads the check calls KillFreeThreads, which acquires the
\* _mutex its caller holds: nobody gets it again.
IntegrityCheck ==
  /\ Maintained
  /\ ~stuck
  /\ \/ /\ threadsEaten < 0
        /\ StartIdle(Reserve - threadsEaten)
        /\ threadsEaten' = 0
        /\ UNCHANGED stuck
     \/ /\ threadsEaten \in 0 .. Reserve - 1
        /\ StartIdle(Reserve - threadsEaten)
        /\ UNCHANGED <<threadsEaten, stuck>>
     \/ /\ threadsEaten > Reserve
        /\ stuck' = TRUE
        /\ UNCHANGED <<pc, threadsEaten>>
  /\ UNCHANGED <<ExecutionTarget, running, wakeups, activeThreads, freeThreads,
                 threadsToExit, DeleteAfterExit, shutVars, taskVars>>

\* Faulty: the killed threads are not marked (NoDangling).
KillFreeThreadsUnmarked(K) ==
  /\ ExecutionTarget' = [t \in Threads |-> IF t \in K THEN NoTask ELSE ExecutionTarget[t]]
  /\ threadsToExit' = threadsToExit + Cardinality(K)
  /\ Resume(K)
  /\ UNCHANGED DeleteAfterExit

KillFreeThreads(K) ==
  /\ ExecutionTarget' = [t \in Threads |-> IF t \in K THEN NoTask ELSE ExecutionTarget[t]]
  /\ DeleteAfterExit' = DeleteAfterExit \cup K
  /\ threadsToExit' = threadsToExit + Cardinality(K)
  /\ Resume(K)

\* Shutdown() reads the size of the free set, ...
ShutdownBegin ==
  /\ Stoppable
  /\ shutdown = "no"
  /\ shutdown' = "kill"
  /\ register' = Cardinality(freeThreads)
  /\ UNCHANGED <<pc, ExecutionTarget, running, wakeups, poolVars, stuck, taskVars>>

\* ... kills that many of the threads that are free by then, ...
ShutdownKill ==
  /\ shutdown = "kill"
  /\ ~stuck
  /\ \E K \in SUBSET freeThreads :
       /\ \/ Cardinality(K) = register
          \/ Cardinality(K) < register /\ K = freeThreads
       /\ KillFreeThreads(K)
  /\ shutdown' = "count"
  /\ UNCHANGED <<running, activeThreads, freeThreads, threadsEaten, stuck, register, taskVars>>

\* ... adds a ticket for every active thread, in a read and a write that no
\* lock keeps together (and calls OnShutdown of the active tasks, which is
\* theirs to heed: Run() may return at any time here), ...
ShutdownCount ==
  /\ shutdown = "count"
  /\ shutdown' = "add"
  /\ register' = threadsToExit + Cardinality(activeThreads)
  /\ UNCHANGED <<pc, ExecutionTarget, running, wakeups, poolVars, stuck, taskVars>>

ShutdownAdd ==
  /\ shutdown = "add"
  /\ shutdown' = "clear"
  /\ threadsToExit' = register
  /\ UNCHANGED <<pc, ExecutionTarget, running, wakeups, activeThreads, freeThreads,
                 threadsEaten, DeleteAfterExit, stuck, register, taskVars>>

\* ... and, after one second, forgets the threads that are left.
ShutdownClear ==
  /\ shutdown = "clear"
  /\ shutdown' = "done"
  /\ activeThreads' = {} /\ freeThreads' = {}
  /\ UNCHANGED <<pc, ExecutionTarget, running, wakeups, threadsToExit, threadsEaten,
                 DeleteAfterExit, stuck, register, taskVars>>

ThreadStep(t) ==
  \/ TakeTask(t)
  \/ ThreadExit(t)
  \/ Suspend(t)

Shutdown == ShutdownBegin \/ ShutdownKill \/ ShutdownCount \/ ShutdownAdd \/ ShutdownClear

Next ==
  \/ \E t \in Threads :
       \/ ThreadStep(t)
       \/ SpuriousWakeup(t)
       \/ \E deletes \in BOOLEAN : FinishTask(t, deletes)
  \/ \E k \in Tasks : ExecuteTask(k)
  \/ Startup
  \/ IntegrityCheck
  \/ Shutdown

Spec == Init /\ [][Next]_vars

\* The operating system runs every thread; a task need not end.
FairSpec == Spec /\ \A t \in Threads : WF_vars(ThreadStep(t))

-----------------------------------------------------------------------------
(* Properties                                                              *)

\* Types of the variables of the pool.
TypeOK ==
  /\ pc \in [Threads -> PCs]
  /\ ExecutionTarget \in [Threads -> Tasks \cup {NoTask}]
  /\ running \in [Threads -> Tasks \cup {NoTask}]
  /\ wakeups \in [Threads -> Nat]
  /\ activeThreads \subseteq Threads
  /\ freeThreads \subseteq Threads
  /\ DeleteAfterExit \subseteq Threads
  /\ threadsToExit \in Nat
  /\ threadsEaten \in Int
  /\ stuck \in BOOLEAN
  /\ shutdown \in ShutdownSteps
  /\ register \in Nat
  /\ submitted \subseteq Tasks
  /\ begun \in [Tasks -> Nat]
  /\ destroyed \subseteq Tasks \cup {NoTask}

\* However ExecuteTask, the thread loop and Shutdown interleave, the Run() of
\* a context that was handed over once is entered at most once, and never
\* for a context that was not handed over.
AtMostOnce ==
  \A k \in Tasks : begun[k] <= 1 /\ (begun[k] = 1 => k \in submitted)

\* `delete t->ExecutionTarget` after Run() returned TRUE deletes the context
\* that ran, not one written over it meanwhile, and no thread still runs it.
DestroyedAfterRun ==
  /\ NoTask \notin destroyed
  /\ \A k \in destroyed \ {NoTask} :
        begun[k] = 1 /\ \A t \in Threads : running[t] # k /\ ExecutionTarget[t] # k

\* Neither set of the pool keeps a Thread that ThreadExit has deleted, so
\* ExecuteTask and KillFreeThreads never write to freed memory.
NoDangling == activeThreads \cup freeThreads \subseteq Alive

\* Until Shutdown() starts, a thread ExecuteTask may pick is idle and one
\* with a task is in the active set: a hand-over never overwrites a task.
FreeThreadsAreIdle ==
  shutdown = "no" =>
    /\ activeThreads \cap freeThreads = {}
    /\ \A t \in freeThreads : ExecutionTarget[t] = NoTask /\ running[t] = NoTask
    /\ \A t \in Alive : ExecutionTarget[t] # NoTask => t \in activeThreads

\* The statistic ShowStats prints with "negative is bad!": without Startup()
\* and IntegrityCheck(), as the bot runs, it is minus the number of active
\* threads, never the number of threads in reserve.
EatenIsMinusActive ==
  shutdown = "no" /\ ~Maintained => threadsEaten = -Cardinality(activeThreads)

-----------------------------------------------------------------------------
(* The promise: each task is started once, eventually.                     *)

taskState ==
  [k \in Tasks |->
     IF k \notin submitted THEN "new"
     ELSE IF begun[k] = 0 THEN "queued"
     ELSE IF \E t \in Threads : running[t] = k THEN "running"
     ELSE "finished"]

Promise == INSTANCE TaskExecution WITH Tasks <- Tasks, taskState <- taskState

\* Every step of the pool is a step of the promise or leaves it alone.
KeepsPromise == Promise!SafeSpec

\* "resume the thread, and it should start working" (ThreadPool.cpp:138): a
\* task that ExecuteTask has taken is started, whichever thread took it.
TaskStarts == \A k \in Tasks : k \in submitted ~> begun[k] > 0
=============================================================================
