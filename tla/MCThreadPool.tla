---------------------------- MODULE MCThreadPool ----------------------------
(* ThreadPool with three threads and three tasks. *)
EXTENDS ThreadPool, TLC

CONSTANTS t1, t2, t3, k1, k2, k3

MCThreads == {t1, t2, t3}
MCTasks   == {k1, k2, k3}

\* Threads and tasks are interchangeable; used by safety runs only.
Symmetry == Permutations(MCThreads) \cup Permutations(MCTasks)
=============================================================================
