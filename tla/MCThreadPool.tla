---------------------------- MODULE MCThreadPool ----------------------------
(* Instances of ThreadPool for TLC: threads and tasks are model values.     *)
EXTENDS ThreadPool, TLC

\* Workers are interchangeable, and so are clients and tasks.
Interchangeable ==
    Permutations(Workers) \cup Permutations(Clients) \cup Permutations(Tasks)
=============================================================================
