------------------------------ MODULE WaitQueue ------------------------------
(***************************************************************************)
(* The std::deque of waiters that pollcoro's mutex and shared_mutex keep,  *)
(* as a sequence of the tasks that wait.                                   *)
(***************************************************************************)
EXTENDS Sequences, SequencesExt

\* std::find and erase, which does nothing if t is not there.  No deque holds
\* a waiter twice (QueueConsistent), so any position of t is the first one.
Erase(q, t) ==
    IF Contains(q, t)
    THEN RemoveAt(q, CHOOSE i \in 1..Len(q) : q[i] = t)
    ELSE q

\* No waiter is queued twice.
Distinct(q) == \A i, j \in 1..Len(q) : q[i] = q[j] => i = j
==============================================================================
