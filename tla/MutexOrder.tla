----------------------------- MODULE MutexOrder -----------------------------
(***************************************************************************)
(* Mutex with a history variable: the order in which the tasks on the wait *)
(* list joined it.                                                         *)
(***************************************************************************)
EXTENDS Mutex, Sequences

VARIABLE arrivals   \* history: the waiters, longest waiting first

orderVars == <<vars, arrivals>>

OrderInit == Init /\ arrivals = <<>>

\* A step takes at most one task off the wait list or puts at most one on it.
OrderNext ==
    /\ Next
    /\ arrivals' = SelectSeq(arrivals, LAMBDA t : t \in waiters')
                     \o (IF waiters' \subseteq waiters THEN <<>>
                         ELSE <<CHOOSE t \in waiters' \ waiters : TRUE>>)

OrderSpec == OrderInit /\ [][OrderNext]_orderVars

\* mutex_unlock, "Hand the lock to the longest-waiting candidate": whoever is
\* granted the lock is the task that has been on the wait list longest.
LongestWaitingFirst ==
    [][\A t \in granted' \ granted : t = Head(arrivals)]_orderVars

=============================================================================
