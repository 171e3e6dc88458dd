------------------------------ MODULE MCMutex -------------------------------
(* Instances of Mutex for TLC. *)
EXTENDS Mutex

\* Priorities below, inside and above the range task_set_priority clamps to.
MCNewPrios == {-1, 0, 2}

=============================================================================
