----------------------------- MODULE Allocator ------------------------------
(***************************************************************************)
(* What heap.h promises of the kernel heap, with no free list in sight: an *)
(* allocation is an aligned region of at least the bytes asked for that no *)
(* live allocation overlaps; it stays live, where it is, until it is freed;*)
(* and freeing anything that is not live changes nothing.                  *)
(***************************************************************************)
EXTENDS Integers

CONSTANTS
    Callers,        \* the tasks that allocate
    Sizes,          \* the requests they make, in bytes
    HEAP_ALIGN,
    lo, hi          \* the region the allocator owns is lo .. hi - 1

VARIABLES
    live,           \* the allocations: records of a base and a size
    pending         \* pending[c]: the bytes caller c is asking for, 0 when none

allocVars == <<live, pending>>

Disjoint(r, s) == r.base + r.size <= s.base \/ s.base + s.size <= r.base

AllocInit == live = {} /\ pending = [c \in Callers |-> 0]

Ask(c, bytes) == /\ pending[c] = 0
                 /\ pending' = [pending EXCEPT ![c] = bytes]
                 /\ UNCHANGED live

\* The new region r is the only change.
Grant(c) ==
    /\ pending[c] > 0
    /\ \E r \in live' :
        /\ live' = live \cup {r}
        /\ r.size >= pending[c]
        /\ r.base >= lo /\ r.base + r.size <= hi /\ r.base % HEAP_ALIGN = 0
        /\ \A s \in live : Disjoint(r, s)
    /\ pending' = [pending EXCEPT ![c] = 0]

Refuse(c) == /\ pending[c] > 0
             /\ pending' = [pending EXCEPT ![c] = 0]
             /\ UNCHANGED live

Release(r) == live' = live \ {r} /\ UNCHANGED pending

AllocNext ==
    \/ \E c \in Callers : (\E bytes \in Sizes \ {0} : Ask(c, bytes)) \/ Grant(c) \/ Refuse(c)
    \/ \E r \in live : Release(r)

AllocSpec == AllocInit /\ [][AllocNext]_allocVars

=============================================================================
