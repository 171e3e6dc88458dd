-------------------------------- MODULE Heap --------------------------------
(***************************************************************************)
(* The kernel heap of kernel/heap.c: an address-ordered, doubly linked list*)
(* of blocks that tiles the region, first fit, splitting and coalescing.   *)
(* heap_alloc tests its argument against g_total before it enters the      *)
(* critical section, so an allocation is two steps; heap_free is one.      *)
(*                                                                         *)
(* Addresses and sizes are bytes.  A header is read and written as a record*)
(* of its fields at its address; payload bytes are assumed never to hold   *)
(* the two magic words, which is what heap.c's comment on them assumes.    *)
(* The counters g_high_water, g_fail and g_bad_free are left out.          *)
(***************************************************************************)
EXTENDS Integers, FiniteSets, FiniteSetsExt

CONSTANTS
    Callers,        \* the tasks that use the heap
    ADDR_MOD,       \* 2^32: addresses and sizes are uint32_t
    HEAP_ALIGN, HDR_BYTES,
    _heap_start, _heap_end,
    Requests        \* the arguments of heap_alloc

align_up(v)   == LET w == (v + HEAP_ALIGN - 1) % ADDR_MOD IN w - (w % HEAP_ALIGN)
align_down(v) == v - (v % HEAP_ALIGN)

SPLIT_MIN == HDR_BYTES + HEAP_ALIGN
Lo == align_up(_heap_start)
Hi == align_down(_heap_end)
Words == {a \in 0 .. ADDR_MOD - 1 : a % HEAP_ALIGN = 0}
NULL == 0

ASSUME HeapAssumption ==
    /\ HEAP_ALIGN \in Nat /\ HEAP_ALIGN > 0 /\ HDR_BYTES \in Nat /\ HDR_BYTES > 0
    /\ HDR_BYTES % HEAP_ALIGN = 0 /\ ADDR_MOD \in Nat /\ ADDR_MOD % HEAP_ALIGN = 0
    /\ _heap_start \in Nat /\ _heap_end \in Nat
    /\ 0 < _heap_start /\ _heap_start + HEAP_ALIGN <= ADDR_MOD
    /\ _heap_start < _heap_end /\ _heap_end < ADDR_MOD
    /\ Hi - Lo >= HDR_BYTES + HEAP_ALIGN
    /\ Requests \subseteq 0 .. ADDR_MOD - 1

VARIABLES
    hdr,            \* hdr[a]: the header read at address a
    g_first, g_total, g_used,
    want            \* want[c]: bytes of the heap_alloc c is inside, 0 when in none

vars == <<hdr, g_first, g_total, g_used, want>>

\* What is not a header: payload, or a header coalesce_with_next poisoned.
NoHeader == [prev |-> NULL, next |-> NULL, size |-> 0, magic |-> "none"]

-----------------------------------------------------------------------------
(* The walk `for (b = g_first; b; b = b->next)', as a function of the step. *)

Steps == 0 .. (Hi - Lo) \div SPLIT_MIN      \* no more blocks fit the region
Walk == LET w[i \in Steps] == IF i = 0 THEN g_first
                              ELSE IF w[i - 1] = NULL THEN NULL ELSE hdr[w[i - 1]].next
        IN  w
Blocks == {Walk[i] : i \in Steps} \ {NULL}

\* The type of the heap's words.
TypeOK ==
    /\ hdr \in [Words -> [prev : Words, next : Words, size : 0 .. ADDR_MOD - 1,
                          magic : {"none", "free", "used"}]]
    /\ g_first \in Words
    /\ g_total \in 0 .. ADDR_MOD - 1
    /\ g_used \in 0 .. ADDR_MOD - 1
    /\ want \in [Callers -> 0 .. ADDR_MOD - 1]

\* heap_init.
Init ==
    /\ hdr = [a \in Words |-> IF a = Lo
                              THEN [prev |-> NULL, next |-> NULL,
                                    size |-> Hi - Lo - HDR_BYTES, magic |-> "free"]
                              ELSE NoHeader]
    /\ g_first = Lo
    /\ g_total = Hi - Lo - HDR_BYTES
    /\ g_used = 0
    /\ want = [c \in Callers |-> 0]

-----------------------------------------------------------------------------
(* heap_alloc.                                                              *)

\* Mutant of Refused: NA-002 before its fix, no test against g_total.
Refused_never(bytes) == bytes = 0

\* Zero, or more than the heap could ever hold: refused at once.
Refused(bytes) == bytes = 0 \/ bytes > g_total

AllocEnter(c, bytes) ==
    /\ want[c] = 0
    /\ ~Refused(bytes)
    /\ want' = [want EXCEPT ![c] = bytes]
    /\ UNCHANGED <<hdr, g_first, g_total, g_used>>

Fits(a, n) == hdr[a].magic = "free" /\ hdr[a].size >= n

\* First fit: the first block of the walk that is free and large enough.
FirstFit(a, n) == LET w == Walk IN
                  \E i \in Steps : w[i] = a /\ Fits(a, n) /\ \A j \in 0 .. i - 1 : ~Fits(w[j], n)

\* Mutant of Split: tail->next->prev is not redirected.
Split_halfLinked(a, n) ==
    LET t == a + HDR_BYTES + n IN
    [hdr EXCEPT ![t] = [prev |-> a, next |-> hdr[a].next, magic |-> "free",
                        size |-> hdr[a].size - n - HDR_BYTES],
                ![a] = [@ EXCEPT !.next = t, !.size = n, !.magic = "used"]]

\* The headers once block a is cut to n bytes, its tail linked in behind it and
\* the block taken.
Split(a, n) ==
    LET t == a + HDR_BYTES + n
        h == [hdr EXCEPT ![t] = [prev |-> a, next |-> hdr[a].next, magic |-> "free",
                                 size |-> hdr[a].size - n - HDR_BYTES],
                         ![a] = [@ EXCEPT !.next = t, !.size = n, !.magic = "used"]]
    IN  IF hdr[a].next = NULL THEN h ELSE [h EXCEPT ![hdr[a].next].prev = t]

Take(c, a, n) ==
    LET split == hdr[a].size - n >= SPLIT_MIN IN
    /\ hdr' = IF split THEN Split(a, n) ELSE [hdr EXCEPT ![a].magic = "used"]
    /\ g_total' = IF split THEN g_total - HDR_BYTES ELSE g_total
    /\ g_used' = g_used + hdr'[a].size
    /\ want' = [want EXCEPT ![c] = 0]
    /\ UNCHANGED g_first

\* The critical section: search, split, mark; or fail.
AllocTake(c) ==
    /\ want[c] # 0
    /\ \E a \in Blocks : FirstFit(a, align_up(want[c])) /\ Take(c, a, align_up(want[c]))

AllocFail(c) ==
    /\ want[c] # 0
    /\ \A a \in Blocks : ~Fits(a, align_up(want[c]))
    /\ want' = [want EXCEPT ![c] = 0]
    /\ UNCHANGED <<hdr, g_first, g_total, g_used>>

heap_alloc(c) == (\E bytes \in Requests : AllocEnter(c, bytes)) \/ AllocTake(c) \/ AllocFail(c)

-----------------------------------------------------------------------------
(* heap_free.                                                               *)

Joinable(h, a) == /\ h[a].next # NULL /\ h[a].magic = "free"
                  /\ h[h[a].next].magic = "free"

\* coalesce_with_next on the headers h.
coalesce_with_next(h, a) ==
    LET n == h[a].next
        joined == [h EXCEPT ![a].size = @ + HDR_BYTES + h[n].size,
                            ![a].next = h[n].next, ![n] = NoHeader]
    IN  IF ~Joinable(h, a) THEN h
        ELSE IF h[n].next = NULL THEN joined
        ELSE [joined EXCEPT ![h[n].next].prev = a]

Joins(h, a) == IF Joinable(h, a) THEN HDR_BYTES ELSE 0

\* A live block is marked free and joined to its neighbours, next first;
\* anything else is refused.
FreeBlock(b) ==
    LET freed == [hdr EXCEPT ![b].magic = "free"]
        once  == coalesce_with_next(freed, b)
        p     == hdr[b].prev
    IN
    /\ hdr[b].magic = "used"
    /\ hdr' = IF p = NULL THEN once ELSE coalesce_with_next(once, p)
    /\ g_total' = g_total + Joins(freed, b) + (IF p = NULL THEN 0 ELSE Joins(once, p))
    /\ g_used' = g_used - hdr[b].size

\* Any aligned pointer at all: live, freed before, interior, or not the heap's.
heap_free(p) ==
    /\ p >= _heap_start + HDR_BYTES /\ p < _heap_end
    /\ FreeBlock(p - HDR_BYTES)
    /\ UNCHANGED <<g_first, want>>

Next == (\E c \in Callers : heap_alloc(c)) \/ (\E p \in Words : heap_free(p))

Spec == Init /\ [][Next]_vars

-----------------------------------------------------------------------------
Used == {a \in Blocks : hdr[a].magic = "used"}
Size(a) == hdr[a].size
BlockEnd(a) == a + HDR_BYTES + hdr[a].size

\* heap_check() returns 0 in every state a task can see: headers and back links
\* are whole, the blocks tile the region exactly, no two neighbours are free,
\* and the totals the counters keep are those of the list.
HeapCheck ==
    /\ g_first = Lo
    /\ \A a \in Blocks :
        /\ hdr[a].magic # "none"
        /\ hdr[a].prev = NULL <=> a = g_first
        /\ hdr[a].next # NULL => hdr[hdr[a].next].prev = a
        /\ hdr[a].size % HEAP_ALIGN = 0
        /\ BlockEnd(a) = IF hdr[a].next = NULL THEN Hi ELSE hdr[a].next
        /\ ~Joinable(hdr, a)
    /\ g_used = MapThenSumSet(Size, Used)
    /\ g_total = MapThenSumSet(Size, Blocks)

\* Nothing leaks: once every allocation is freed, in whatever order, the heap
\* is the one block heap_init made.
NoLeak == Used = {} => Blocks = {Lo} /\ hdr[Lo].size = Hi - Lo - HDR_BYTES

\* The list is whole and nothing leaks, between any two critical sections of heap.c
\* and whatever pointers are freed.
HeapSound == TypeOK /\ HeapCheck /\ NoLeak

\* What the list promises its callers is the allocator of Allocator.tla.
Promise == INSTANCE Allocator WITH
    Sizes <- Requests, lo <- Lo, hi <- Hi, pending <- want,
    live <- {[base |-> a + HDR_BYTES, size |-> hdr[a].size] : a \in Used}

ImplementsAllocator == Promise!AllocSpec

=============================================================================
