-------------------------------- MODULE Blob --------------------------------
(* The vendor call bridge: the recursive mutex that lets one context at a time  *)
(* into the windowed vendor code (blobcall.c), its windowed halves              *)
(* (blob_lock_w.c), and the adapter entries that give it up in order to wait    *)
(* (wifi_osi_stubs.c). Callers enter through blob_call; the driver's own task   *)
(* is created by one of them and receives from the driver's queue for ever.     *)
EXTENDS Integers, FiniteSets

CONSTANTS
    BlobCallers,        \* tasks that call the driver: task ids
    BlobWorkers,        \* tasks the driver creates: task ids
    BlobReceivers,      \* those of them that wait on the driver's queue
    QueueRoom           \* messages the driver's queue holds

BlobTasks == BlobCallers \cup BlobWorkers

ASSUME BlobAssumption ==
    /\ BlobTasks \subseteq Nat /\ BlobCallers \cap BlobWorkers = {}
    /\ BlobReceivers \subseteq BlobTasks /\ QueueRoom \in Nat \ {0}

NOBODY == -1            \* g_pinned
UNOWNED == -2           \* MUTEX_FREE

VARIABLES
    b_owner, b_depth, b_waiters, b_granted,     \* g_blob_mutex
    b_saved,            \* g_saved_depth
    g_pinned,           \* the task that last announced itself in vendor code
    b_pc,               \* where each task is
    b_me,               \* the identity a task took from g_pinned
    b_levels,           \* how many levels of the mutex a task believes it holds
    b_mutex,            \* external: the holder of the driver's own mutex
    b_len,              \* messages in the driver's queue
    b_id                \* blob tasks whose id blob_task_create has stored

lockVars == <<b_owner, b_depth, b_waiters, b_granted>>
blobVars == <<lockVars, b_saved, g_pinned, b_pc, b_me, b_levels, b_mutex, b_len, b_id>>

-----------------------------------------------------------------------------
(* kernel/mutex.c, as far as this mutex uses it. *)

\* The lock as a record of its four fields.
Lock(o, d, w, g) == b_owner' = o /\ b_depth' = d /\ b_waiters' = w /\ b_granted' = g

\* One pass of mutex_lock's loop: TRUE in `got' when the task has the lock.
mutex_lock_pass(t, got) ==
    \/ t \in b_granted /\ got /\ Lock(b_owner, b_depth, b_waiters, b_granted \ {t})
    \/ /\ t \notin b_granted
       /\ \/ b_owner = UNOWNED /\ got /\ Lock(t, 1, b_waiters, b_granted)
          \/ b_owner = t /\ got /\ Lock(t, b_depth + 1, b_waiters, b_granted)
          \/ b_owner \notin {t, UNOWNED} /\ ~got
             /\ Lock(b_owner, b_depth, b_waiters \cup {t}, b_granted)

\* Woken: the tasks a release makes runnable again.
Awake(pc, woken) == [u \in BlobTasks |->
                        IF u \in woken /\ pc[u] = "blocked" THEN "lock" ELSE pc[u]]

\* mutex_unlock: one level, and at the last the lock goes to the lowest waiting id.
mutex_unlock_to(t, pc) ==
    LET w == CHOOSE u \in b_waiters : \A v \in b_waiters : u <= v
    IN  CASE b_owner # t       -> UNCHANGED lockVars /\ b_pc' = pc
          [] b_owner = t /\ b_depth > 1 -> Lock(t, b_depth - 1, b_waiters, b_granted) /\ b_pc' = pc
          [] b_owner = t /\ b_depth <= 1 /\ b_waiters # {} ->
                /\ Lock(w, 1, b_waiters \ {w}, b_granted \cup {w})
                /\ b_pc' = Awake(pc, {w})
          [] OTHER -> Lock(UNOWNED, 0, {}, b_granted) /\ b_pc' = pc

-----------------------------------------------------------------------------
BlobInit ==
    /\ b_owner = UNOWNED /\ b_depth = 0 /\ b_waiters = {} /\ b_granted = {}
    /\ b_saved = [t \in BlobTasks |-> 0] /\ g_pinned = NOBODY
    /\ b_pc = [t \in BlobTasks |-> IF t \in BlobCallers THEN "out" ELSE "none"]
    /\ b_me = [t \in BlobTasks |-> NOBODY] /\ b_levels = [t \in BlobTasks |-> 0]
    /\ b_mutex = NOBODY /\ b_len = 0 /\ b_id = {}

Goes(t, pc) == b_pc' = [b_pc EXCEPT ![t] = pc]

\* blob_call, as far as the mutex.
blob_call(t) ==
    /\ t \in BlobCallers /\ b_pc[t] = "out" /\ Goes(t, "lock")
    /\ UNCHANGED <<lockVars, b_saved, g_pinned, b_me, b_levels, b_mutex, b_len, b_id>>

\* A task that is neither granted nor served goes to sleep and is woken to try again.
blob_lock(t) ==
    /\ b_pc[t] = "lock"
    /\ \E got \in BOOLEAN :
        /\ mutex_lock_pass(t, got)
        /\ Goes(t, IF got THEN "pin" ELSE "blocked")
        /\ b_levels' = IF got THEN [b_levels EXCEPT ![t] = @ + 1] ELSE b_levels
    /\ UNCHANGED <<b_saved, g_pinned, b_me, b_mutex, b_len, b_id>>

\* blob_pin. The driver's task takes a second level, rom_call3's, on its way in.
blob_pin(t) ==
    /\ b_pc[t] = "pin" /\ g_pinned' = t
    /\ Goes(t, IF t \in BlobWorkers /\ b_levels[t] = 1 THEN "lock" ELSE "in")
    /\ UNCHANGED <<lockVars, b_saved, b_me, b_levels, b_mutex, b_len, b_id>>

\* The release in blob_unlock and at the end of blob_call: unpin, then one level.
blob_unlock(t, next) ==
    /\ g_pinned' = NOBODY
    /\ mutex_unlock_to(t, [b_pc EXCEPT ![t] = next])
    /\ b_levels' = [b_levels EXCEPT ![t] = @ - 1]

blob_call_returns(t) ==
    /\ t \in BlobCallers /\ b_pc[t] = "in" /\ b_mutex # t
    /\ blob_unlock(t, "out")
    /\ UNCHANGED <<b_saved, b_me, b_mutex, b_len, b_id>>

-----------------------------------------------------------------------------
(* Waiting: the uncontended entry keeps the lock, the contended one gives up ONE *)
(* level, waits, and takes it back.                                              *)

osi_s_mutex_lock(t) ==
    /\ b_pc[t] = "in" /\ b_mutex # t
    /\ IF b_mutex = NOBODY
       THEN b_mutex' = t /\ UNCHANGED <<lockVars, g_pinned, b_pc, b_levels>>
       ELSE blob_unlock(t, "mutex") /\ UNCHANGED b_mutex
    /\ UNCHANGED <<b_saved, b_me, b_len, b_id>>

osi_s_mutex_unlock(t) ==
    /\ b_pc[t] = "in" /\ b_mutex = t /\ b_mutex' = NOBODY
    /\ UNCHANGED <<lockVars, b_saved, g_pinned, b_pc, b_me, b_levels, b_len, b_id>>

osi_s_queue_send(t) ==
    /\ b_pc[t] = "in"
    /\ IF b_len < QueueRoom
       THEN b_len' = b_len + 1 /\ UNCHANGED <<lockVars, g_pinned, b_pc, b_levels>>
       ELSE blob_unlock(t, "send") /\ UNCHANGED b_len
    /\ UNCHANGED <<b_saved, b_me, b_mutex, b_id>>

\* _task_delay, and a wait for a semaphore or for event bits that are not there.
osi_s_task_delay(t) ==
    /\ b_pc[t] = "in" /\ blob_unlock(t, "delay")
    /\ UNCHANGED <<b_saved, b_me, b_mutex, b_len, b_id>>

\* The wait ends: what was waited for is there, or the time is up.
WaitEnds(t) ==
    /\ \/ b_pc[t] = "mutex" /\ b_mutex = NOBODY /\ b_mutex' = t /\ UNCHANGED b_len
       \/ b_pc[t] = "send" /\ UNCHANGED b_mutex
          /\ b_len' = IF b_len < QueueRoom THEN b_len + 1 ELSE b_len
       \/ b_pc[t] = "delay" /\ UNCHANGED <<b_mutex, b_len>>
    /\ Goes(t, "lock")
    /\ UNCHANGED <<lockVars, b_saved, g_pinned, b_me, b_levels, b_id>>

-----------------------------------------------------------------------------
(* _queue_recv: identity from g_pinned, EVERY level given up, taken back by trying. *)

osi_s_queue_recv(t) ==
    /\ t \in BlobReceivers /\ b_pc[t] = "in"
    /\ b_me' = [b_me EXCEPT ![t] = g_pinned]
    /\ b_len' = IF b_len > 0 THEN b_len - 1 ELSE b_len
    /\ Goes(t, IF b_len > 0 \/ g_pinned = NOBODY THEN "in" ELSE "release")
    /\ UNCHANGED <<lockVars, b_saved, g_pinned, b_levels, b_mutex, b_id>>

\* The waiters it owes are unblocked; none of them is handed the lock.
blob_unlock_all_w(t) ==
    LET me == b_me[t] IN
    /\ b_pc[t] = "release"
    /\ IF b_owner = me
       THEN /\ Lock(UNOWNED, 0, {}, b_granted)
            /\ b_saved' = [b_saved EXCEPT ![me] = b_depth]
            /\ b_pc' = Awake([b_pc EXCEPT ![t] = "parked"], b_waiters)
       ELSE UNCHANGED <<lockVars, b_saved>> /\ Goes(t, "parked")
    /\ g_pinned' = NOBODY
    /\ UNCHANGED <<b_me, b_levels, b_mutex, b_len, b_id>>

\* The park ends and the task announces itself before it has the lock.
osi_impl_park(t) ==
    /\ b_pc[t] = "parked" /\ g_pinned' = b_me[t] /\ Goes(t, "relock")
    /\ UNCHANGED <<lockVars, b_saved, b_me, b_levels, b_mutex, b_len, b_id>>

\* Mutant: the lock comes back at depth one, whatever was given up.
RestoredDepth_one(me) == 1

RestoredDepth(me) == IF b_saved[me] # 0 THEN b_saved[me] ELSE 1

blob_relock_all_w(t) ==
    LET me == b_me[t] IN
    /\ b_pc[t] = "relock"
    /\ CASE b_owner = UNOWNED -> /\ Lock(me, RestoredDepth(me), b_waiters, b_granted)
                                 /\ Goes(t, "poll")
         [] b_owner = me      -> /\ Lock(me, b_depth + 1, b_waiters, b_granted)
                                 /\ Goes(t, "poll")
         [] OTHER             -> UNCHANGED lockVars /\ Goes(t, "release")
    /\ UNCHANGED <<b_saved, g_pinned, b_me, b_levels, b_mutex, b_len, b_id>>

\* A message, the cap on the wait, or another round.
osi_qpoll_w(t) ==
    /\ b_pc[t] = "poll"
    /\ b_len' = IF b_len > 0 THEN b_len - 1 ELSE b_len
    /\ \/ Goes(t, "in")
       \/ b_len = 0 /\ Goes(t, "release")
    /\ UNCHANGED <<lockVars, b_saved, g_pinned, b_me, b_levels, b_mutex, b_id>>

-----------------------------------------------------------------------------
(* The driver's own task. *)

\* One dedicated stack, so one such task; its id is stored after it may already run.
blob_task_create(t, w) ==
    /\ b_pc[t] = "in" /\ w \in BlobWorkers /\ b_pc[w] = "none"
    /\ Goes(w, "born")
    /\ UNCHANGED <<lockVars, b_saved, g_pinned, b_me, b_levels, b_mutex, b_len, b_id>>

blob_task_create_stores(w) ==
    /\ w \in BlobWorkers \ b_id /\ b_pc[w] # "none" /\ b_id' = b_id \cup {w}
    /\ UNCHANGED <<lockVars, b_saved, g_pinned, b_pc, b_me, b_levels, b_mutex, b_len>>

\* The trampoline sleeps until it finds its own id in the table.
blob_task_entry(w) ==
    /\ b_pc[w] = "born" /\ w \in b_id /\ Goes(w, "lock")
    /\ UNCHANGED <<lockVars, b_saved, g_pinned, b_me, b_levels, b_mutex, b_len, b_id>>

\* The MAC's interrupt posts a frame; it never waits.
osi_s_queue_send_from_isr ==
    /\ BlobWorkers \cap b_id # {} /\ b_len < QueueRoom /\ b_len' = b_len + 1
    /\ UNCHANGED <<lockVars, b_saved, g_pinned, b_pc, b_me, b_levels, b_mutex, b_id>>

BlobNext ==
    \/ \E t \in BlobTasks :
        \/ blob_call(t) \/ blob_lock(t) \/ blob_pin(t) \/ blob_call_returns(t)
        \/ osi_s_mutex_lock(t) \/ osi_s_mutex_unlock(t) \/ osi_s_queue_send(t)
        \/ osi_s_task_delay(t) \/ WaitEnds(t)
        \/ osi_s_queue_recv(t) \/ blob_unlock_all_w(t) \/ osi_impl_park(t)
        \/ blob_relock_all_w(t) \/ osi_qpoll_w(t)
        \/ \E w \in BlobWorkers : blob_task_create(t, w)
    \/ \E w \in BlobWorkers : blob_task_create_stores(w) \/ blob_task_entry(w)
    \/ osi_s_queue_send_from_isr

BlobSpec == BlobInit /\ [][BlobNext]_blobVars

-----------------------------------------------------------------------------
\* A task in vendor code owns the mutex, at exactly the depth it took: however it
\* waited in between, nobody else is in there with it and its last unlock is the one
\* that frees the lock (blob_lock_w.c: "put the recursion depth back exactly as it was").
VendorCodeIsExclusive ==
    \A t \in BlobTasks : b_pc[t] = "in" =>
        b_owner = t /\ b_depth = b_levels[t]

(* What the code does not keep: the README tells each counterexample.         *)
\* A task that waits inside an adapter entry has let the other contexts in: it does
\* not own the mutex (wifi_osi_stubs.c: "The blob lock is then released so another
\* context may enter windowed code while we wait").
WaitingLetsOthersIn ==
    \A t \in BlobTasks : b_pc[t] \in {"mutex", "send", "delay", "parked"} => b_owner # t
=============================================================================
