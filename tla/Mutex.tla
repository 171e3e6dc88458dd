------------------------------- MODULE Mutex --------------------------------
(***************************************************************************)
(* The blocking, recursive mutex of kernel/mutex.c on top of the scheduler *)
(* of Task.tla: one mutex, and tasks that lock, unlock, sleep, wake and    *)
(* create each other in any order.  Every path of mutex.c between          *)
(* crit_enter and crit_exit is one step.                                   *)
(***************************************************************************)
EXTENDS Task

CONSTANTS
    Booted,     \* the tasks kmain creates, idle apart
    Creators,   \* the tasks that call task_create after boot
    Wakers,     \* the tasks that call task_wake
    IrqTasks,   \* the tasks an interrupt handler may wake
    Naps,       \* the arguments of task_sleep and task_sleep_armed
    NewPrios,   \* the arguments of task_set_priority
    MaxDepth    \* bound on the recursion of mutex_lock

ASSUME MutexAssumption ==
    /\ Booted \subseteq Workers /\ Creators \subseteq Workers
    /\ Wakers \subseteq Workers /\ IrqTasks \subseteq Workers
    /\ Naps \subseteq Nat /\ NewPrios \subseteq Int /\ MaxDepth \in Nat \ {0}

MUTEX_FREE == -2

VARIABLES
    owner, depth,
    waiters,    \* the bitmask of blocked task ids
    granted,    \* handed the lock, not yet resumed
    held        \* history: acquisitions each task has returned with, less its unlocks

mutexVars == <<owner, depth, waiters, granted, held>>
vars == <<taskVars, mutexVars>>

\* The type of every variable of the task table and of the mutex.
TypeOK ==
    /\ TaskTypeOK
    /\ owner \in Slots \cup {MUTEX_FREE}
    /\ depth \in Nat
    /\ waiters \subseteq Slots
    /\ granted \subseteq Slots
    /\ held \in [Slots -> Nat]

\* mutex_init; the scheduler has not started.
Init ==
    /\ TaskInit(Booted)
    /\ owner = MUTEX_FREE /\ depth = 0 /\ waiters = {} /\ granted = {}
    /\ held = [t \in Slots |-> 0]

-----------------------------------------------------------------------------
TaskFrame == UNCHANGED <<prio, base_prio, waiting, woken, g_current, g_ticks,
                         deadline, target, due>>

\* The caller is at its first pass or back from a task_yield of the loop.
InLock(t) == Runs(t, "user") \/ Runs(t, "lock")

ReturnLocked(t) ==
    /\ call' = [call EXCEPT ![t] = "user"]
    /\ held' = [held EXCEPT ![t] = @ + 1]
    /\ UNCHANGED state
    /\ TaskFrame

\* A handoff made this task the owner while it was blocked.
LockGranted(t) ==
    /\ InLock(t) /\ t \in granted
    /\ granted' = granted \ {t}
    /\ ReturnLocked(t)
    /\ UNCHANGED <<owner, depth, waiters>>

LockFree(t) ==
    /\ InLock(t) /\ t \notin granted /\ owner = MUTEX_FREE
    /\ owner' = t /\ depth' = 1
    /\ ReturnLocked(t)
    /\ UNCHANGED <<waiters, granted>>

\* Mutant of LockRecursive: owner == me is tested before the grant.
LockRecursive_first(t) ==
    /\ InLock(t) /\ owner = t /\ depth <= MaxDepth
    /\ depth' = depth + 1
    /\ ReturnLocked(t)
    /\ UNCHANGED <<owner, waiters, granted>>

LockRecursive(t) ==
    /\ InLock(t) /\ t \notin granted /\ owner = t /\ depth < MaxDepth
    /\ depth' = depth + 1
    /\ ReturnLocked(t)
    /\ UNCHANGED <<owner, waiters, granted>>

\* Held by someone else: join the waiters and block, in one critical section.
LockWait(t) ==
    /\ InLock(t) /\ t \notin granted /\ owner \notin {MUTEX_FREE, t}
    /\ waiters' = waiters \cup {t}
    /\ task_block(t)
    /\ call' = [call EXCEPT ![t] = "lock"]
    /\ TaskFrame
    /\ UNCHANGED <<owner, depth, granted, held>>

mutex_lock(t) == LockGranted(t) \/ LockFree(t) \/ LockRecursive(t) \/ LockWait(t)

\* A refusal changes nothing and is not a step.
mutex_try_lock(t) ==
    /\ Runs(t, "user")
    /\ \/ owner = MUTEX_FREE /\ owner' = t /\ depth' = 1
       \/ owner = t /\ depth < MaxDepth /\ depth' = depth + 1 /\ UNCHANGED owner
    /\ ReturnLocked(t)
    /\ UNCHANGED <<waiters, granted>>

-----------------------------------------------------------------------------
(* mutex_unlock: any task may call it, holder or not.                       *)

\* Mutant of HandTo: the grant is not recorded.
HandTo_ungranted(next) ==
    /\ next \in waiters /\ \A u \in waiters : next <= u
    /\ waiters' = waiters \ {next}
    /\ owner' = next /\ depth' = 1
    /\ task_unblock(next)
    /\ UNCHANGED granted

\* Ownership moves with the wakeup, to the lowest id in the mask.
HandTo(next) ==
    /\ next \in waiters /\ \A u \in waiters : next <= u
    /\ waiters' = waiters \ {next}
    /\ granted' = granted \cup {next}
    /\ owner' = next /\ depth' = 1
    /\ task_unblock(next)

\* Not the owner: counted in m->errors and refused.
UnlockRefused(t) ==
    /\ owner # t
    /\ UNCHANGED <<state, owner, depth, waiters, granted>>

UnlockInner(t) ==
    /\ owner = t /\ depth > 1
    /\ depth' = depth - 1
    /\ UNCHANGED <<state, owner, waiters, granted>>

UnlockHandoff(t) ==
    /\ owner = t /\ depth <= 1
    /\ \E next \in waiters : HandTo(next)

\* Mutant of UnlockFree: the lock is freed although tasks wait for it.
UnlockFree_always(t) ==
    /\ owner = t /\ depth <= 1
    /\ depth' = 0 /\ owner' = MUTEX_FREE
    /\ UNCHANGED <<state, waiters, granted>>

UnlockFree(t) ==
    /\ owner = t /\ depth <= 1 /\ waiters = {}
    /\ depth' = 0 /\ owner' = MUTEX_FREE
    /\ UNCHANGED <<state, waiters, granted>>

mutex_unlock(t) ==
    /\ Runs(t, "user")
    /\ UnlockRefused(t) \/ UnlockInner(t) \/ UnlockHandoff(t) \/ UnlockFree(t)
    /\ held' = [held EXCEPT ![t] = IF @ > 0 THEN @ - 1 ELSE 0]
    /\ UNCHANGED call
    /\ TaskFrame

-----------------------------------------------------------------------------
Interrupt(tick) == \E wakes \in SUBSET IrqTasks : Level3(tick, wakes) /\ UNCHANGED mutexVars

SleepPass(t) == (SleepWoken(t) \/ SleepTimeout(t) \/ SleepPark(t)) /\ UNCHANGED mutexVars

SleepCall(t) == /\ \E n \in Naps : task_sleep(t, n) \/ task_sleep_armed(t, n)
                /\ UNCHANGED mutexVars

ArmCall(t) == task_arm_wake(t) /\ UNCHANGED mutexVars

WakeCall(t) == /\ t \in Wakers
               /\ \/ \E id \in Slots : task_wake(t, id)
                  \/ WakeStore(t)
               /\ UNCHANGED mutexVars

\* A new task starts holding nothing.
CreateCall(t) == /\ t \in Creators
                 /\ \/ task_create(t) /\ UNCHANGED held
                    \/ CreateStore(t) /\ held' = [held EXCEPT ![target[t]] = 0]
                 /\ UNCHANGED <<owner, depth, waiters, granted>>

PriorityCall(t) == /\ \E id \in Workers, p \in NewPrios : task_set_priority(t, id, p)
                   /\ UNCHANGED mutexVars

\* task_idle is a loop of WAITI: it makes no call.
TaskStep(t) ==
    \/ mutex_lock(t)
    \/ mutex_try_lock(t)
    \/ mutex_unlock(t)
    \/ SleepCall(t)
    \/ SleepPass(t)
    \/ ArmCall(t)
    \/ WakeCall(t)
    \/ CreateCall(t)
    \/ PriorityCall(t)

Next == (\E tick \in BOOLEAN : Interrupt(tick)) \/ (\E t \in Workers : TaskStep(t))

Spec == Init /\ [][Next]_vars

\* The scheduler is entered again and again, by ticks unless the bound on late
\* sleepers holds the clock back, and a task that is given the CPU inside a kernel loop
\* again and again gets through a pass of it: a pass is a few dozen cycles and a
\* tick is TICK_INTERVAL_CYCLES.  Nothing is assumed of what callers do.
FairSpec ==
    /\ Spec
    /\ WF_vars(Interrupt(TRUE)) /\ WF_vars(\E tick \in BOOLEAN : Interrupt(tick))
    /\ \A t \in Workers : SF_vars(SleepPass(t)) /\ SF_vars(Runs(t, "lock") /\ mutex_lock(t))

-----------------------------------------------------------------------------
(* Safety.                                                                  *)

\* A caller that mutex_lock or mutex_try_lock let in, and that has not unlocked
\* as often, is the owner, and the recursion count is its own count: two tasks
\* are never inside, and no acquisition leaves depth too high (the comment on
\* the order of the tests in mutex_lock).
HolderOwns == \A t \in Slots : held[t] > 0 => owner = t /\ depth = held[t] /\ t \notin granted

\* The lock is never lost: an owner is either inside, or was handed the lock by
\* mutex_unlock, is still in mutex_lock's loop and will find its grant there.
LockAccounted ==
    \/ owner = MUTEX_FREE /\ granted = {} /\ depth = 0
    \/ owner \in Workers /\ granted = {} /\ depth > 0 /\ held[owner] = depth
    \/ owner \in Workers /\ granted = {owner} /\ depth = 1 /\ held[owner] = 0
          /\ call[owner] = "lock" /\ state[owner] = "READY"

\* No lost wakeup: a blocked task is on the wait list, a task on it is in
\* mutex_lock's loop, and somebody else owns the lock and will hand it over.
NoLostWakeup ==
    /\ \A t \in Slots : state[t] = "BLOCKED" => t \in waiters
    /\ \A t \in waiters : call[t] = "lock" /\ owner \notin {MUTEX_FREE, t}

\* A task that has come back from task_sleep or mutex_lock is READY: task_yield
\* leaves it running past the point where it parked itself, and it must not be
\* able to return in that window still marked SLEEPING or BLOCKED.
UserCodeIsReady == \A t \in Slots : call[t] \in {"user", "wake", "create"} =>
                                        state[t] \in {"READY", "UNUSED"}

\* A sleeper whose time has passed is never left SLEEPING: the sweep of the
\* scheduler runs with every advance of the clock, also when it wraps.
PunctualWake == \A t \in Slots : state[t] = "SLEEPING" => due[t] > 0

\* A task never sleeps on with a wake recorded for it, except while the waker
\* is between recording it and storing READY.
NoWakeLost == \A t \in Slots : state[t] = "SLEEPING" /\ woken[t] =>
                  \E u \in Slots : call[u] = "wake" /\ target[u] = t

\* A sleep that nobody cut short lasts as many ticks as were asked for (or the
\* clamp allows), also across the wrap of the tick counter.
NoEarlyReturn ==
    [][\A t \in Slots : call[t] = "sleep" /\ call'[t] = "user" /\ ~woken[t] => due[t] <= 0]_vars

\* Ageing bounds the wait of every runnable task, in entries of the scheduler,
\* whatever sits above it: LEVELS * AGE_TICKS, then one turn of every other task.
MaxWait == TASK_PRIO_LEVELS * TASK_AGE_TICKS + TASK_MAX - 2
WaitBound == \A t \in Workers : waiting[t] <= MaxWait

\* A slot that a task_create has chosen is still unused when it is published.
OneTaskPerSlot == \A t \in Slots : call[t] = "create" => state[target[t]] = "UNUSED"

\* What the safety properties above rest on: where a task is and what the table
\* says of it.
TableInv ==
    /\ \A t \in Slots : state[t] = "UNUSED" => call[t] = "user" /\ held[t] = 0
    /\ \A t \in Slots : state[t] = "SLEEPING" => call[t] = "sleep"
    /\ \A t \in Slots : call[t] = "lock" => t \in waiters \cup granted
    /\ \A t \in Slots : call[t] = "wake" => state[target[t]] # "UNUSED"
    /\ \A t \in Slots : call[t] = "create" => t \in Creators
    /\ \A t \in Slots : g_current = t =>
          /\ state[t] # "UNUSED"
          /\ state[t] = "SLEEPING" => ~woken[t] /\ ~Reached(g_ticks, deadline[t])
    /\ state[g_idle_id] = "READY" /\ call[g_idle_id] = "user"

LockInv ==
    /\ TypeOK
    /\ TableInv
    /\ OneTaskPerSlot
    /\ HolderOwns
    /\ LockAccounted
    /\ NoLostWakeup
    /\ UserCodeIsReady
    /\ NoWakeLost

\* What WaitBound rests on: only a READY task that is not running has waited,
\* and once a task has waited k entries past LEVELS * AGE_TICKS, k other tasks
\* have had their turn within those k entries.
Aged_out == TASK_PRIO_LEVELS * TASK_AGE_TICKS
RecentlyRun(t, k) == {u \in Workers \ {t} : waiting[u] < k}
AgeInv ==
    /\ TypeOK
    /\ \A t \in Workers : state[t] # "READY" \/ g_current = t => waiting[t] = 0
    /\ \A t \in Workers : LET k == waiting[t] - Aged_out IN
          k > 0 => Cardinality(RecentlyRun(t, k)) >= k

(* Liveness.                                                                *)

\* Every task_sleep returns.
SleepEnds == \A t \in Workers : call[t] = "sleep" ~> call[t] # "sleep"

\* A task that was handed the lock gets the CPU and returns with it.
GrantIsTaken == \A t \in Workers : t \in granted ~> t \notin granted

=============================================================================
