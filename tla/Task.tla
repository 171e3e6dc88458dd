-------------------------------- MODULE Task --------------------------------
(***************************************************************************)
(* The task table, the scheduler and the sleep/wake primitives of          *)
(* kernel/task.c, with the tick of kernel/timer.c that drives them.        *)
(*                                                                         *)
(* One core runs one task at a time (g_current).  A critical section       *)
(* (critical.h) masks level 3, so everything between crit_enter and        *)
(* crit_exit is one step; the level-3 vector runs to completion, so an     *)
(* interrupt - the tick, a GPIO edge, and the scheduler that always        *)
(* follows them - is one step too.  Between two steps of a task any        *)
(* interrupt may come.                                                     *)
(*                                                                         *)
(* task_yield only brings CCOMPARE1 forward: it changes nothing here       *)
(* except that an interrupt comes sooner, and an interrupt may come at any *)
(* moment anyway.                                                          *)
(***************************************************************************)
EXTENDS Integers, FiniteSets

CONSTANTS
    TASK_MAX,           \* slots in g_tasks
    TASK_PRIO_LEVELS,   \* priorities are 0 .. TASK_PRIO_LEVELS - 1
    TASK_AGE_TICKS,     \* scheduler entries that buy one level of credit
    TASK_AGE_MAX,       \* cap on that credit
    TICK_MOD,           \* 2^32: g_ticks and every deadline are uint32_t
    g_idle_id           \* the slot kmain passes to task_set_idle

Slots   == 0 .. TASK_MAX - 1
Workers == Slots \ {g_idle_id}      \* the slots the rotation considers
Prios   == 0 .. TASK_PRIO_LEVELS - 1
Ticks   == 0 .. TICK_MOD - 1

TASK_PRIO_NORMAL == 1
TASK_SLEEP_MAX   == TICK_MOD \div 2 - 1
BOOT             == -1              \* g_current before the first switch

ASSUME SlotsAssumption == TASK_MAX \in Nat /\ TASK_MAX >= 2 /\ g_idle_id \in Slots
ASSUME PrioAssumption  == TASK_PRIO_LEVELS \in Nat /\ TASK_PRIO_LEVELS >= 2

\* task.h's _Static_assert (NA-006) is AGE_MAX >= LEVELS; the other bound holds
\* of the shipped constants (30 entries, 13 slots) and WaitBound needs it.
ASSUME AgeAssumption ==
    /\ TASK_AGE_TICKS \in Nat /\ TASK_AGE_TICKS >= TASK_MAX - 2 /\ TASK_AGE_TICKS > 0
    /\ TASK_AGE_MAX \in Nat /\ TASK_AGE_MAX >= TASK_PRIO_LEVELS
ASSUME TickAssumption == TICK_MOD \in Nat /\ TICK_MOD >= 4 /\ TICK_MOD % 2 = 0

VARIABLES
    state,      \* g_tasks[t].state
    prio,       \* g_tasks[t].prio, the priority selection uses
    base_prio,  \* g_tasks[t].base_prio
    waiting,    \* g_tasks[t].waiting; the idle slot's is never read
    woken,      \* g_tasks[t].woken
    g_current,  \* the running task, or BOOT
    g_ticks,    \* the clock, advanced by timer_isr
    call,       \* the blocking call t is inside, "user" when in none
    deadline,   \* task_sleep_armed's deadline; it is also wake_tick, which is
                \* stored with SLEEPING and read only while SLEEPING
    target,     \* the slot a task_wake or task_create in progress will store to
    due         \* history: ticks of the requested sleep still to pass; negative
                \* when the sleep is overdue

taskVars == <<state, prio, base_prio, waiting, woken, g_current, g_ticks,
              call, deadline, target, due>>

TaskState == {"UNUSED", "READY", "BLOCKED", "SLEEPING"}
Call      == {"user", "sleep", "lock", "wake", "create"}

TaskTypeOK ==
    /\ state \in [Slots -> TaskState]
    /\ prio \in [Slots -> Prios]
    /\ base_prio \in [Slots -> Prios]
    /\ waiting \in [Workers -> Nat]
    /\ woken \in [Slots -> BOOLEAN]
    /\ g_current \in Slots \cup {BOOT}
    /\ g_ticks \in Ticks
    /\ call \in [Slots -> Call]
    /\ deadline \in [Slots -> Ticks]
    /\ target \in [Slots -> Slots]
    /\ due \in [Slots -> Int]

-----------------------------------------------------------------------------
(* Every deadline test is (int32_t)(now - deadline) >= 0.                   *)
Reached(now, d) == (now - d) % TICK_MOD < TICK_MOD \div 2

\* kmain created `booted' and idle, and set their priorities, before it armed
\* the tick.
TaskInit(booted) ==
    /\ state = [t \in Slots |-> IF t \in booted \cup {g_idle_id} THEN "READY" ELSE "UNUSED"]
    /\ base_prio \in [Slots -> Prios]
    /\ \A t \in Slots \ booted : base_prio[t] = (IF t = g_idle_id THEN TASK_PRIO_NORMAL ELSE 0)
    /\ prio = base_prio
    /\ waiting = [t \in Workers |-> 0]
    /\ woken = [t \in Slots |-> FALSE]
    /\ g_current = BOOT
    /\ g_ticks = 0
    /\ call = [t \in Slots |-> "user"]
    /\ deadline = [t \in Slots |-> 0]
    /\ target = [t \in Slots |-> t]
    /\ due = [t \in Slots |-> 0]

-----------------------------------------------------------------------------
(* task_schedule.                                                           *)

\* Mutant of wake_sleepers: the comparison is strict, (int32_t)(now - wake) > 0.
wake_sleepers_strict(st, now) ==
    [t \in Slots |-> IF st[t] = "SLEEPING" /\ Reached(now, deadline[t]) /\ now # deadline[t]
                     THEN "READY" ELSE st[t]]

wake_sleepers(st, now) ==
    [t \in Slots |-> IF st[t] = "SLEEPING" /\ Reached(now, deadline[t])
                     THEN "READY" ELSE st[t]]

\* Mutant of Credit: a cap below the number of levels (the build error of NA-006).
Credit_short(t) == LET c == waiting[t] \div TASK_AGE_TICKS
                   IN  IF c >= TASK_PRIO_LEVELS - 1 THEN TASK_PRIO_LEVELS - 2 ELSE c

Credit(t) == LET c == waiting[t] \div TASK_AGE_TICKS
             IN  IF c > TASK_AGE_MAX THEN TASK_AGE_MAX ELSE c
Effective(t) == prio[t] + Credit(t)

\* Where the scan, which starts past the current task, meets t.
ScanPosition(t) == (t - g_current - 1) % TASK_MAX

\* t is what the selection loop leaves in `next': the best effective priority,
\* and the first met among equals; idle only when no other task is READY.
Selected(t, st) ==
    \/ /\ t \in Workers /\ st[t] = "READY"
       /\ \A u \in Workers \ {t} : st[u] = "READY" =>
             \/ Effective(t) > Effective(u)
             \/ Effective(t) = Effective(u) /\ ScanPosition(t) < ScanPosition(u)
    \/ /\ t = g_idle_id /\ st[t] = "READY"
       /\ \A u \in Workers : st[u] # "READY"

\* Mutant of Aged: a task that is passed over is not credited.
Aged_uncredited(next, st) ==
    [t \in Workers |-> IF st[t] = "READY" /\ t = next THEN 0 ELSE waiting[t]]

\* The bookkeeping done once the decision is final.
Aged(next, st) ==
    [t \in Workers |-> IF st[t] # "READY" THEN waiting[t]
                       ELSE IF t = next THEN 0 ELSE waiting[t] + 1]

\* The scheduler, entered with the states st at the time now.  The pin that
\* keeps a task inside vendor code on the CPU is compiled out (BLOB_PIN_DISABLE).
task_schedule(st, now) ==
    LET awake == wake_sleepers(st, now) IN
    \E next \in Slots :
        /\ Selected(next, awake)
        /\ state' = awake
        /\ waiting' = Aged(next, awake)
        /\ g_current' = next

-----------------------------------------------------------------------------
(* task_wake, on the states st: the flag is recorded for any live task, and *)
(* a parked one is promoted.                                                *)

WakeFlag(ids)       == [t \in Slots |-> woken[t] \/ (t \in ids /\ state[t] # "UNUSED")]
WakeStates(ids, st) == [t \in Slots |-> IF t \in ids /\ st[t] \in {"BLOCKED", "SLEEPING"}
                                        THEN "READY" ELSE st[t]]

\* The bound under which a wrapping clock can be right at all: the clock does
\* not run half its range (2^31 ticks, 248 days) past the end of a sleep before
\* the sleeper gets through one pass of its loop.
NobodyHalfRangeLate == \A t \in Slots : call[t] = "sleep" => due[t] > 1 - TICK_MOD \div 2

\* The level-3 vector: timer_isr if the tick is pending (it advances the clock
\* only when the deadline has passed, so `tick' may be FALSE on an entry that
\* a yield brought forward), then the other handlers, of which touch_isr calls
\* task_wake, then the scheduler.
Level3(tick, wakes) ==
    LET now == IF tick THEN (g_ticks + 1) % TICK_MOD ELSE g_ticks IN
    /\ tick => NobodyHalfRangeLate
    /\ g_ticks' = now
    /\ woken' = WakeFlag(wakes)
    /\ task_schedule(WakeStates(wakes, state), now)
    /\ due' = [t \in Slots |-> IF tick /\ call[t] = "sleep" THEN due[t] - 1 ELSE due[t]]
    /\ UNCHANGED <<prio, base_prio, call, deadline, target>>

-----------------------------------------------------------------------------
(* Calls of the running task.                                               *)

Runs(t, where) == g_current = t /\ call[t] = where

\* Mutant of SleepUntil: NA-001 before its fix, no clamp.
SleepUntil_unclamped(t, ticks) ==
    /\ deadline' = [deadline EXCEPT ![t] = (g_ticks + ticks) % TICK_MOD]
    /\ due' = [due EXCEPT ![t] = ticks]
    /\ call' = [call EXCEPT ![t] = "sleep"]

\* task_sleep_armed up to its loop: clamp (NA-001), then compute the deadline.
SleepUntil(t, ticks) ==
    LET n == IF ticks > TASK_SLEEP_MAX THEN TASK_SLEEP_MAX ELSE ticks IN
    /\ deadline' = [deadline EXCEPT ![t] = (g_ticks + n) % TICK_MOD]
    /\ due' = [due EXCEPT ![t] = n]
    /\ call' = [call EXCEPT ![t] = "sleep"]

task_arm_wake(t) ==
    /\ Runs(t, "user")
    /\ woken' = [woken EXCEPT ![t] = FALSE]
    /\ UNCHANGED <<state, prio, base_prio, waiting, g_current, g_ticks, call,
                   deadline, target, due>>

task_sleep_armed(t, ticks) ==
    /\ Runs(t, "user")
    /\ SleepUntil(t, ticks)
    /\ UNCHANGED <<state, prio, base_prio, waiting, woken, g_current, g_ticks, target>>

task_sleep(t, ticks) ==
    /\ Runs(t, "user")
    /\ woken' = [woken EXCEPT ![t] = FALSE]
    /\ SleepUntil(t, ticks)
    /\ UNCHANGED <<state, prio, base_prio, waiting, g_current, g_ticks, target>>

LeaveSleep(t) ==
    /\ call' = [call EXCEPT ![t] = "user"]
    /\ deadline' = [deadline EXCEPT ![t] = 0]     \* the local is dead now
    /\ due' = [due EXCEPT ![t] = 0]
    /\ UNCHANGED <<state, prio, base_prio, waiting, g_current, g_ticks, target>>

\* One pass of the loop: a wake releases it on purpose ...
SleepWoken(t) ==
    /\ Runs(t, "sleep") /\ woken[t]
    /\ woken' = [woken EXCEPT ![t] = FALSE]
    /\ LeaveSleep(t)

\* ... or the time has passed ...
SleepTimeout(t) ==
    /\ Runs(t, "sleep") /\ ~woken[t] /\ Reached(g_ticks, deadline[t])
    /\ LeaveSleep(t)
    /\ UNCHANGED woken

\* Mutants of SleepPark: it marks the task before it looks at the deadline; it
\* does not look at the wake.
SleepPark_first(t) ==
    /\ Runs(t, "sleep") /\ ~woken[t]
    /\ state' = [state EXCEPT ![t] = "SLEEPING"]
    /\ UNCHANGED <<prio, base_prio, waiting, woken, g_current, g_ticks, call,
                   deadline, target, due>>

SleepPark_blind(t) ==
    /\ Runs(t, "sleep") /\ ~Reached(g_ticks, deadline[t])
    /\ state' = [state EXCEPT ![t] = "SLEEPING"]
    /\ UNCHANGED <<prio, base_prio, waiting, woken, g_current, g_ticks, call,
                   deadline, target, due>>

\* ... or the task parks, and goes on running until the armed tick arrives.
SleepPark(t) ==
    /\ Runs(t, "sleep") /\ ~woken[t] /\ ~Reached(g_ticks, deadline[t])
    /\ state' = [state EXCEPT ![t] = "SLEEPING"]
    /\ UNCHANGED <<prio, base_prio, waiting, woken, g_current, g_ticks, call,
                   deadline, target, due>>

\* task_wake from a task (wake_all in wifi_osi_impl.c, the shell's self-test)
\* runs unmasked: a switch may fall between its test of the state and its store.
task_wake(t, id) ==
    /\ Runs(t, "user")
    /\ woken' = WakeFlag({id})
    /\ IF state[id] \in {"BLOCKED", "SLEEPING"}
       THEN /\ call' = [call EXCEPT ![t] = "wake"]
            /\ target' = [target EXCEPT ![t] = id]
       ELSE UNCHANGED <<call, target>>
    /\ UNCHANGED <<state, prio, base_prio, waiting, g_current, g_ticks, deadline, due>>

WakeStore(t) ==
    /\ Runs(t, "wake")
    /\ state' = [state EXCEPT ![target[t]] = "READY"]
    /\ call' = [call EXCEPT ![t] = "user"]
    /\ target' = [target EXCEPT ![t] = t]
    /\ UNCHANGED <<prio, base_prio, waiting, woken, g_current, g_ticks, deadline, due>>

\* task_create_with_stack scans for the lowest unused slot and fills its stack
\* with no critical section around them ...
task_create(t) ==
    /\ Runs(t, "user")
    /\ \E id \in Workers :
        /\ state[id] = "UNUSED" /\ \A u \in Slots : u < id => state[u] # "UNUSED"
        /\ target' = [target EXCEPT ![t] = id]
    /\ call' = [call EXCEPT ![t] = "create"]
    /\ UNCHANGED <<state, prio, base_prio, waiting, woken, g_current, g_ticks, deadline, due>>

\* ... and then publishes the slot, with a frame that starts at the entry point.
CreateStore(t) ==
    LET id == target[t] IN
    /\ Runs(t, "create")
    /\ state' = [state EXCEPT ![id] = "READY"]
    /\ prio' = [prio EXCEPT ![id] = TASK_PRIO_NORMAL]
    /\ base_prio' = [base_prio EXCEPT ![id] = TASK_PRIO_NORMAL]
    /\ waiting' = [waiting EXCEPT ![id] = 0]
    /\ woken' = [woken EXCEPT ![id] = FALSE]
    /\ call' = [call EXCEPT ![id] = "user", ![t] = "user"]
    /\ target' = [target EXCEPT ![t] = t]
    /\ UNCHANGED <<g_current, g_ticks, deadline, due>>

\* The clamp of task_set_priority; p is any int.
ClampPrio(p) == IF p < 0 THEN 0
                ELSE IF p >= TASK_PRIO_LEVELS THEN TASK_PRIO_LEVELS - 1 ELSE p

task_set_priority(t, id, p) ==
    /\ Runs(t, "user")
    /\ prio' = [prio EXCEPT ![id] = ClampPrio(p)]
    /\ base_prio' = [base_prio EXCEPT ![id] = ClampPrio(p)]
    /\ UNCHANGED <<state, waiting, woken, g_current, g_ticks, call, deadline, target, due>>

\* task_block, called inside mutex_lock's critical section: no yield.
task_block(t) == state' = [state EXCEPT ![t] = "BLOCKED"]

\* Mutant of task_unblock: the owner changes, the new one stays blocked.
task_unblock_never(id) == state' = state

\* task_unblock: only a BLOCKED task.
task_unblock(id) == state' = [state EXCEPT ![id] = IF @ = "BLOCKED" THEN "READY" ELSE @]

=============================================================================
