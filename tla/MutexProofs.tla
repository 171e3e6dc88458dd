---------------------------- MODULE MutexProofs -----------------------------
(***************************************************************************)
(* Proofs about Mutex.tla for every number of tasks, priority levels,      *)
(* ageing constants and clock width: the table and the mutex, then time in *)
(* the scheduler, a sleep lasts as long as was asked for, its sleeper is   *)
(* released the moment it is over, and no runnable task is passed over     *)
(* more than MaxWait times.                                                *)
(***************************************************************************)
EXTENDS Mutex, FiniteSetTheorems, TLAPS

\* task_create is not safe against itself (see OneTaskPerSlot), so the theorems
\* that need a slot to stay with its task assume that one task creates tasks.
SingleCreator == \A a, b \in Creators : a = b

USE SlotsAssumption, PrioAssumption, TickAssumption, MutexAssumption

-----------------------------------------------------------------------------
(* Facts about the constants.                                               *)

\* Slot ids are naturals, and neither BOOT nor MUTEX_FREE is one.
LEMMA SlotFacts ==
    /\ Slots \subseteq Nat /\ Workers \subseteq Slots
    /\ BOOT \notin Slots /\ MUTEX_FREE \notin Slots
    /\ g_idle_id \in Slots /\ g_idle_id \notin Workers
    /\ TASK_PRIO_NORMAL \in Prios /\ 0 \in Prios /\ 0 \in Ticks
  BY DEF Slots, Workers, BOOT, MUTEX_FREE, Prios, TASK_PRIO_NORMAL, Ticks

\* The clock and every deadline stay 32-bit words.
LEMMA TickArith == \A n \in Int : n % TICK_MOD \in Ticks
  BY DEF Ticks

\* task_set_priority clamps any int into the range.
LEMMA ClampInRange == \A p \in Int : ClampPrio(p) \in Prios
  BY DEF ClampPrio, Prios

-----------------------------------------------------------------------------
(* Type correctness.                                                        *)

LEMMA TypeInit == Init => TypeOK
  <1> USE SlotFacts
  <1> SUFFICES ASSUME Init PROVE TypeOK
    OBVIOUS
  <1>1. TaskTypeOK
    BY DEF Init, TaskInit, TaskTypeOK, TaskState, Call
  <1> QED
    BY <1>1 DEF Init, TypeOK

\* The level-3 entry keeps every type.
LEMMA TypeLevel3 ==
    ASSUME TypeOK, NEW tick \in BOOLEAN, NEW wakes \in SUBSET Slots, Level3(tick, wakes)
    PROVE  TaskTypeOK'
  <1> DEFINE now == IF tick THEN (g_ticks + 1) % TICK_MOD ELSE g_ticks
             st  == WakeStates(wakes, state)
  <1>1. now \in Ticks
    BY TickArith DEF TypeOK, TaskTypeOK, Ticks
  <1>2. st \in [Slots -> TaskState]
    BY DEF WakeStates, TypeOK, TaskTypeOK, TaskState
  <1>3. wake_sleepers(st, now) \in [Slots -> TaskState]
    BY <1>2 DEF wake_sleepers, TaskState
  <1>4. task_schedule(st, now)
    BY DEF Level3
  <1>5. /\ state' \in [Slots -> TaskState]
        /\ waiting' \in [Workers -> Nat]
        /\ g_current' \in Slots
    BY <1>3, <1>4, SlotFacts DEF task_schedule, Aged, TypeOK, TaskTypeOK
  <1>6. woken' \in [Slots -> BOOLEAN]
    BY DEF Level3, WakeFlag, TypeOK, TaskTypeOK
  <1>7. due' \in [Slots -> Int]
    BY DEF Level3, TypeOK, TaskTypeOK
  <1> QED
    BY <1>1, <1>5, <1>6, <1>7 DEF Level3, TypeOK, TaskTypeOK

\* Every call of a task keeps every type.
LEMMA TypeTaskStep ==
    ASSUME TypeOK, NEW t \in Workers, TaskStep(t)
    PROVE  TypeOK'
  <1> USE SlotFacts, TickArith, ClampInRange
  <1> USE DEF TypeOK, TaskTypeOK, TaskState, Call, mutexVars, TaskFrame
  <1>1. CASE LockGranted(t)
    BY <1>1 DEF LockGranted, ReturnLocked
  <1>2. CASE LockFree(t)
    BY <1>2 DEF LockFree, ReturnLocked
  <1>3. CASE LockRecursive(t)
    BY <1>3 DEF LockRecursive, ReturnLocked
  <1>4. CASE LockWait(t)
    BY <1>4 DEF LockWait, task_block
  <1>5. CASE mutex_try_lock(t)
    BY <1>5 DEF mutex_try_lock, ReturnLocked
  <1>6. CASE mutex_unlock(t)
    <2>1. held' \in [Slots -> Nat]
      BY <1>6 DEF mutex_unlock
    <2>2. CASE UnlockRefused(t)
      BY <1>6, <2>1, <2>2 DEF mutex_unlock, UnlockRefused
    <2>3. CASE UnlockInner(t)
      BY <1>6, <2>1, <2>3 DEF mutex_unlock, UnlockInner
    <2>4. CASE UnlockHandoff(t)
      BY <1>6, <2>1, <2>4 DEF mutex_unlock, UnlockHandoff, HandTo, task_unblock
    <2>5. CASE UnlockFree(t)
      BY <1>6, <2>1, <2>5 DEF mutex_unlock, UnlockFree
    <2> QED
      BY <1>6, <2>2, <2>3, <2>4, <2>5 DEF mutex_unlock
  <1>7. CASE SleepCall(t)
    <2>1. PICK n \in Naps : task_sleep(t, n) \/ task_sleep_armed(t, n)
      BY <1>7 DEF SleepCall
    <2>2. n \in Nat
      BY <2>1
    <2> DEFINE m == IF n > TASK_SLEEP_MAX THEN TASK_SLEEP_MAX ELSE n
    <2>3. m \in Int /\ g_ticks + m \in Int
      BY <2>2 DEF TASK_SLEEP_MAX, Ticks
    <2> HIDE DEF m
    <2>4. /\ deadline' = [deadline EXCEPT ![t] = (g_ticks + m) % TICK_MOD]
          /\ due' = [due EXCEPT ![t] = m]
          /\ call' = [call EXCEPT ![t] = "sleep"]
      BY <2>1 DEF task_sleep, task_sleep_armed, SleepUntil, m
    <2>5. deadline' \in [Slots -> Ticks] /\ due' \in [Slots -> Int] /\ call' \in [Slots -> Call]
      BY <2>3, <2>4
    <2> QED
      BY <1>7, <2>1, <2>5 DEF SleepCall, task_sleep, task_sleep_armed
  <1>8. CASE SleepPass(t)
    <2>1. CASE SleepWoken(t)
      BY <1>8, <2>1 DEF SleepPass, SleepWoken, LeaveSleep
    <2>2. CASE SleepTimeout(t)
      BY <1>8, <2>2 DEF SleepPass, SleepTimeout, LeaveSleep
    <2>3. CASE SleepPark(t)
      BY <1>8, <2>3 DEF SleepPass, SleepPark
    <2> QED
      BY <1>8, <2>1, <2>2, <2>3 DEF SleepPass
  <1>9. CASE ArmCall(t)
    BY <1>9 DEF ArmCall, task_arm_wake
  <1>10. CASE WakeCall(t)
    <2>1. CASE \E id \in Slots : task_wake(t, id)
      BY <1>10, <2>1 DEF WakeCall, task_wake, WakeFlag
    <2>2. CASE WakeStore(t)
      BY <1>10, <2>2 DEF WakeCall, WakeStore
    <2> QED
      BY <1>10, <2>1, <2>2 DEF WakeCall
  <1>11. CASE CreateCall(t)
    <2>1. CASE task_create(t) /\ UNCHANGED held
      BY <1>11, <2>1 DEF CreateCall, task_create
    <2>2. CASE CreateStore(t) /\ held' = [held EXCEPT ![target[t]] = 0]
      BY <1>11, <2>2 DEF CreateCall, CreateStore
    <2> QED
      BY <1>11, <2>1, <2>2 DEF CreateCall
  <1>12. CASE PriorityCall(t)
    BY <1>12 DEF PriorityCall, task_set_priority
  <1> QED
    BY <1>1, <1>2, <1>3, <1>4, <1>5, <1>6, <1>7, <1>8, <1>9, <1>10, <1>11, <1>12
    DEF TaskStep, mutex_lock

LEMMA TypeNext == TypeOK /\ [Next]_vars => TypeOK'
  <1> SUFFICES ASSUME TypeOK, [Next]_vars PROVE TypeOK'
    OBVIOUS
  <1>1. CASE \E tick \in BOOLEAN : Interrupt(tick)
    <2>1. PICK tick \in BOOLEAN, wakes \in SUBSET IrqTasks : Level3(tick, wakes) /\ UNCHANGED mutexVars
      BY <1>1 DEF Interrupt
    <2>2. wakes \in SUBSET Slots
      BY SlotFacts
    <2>3. TaskTypeOK'
      BY <2>1, <2>2, TypeLevel3
    <2> QED
      BY <2>1, <2>3 DEF TypeOK, mutexVars
  <1>2. CASE \E t \in Workers : TaskStep(t)
    BY <1>2, TypeTaskStep
  <1>3. CASE UNCHANGED vars
    BY <1>3 DEF vars, taskVars, mutexVars, TypeOK, TaskTypeOK
  <1> QED
    BY <1>1, <1>2, <1>3 DEF Next

\* Type correctness: the fields of the task table and of the mutex keep their
\* ranges in every execution.
THEOREM TypeCorrect == Spec => []TypeOK
  BY TypeInit, TypeNext, PTL DEF Spec

-----------------------------------------------------------------------------
(* The lock.                                                                *)

LEMMA LockInit == Init => LockInv
  BY TypeInit, SlotFacts
  DEF Init, TaskInit, LockInv, TableInv, OneTaskPerSlot, HolderOwns, LockAccounted,
      NoLostWakeup, UserCodeIsReady, NoWakeLost

\* Every call of a task preserves LockInv.
LEMMA LockTaskStep ==
    ASSUME SingleCreator, LockInv, NEW t \in Workers, TaskStep(t)
    PROVE  LockInv'
  <1>0. TypeOK'
    BY TypeTaskStep DEF LockInv
  <1> USE SlotFacts
  <1> USE DEF LockInv, TypeOK, TaskTypeOK, TableInv, OneTaskPerSlot, HolderOwns, LockAccounted,
              NoLostWakeup, UserCodeIsReady, NoWakeLost, SingleCreator, TaskState
  <1>1. CASE LockGranted(t)
    BY <1>0, <1>1 DEF LockGranted, InLock, ReturnLocked, TaskFrame, Runs
  <1>2. CASE LockFree(t)
    BY <1>0, <1>2 DEF LockFree, InLock, ReturnLocked, TaskFrame, Runs
  <1>3. CASE LockRecursive(t)
    BY <1>0, <1>3 DEF LockRecursive, InLock, ReturnLocked, TaskFrame, Runs
  <1>4. CASE LockWait(t)
    BY <1>0, <1>4 DEF LockWait, InLock, task_block, TaskFrame, Runs
  <1>5. CASE mutex_try_lock(t)
    BY <1>0, <1>5 DEF mutex_try_lock, ReturnLocked, TaskFrame, Runs
  <1>6. CASE mutex_unlock(t) /\ UnlockRefused(t)
    BY <1>0, <1>6 DEF mutex_unlock, UnlockRefused, TaskFrame, Runs
  <1>7. CASE mutex_unlock(t) /\ UnlockInner(t)
    BY <1>0, <1>7 DEF mutex_unlock, UnlockInner, TaskFrame, Runs
  <1>8. CASE mutex_unlock(t) /\ UnlockHandoff(t)
    <2>1. PICK next \in waiters : HandTo(next)
      BY <1>8 DEF UnlockHandoff
    <2>2. owner = t /\ granted = {} /\ call[t] = "user" /\ g_current = t
      BY <1>8 DEF mutex_unlock, UnlockHandoff, Runs
    <2>3. next # t /\ next \in Workers /\ call[next] = "lock" /\ held[next] = 0
      BY <2>1, <2>2 DEF Workers
    <2>4. state[next] \in {"READY", "BLOCKED"}
      BY <2>3
    <2>5. /\ granted' = {next} /\ owner' = next /\ depth' = 1
          /\ waiters' = waiters \ {next}
      BY <2>1, <2>2 DEF HandTo
    <2>6. \A u \in Slots : state'[u] = (IF u = next THEN "READY" ELSE state[u])
      BY <2>1, <2>3, <2>4 DEF HandTo, task_unblock
    <2>7. \A u \in Slots : held'[u] = (IF u = t /\ held[t] > 0 THEN held[t] - 1 ELSE held[u])
      BY <1>8 DEF mutex_unlock
    <2>8. UNCHANGED <<call, prio, base_prio, waiting, woken, g_current, g_ticks, deadline, target, due>>
      BY <1>8 DEF mutex_unlock, TaskFrame
    <2>9. depth = 1 /\ held[t] = 1
      BY <1>8, <2>2 DEF UnlockHandoff
    <2>10. LockAccounted' /\ HolderOwns'
      BY <2>2, <2>3, <2>5, <2>6, <2>7, <2>8, <2>9
    <2>11. NoLostWakeup'
      BY <2>2, <2>3, <2>5, <2>6, <2>8
    <2>12. UserCodeIsReady' /\ NoWakeLost'
      BY <2>3, <2>6, <2>8
    <2>13. \A u \in Slots : state'[target[u]] = "UNUSED" <=> state[target[u]] = "UNUSED"
      <3> SUFFICES ASSUME NEW u \in Slots
                   PROVE  state'[target[u]] = "UNUSED" <=> state[target[u]] = "UNUSED"
        OBVIOUS
      <3>1. target[u] \in Slots
        OBVIOUS
      <3> HIDE DEF LockInv
      <3> QED
        BY <2>4, <2>6, <3>1
    <2>14. OneTaskPerSlot'
      BY <2>8, <2>13
    <2>15. TableInv'
      BY <2>2, <2>3, <2>4, <2>5, <2>6, <2>7, <2>8, <2>13
    <2> QED
      BY <1>0, <2>10, <2>11, <2>12, <2>14, <2>15
  <1>9. CASE mutex_unlock(t) /\ UnlockFree(t)
    BY <1>0, <1>9 DEF mutex_unlock, UnlockFree, TaskFrame, Runs
  <1>10. CASE SleepCall(t)
    BY <1>0, <1>10 DEF SleepCall, task_sleep, task_sleep_armed, SleepUntil, Runs, mutexVars
  <1>11. CASE SleepWoken(t) /\ UNCHANGED mutexVars
    BY <1>0, <1>11 DEF SleepWoken, LeaveSleep, Runs, mutexVars
  <1>12. CASE SleepTimeout(t) /\ UNCHANGED mutexVars
    BY <1>0, <1>12 DEF SleepTimeout, LeaveSleep, Runs, mutexVars
  <1>13. CASE SleepPark(t) /\ UNCHANGED mutexVars
    BY <1>0, <1>13 DEF SleepPark, Runs, mutexVars
  <1>14. CASE ArmCall(t)
    BY <1>0, <1>14 DEF ArmCall, task_arm_wake, Runs, mutexVars
  <1>15. CASE WakeCall(t) /\ \E id \in Slots : task_wake(t, id)
    BY <1>0, <1>15 DEF WakeCall, task_wake, WakeFlag, Runs, mutexVars
  <1>16. CASE WakeCall(t) /\ WakeStore(t)
    <2>1. /\ g_current = t /\ call[t] = "wake" /\ target[t] \in Slots
          /\ state[target[t]] # "UNUSED"
          /\ \A u \in Slots : state'[u] = (IF u = target[t] THEN "READY" ELSE state[u])
          /\ \A u \in Slots : call'[u] = (IF u = t THEN "user" ELSE call[u])
          /\ \A u \in Slots : target'[u] = (IF u = t THEN t ELSE target[u])
          /\ UNCHANGED <<woken, g_current, g_ticks, deadline, due, mutexVars>>
      BY <1>16 DEF WakeCall, WakeStore, Runs
    <2>2. state[t] = "READY"
      BY <2>1
    <2>3. HolderOwns' /\ LockAccounted' /\ NoLostWakeup'
      BY <2>1 DEF mutexVars
    <2>4. UserCodeIsReady' /\ NoWakeLost'
      BY <2>1, <2>2
    <2>5. \A u \in Slots \ {t} : /\ target'[u] = target[u]
                                 /\ state'[target[u]] = "UNUSED" <=> state[target[u]] = "UNUSED"
      <3> SUFFICES ASSUME NEW u \in Slots \ {t}
                   PROVE  /\ target'[u] = target[u]
                          /\ state'[target[u]] = "UNUSED" <=> state[target[u]] = "UNUSED"
        OBVIOUS
      <3>1. target[u] \in Slots
        OBVIOUS
      <3> HIDE DEF LockInv
      <3> QED
        BY <2>1, <3>1
    <2>6. OneTaskPerSlot'
      BY <2>1, <2>5
    <2>7. TableInv'
      BY <2>1, <2>2, <2>5 DEF mutexVars
    <2> QED
      BY <1>0, <2>3, <2>4, <2>6, <2>7
  <1>17. CASE CreateCall(t) /\ task_create(t) /\ UNCHANGED held
    BY <1>0, <1>17 DEF CreateCall, task_create, Runs
  <1>18. CASE CreateCall(t) /\ CreateStore(t) /\ held' = [held EXCEPT ![target[t]] = 0]
    BY <1>0, <1>18 DEF CreateCall, CreateStore, Runs
  <1>19. CASE PriorityCall(t)
    BY <1>0, <1>19 DEF PriorityCall, task_set_priority, Runs, mutexVars
  <1> QED
    BY <1>1, <1>2, <1>3, <1>4, <1>5, <1>6, <1>7, <1>8, <1>9, <1>10, <1>11, <1>12, <1>13,
       <1>14, <1>15, <1>16, <1>17, <1>18, <1>19
    DEF TaskStep, mutex_lock, mutex_unlock, SleepPass, WakeCall, CreateCall

\* What an entry of the level-3 vector does to the states: it only ever promotes
\* a parked task, it leaves no sleeper whose deadline has been reached, and the
\* task it resumes is READY.
LEMMA Level3States ==
    ASSUME TypeOK, NEW tick \in BOOLEAN, NEW wakes \in SUBSET Slots, Level3(tick, wakes)
    PROVE  /\ \A t \in Slots : \/ state'[t] = state[t]
                               \/ state[t] \in {"BLOCKED", "SLEEPING"} /\ state'[t] = "READY"
           /\ \A t \in Slots : state'[t] = "SLEEPING" =>
                 t \notin wakes /\ ~Reached(g_ticks', deadline[t])
           /\ g_current' \in Slots /\ state'[g_current'] = "READY"
  <1> DEFINE now == IF tick THEN (g_ticks + 1) % TICK_MOD ELSE g_ticks
             st  == WakeStates(wakes, state)
             awake == wake_sleepers(st, now)
  <1>1. g_ticks' = now /\ state' = awake /\ g_current' \in Slots /\ Selected(g_current', awake)
    BY DEF Level3, task_schedule
  <1>2. \A t \in Slots : st[t] = (IF t \in wakes /\ state[t] \in {"BLOCKED", "SLEEPING"}
                                  THEN "READY" ELSE state[t])
    BY DEF WakeStates
  <1>3. \A t \in Slots : awake[t] = (IF st[t] = "SLEEPING" /\ Reached(now, deadline[t])
                                     THEN "READY" ELSE st[t])
    BY DEF wake_sleepers
  <1>4. awake[g_current'] = "READY"
    BY <1>1 DEF Selected
  <1> HIDE DEF now, st, awake
  <1> QED
    BY <1>1, <1>2, <1>3, <1>4

LEMMA LockLevel3 ==
    ASSUME LockInv, NEW tick \in BOOLEAN, Interrupt(tick)
    PROVE  LockInv'
  <1>1. PICK wakes \in SUBSET IrqTasks : Level3(tick, wakes) /\ UNCHANGED mutexVars
    BY DEF Interrupt
  <1>2. wakes \in SUBSET Slots
    BY SlotFacts
  <1>3. TypeOK'
    BY <1>1, <1>2, TypeLevel3 DEF LockInv, TypeOK, mutexVars
  <1>4. /\ \A t \in Slots : \/ state'[t] = state[t]
                            \/ state[t] \in {"BLOCKED", "SLEEPING"} /\ state'[t] = "READY"
        /\ \A t \in Slots : state'[t] = "SLEEPING" =>
              t \notin wakes /\ ~Reached(g_ticks', deadline[t])
        /\ g_current' \in Slots /\ state'[g_current'] = "READY"
    BY <1>1, <1>2, Level3States DEF LockInv
  <1>5. /\ UNCHANGED <<call, deadline, target, owner, depth, waiters, granted, held>>
        /\ \A t \in Slots : woken'[t] = (woken[t] \/ (t \in wakes /\ state[t] # "UNUSED"))
    BY <1>1 DEF Level3, WakeFlag, mutexVars
  <1>6. \A t \in Slots : target[t] \in Slots
    BY DEF LockInv, TypeOK, TaskTypeOK
  <1>7. HolderOwns' /\ OneTaskPerSlot'
    BY <1>4, <1>5, <1>6 DEF LockInv, HolderOwns, OneTaskPerSlot
  <1>8. LockAccounted'
    BY <1>4, <1>5, SlotFacts DEF LockInv, LockAccounted
  <1>9. NoLostWakeup'
    BY <1>4, <1>5 DEF LockInv, NoLostWakeup
  <1>10. UserCodeIsReady'
    BY <1>4, <1>5 DEF LockInv, UserCodeIsReady
  <1>11. NoWakeLost'
    BY <1>4, <1>5 DEF LockInv, NoWakeLost
  <1>12. TableInv'
    <2>1. \A t \in Slots : state'[t] = "UNUSED" <=> state[t] = "UNUSED"
      BY <1>4
    <2>2. /\ (\A t \in Slots : state[t] = "UNUSED" => call[t] = "user" /\ held[t] = 0)'
          /\ (\A t \in Slots : state[t] = "SLEEPING" => call[t] = "sleep")'
          /\ (\A t \in Slots : call[t] = "lock" => t \in waiters \cup granted)'
          /\ (\A t \in Slots : call[t] = "create" => t \in Creators)'
      BY <1>4, <1>5, <2>1 DEF LockInv, TableInv
    <2>3. (\A t \in Slots : call[t] = "wake" => state[target[t]] # "UNUSED")'
      BY <1>5, <1>6, <2>1 DEF LockInv, TableInv
    <2>4. (\A t \in Slots : g_current = t =>
             /\ state[t] # "UNUSED"
             /\ state[t] = "SLEEPING" => ~woken[t] /\ ~Reached(g_ticks, deadline[t]))'
      BY <1>4
    <2>5. (state[g_idle_id] = "READY" /\ call[g_idle_id] = "user")'
      BY <1>4, <1>5, SlotFacts DEF LockInv, TableInv
    <2> QED
      BY <2>2, <2>3, <2>4, <2>5, Zenon DEF TableInv
  <1> QED
    BY <1>3, <1>7, <1>8, <1>9, <1>10, <1>11, <1>12 DEF LockInv

LEMMA LockNext == ASSUME SingleCreator PROVE LockInv /\ [Next]_vars => LockInv'
  <1> SUFFICES ASSUME LockInv, [Next]_vars PROVE LockInv'
    OBVIOUS
  <1>1. CASE \E tick \in BOOLEAN : Interrupt(tick)
    BY <1>1, LockLevel3
  <1>2. CASE \E t \in Workers : TaskStep(t)
    BY <1>2, LockTaskStep
  <1>3. CASE UNCHANGED vars
    BY <1>3 DEF vars, taskVars, mutexVars, LockInv, TypeOK, TaskTypeOK, TableInv, OneTaskPerSlot,
                HolderOwns, LockAccounted, NoLostWakeup, UserCodeIsReady, NoWakeLost
  <1> QED
    BY <1>1, <1>2, <1>3 DEF Next

LEMMA LockInvariance == ASSUME SingleCreator PROVE Spec => []LockInv
  BY LockInit, LockNext, PTL DEF Spec

\* Mutual exclusion and depth: whoever mutex_lock let in owns the lock and the
\* recursion count is its own, for any number of tasks.
THEOREM MutualExclusion == ASSUME SingleCreator PROVE Spec => []HolderOwns
  BY LockInvariance, PTL DEF LockInv

\* The lock is never lost between an unlock and the task it was handed to.
THEOREM LockNeverLost == ASSUME SingleCreator PROVE Spec => []LockAccounted
  BY LockInvariance, PTL DEF LockInv

\* No lost wakeup in mutex_lock and mutex_unlock: a blocked task is on the wait
\* list of a lock that somebody else holds.
THEOREM BlockedIsListed == ASSUME SingleCreator PROVE Spec => []NoLostWakeup
  BY LockInvariance, PTL DEF LockInv

\* Nothing returns from task_sleep or mutex_lock while the table still says it
\* is parked.
THEOREM ParkedStaysInside == ASSUME SingleCreator PROVE Spec => []UserCodeIsReady
  BY LockInvariance, PTL DEF LockInv

\* No task sleeps on over a wake recorded for it (task_wake, task_sleep_armed).
THEOREM WakesAreKept == ASSUME SingleCreator PROVE Spec => []NoWakeLost
  BY LockInvariance, PTL DEF LockInv

-----------------------------------------------------------------------------
(* Sleeping across the wrap of the tick counter.                            *)

\* What both properties rest on: while a sleep lasts, the wrapped deadline is
\* the clock plus what is left of the sleep, and what is left stays within half
\* the range, above by task_sleep_armed's clamp and below by NobodyHalfRangeLate.
DueInv(t) ==
    /\ deadline[t] = (g_ticks + due[t]) % TICK_MOD
    /\ due[t] \in Int
    /\ due[t] < TICK_MOD \div 2 /\ due[t] > 0 - TICK_MOD \div 2
SleepInv ==
    /\ LockInv
    /\ \A t \in Slots : call[t] = "sleep" => DueInv(t)
    /\ PunctualWake

-----------------------------------------------------------------------------
(* Modular arithmetic.                                                      *)

\* x % m for an x at most one turn away.
LEMMA OneTurn ==
    ASSUME NEW m \in Nat, m > 0, NEW x \in Int
    PROVE  /\ 0 <= x /\ x < m => x % m = x
           /\ 0 - m <= x /\ x < 0 => x % m = x + m
           /\ m <= x /\ x < 2 * m => x % m = x - m
  OBVIOUS

\* TICK_MOD is even.
LEMMA Half == /\ TICK_MOD \div 2 \in Nat /\ TICK_MOD \div 2 > 0
              /\ TICK_MOD = 2 * (TICK_MOD \div 2)
  OBVIOUS

\* (int32_t)(now - deadline) >= 0 tells what is left of a sleep from what is
\* over, wherever the clock stands.
LEMMA SignedTest ==
    ASSUME NEW now \in Ticks, NEW d \in Int,
           d < TICK_MOD \div 2, d > 0 - TICK_MOD \div 2
    PROVE  Reached(now, (now + d) % TICK_MOD) <=> d <= 0
  <1> DEFINE h == TICK_MOD \div 2
             r == (now + d) % TICK_MOD
  <1>1. h \in Nat /\ h > 0 /\ TICK_MOD = 2 * h /\ now \in Int /\ 0 <= now /\ now < TICK_MOD
    BY Half DEF Ticks
  <1>2. r \in {now + d, now + d + TICK_MOD, now + d - TICK_MOD}
    <2>1. 0 - TICK_MOD <= now + d /\ now + d < 2 * TICK_MOD
      BY <1>1
    <2> QED
      BY <1>1, <2>1, OneTurn
  <1>3. now - r \in {0 - d, 0 - d - TICK_MOD, 0 - d + TICK_MOD}
    BY <1>1, <1>2
  <1>4. 0 <= r /\ r < TICK_MOD
    BY <1>1
  <1> HIDE DEF h, r
  <1>5. (now - r) % TICK_MOD = IF d <= 0 THEN 0 - d ELSE TICK_MOD - d
    <2>0. r \in Int /\ now - r \in Int /\ 0 - TICK_MOD < now - r /\ now - r < TICK_MOD
          /\ d < h /\ d > 0 - h
      BY <1>1, <1>2, <1>4 DEF h
    <2>1. CASE now - r = 0 - d
      BY <1>1, <2>0, <2>1, OneTurn
    <2>2. CASE now - r = 0 - d - TICK_MOD
      BY <1>1, <2>0, <2>2, OneTurn
    <2>3. CASE now - r = 0 - d + TICK_MOD
      BY <1>1, <2>0, <2>3, OneTurn
    <2> QED
      BY <1>3, <2>1, <2>2, <2>3
  <1> QED
    BY <1>1, <1>5 DEF Reached, h, r

\* One tick moves the clock and what is left of a sleep by one, in opposite
\* directions; the deadline they add up to does not move.
LEMMA TickShift ==
    ASSUME NEW now \in Ticks, NEW d \in Int, d < TICK_MOD, d > 0 - TICK_MOD \div 2
    PROVE  (((now + 1) % TICK_MOD) + (d - 1)) % TICK_MOD = (now + d) % TICK_MOD
  <1>1. CASE now + 1 < TICK_MOD
    <2>1. (now + 1) % TICK_MOD = now + 1
      BY <1>1, OneTurn DEF Ticks
    <2> QED
      BY <2>1 DEF Ticks
  <1>2. CASE now + 1 = TICK_MOD
    <2>1. (now + 1) % TICK_MOD = 0 /\ now = TICK_MOD - 1
      BY <1>2, OneTurn DEF Ticks
    <2>2. CASE d >= 1
      BY <2>1, <2>2, OneTurn
    <2>3. CASE d < 1
      BY <2>1, <2>3, OneTurn, Half
    <2> QED
      BY <2>2, <2>3
  <1> QED
    BY <1>1, <1>2 DEF Ticks

-----------------------------------------------------------------------------
(* The inductive invariant.                                                 *)

LEMMA SleepInit == Init => SleepInv
  BY LockInit DEF SleepInv, PunctualWake, LockInv, Init, TaskInit

\* What a task's call does to a sleep: it starts one, within the clamp, or it
\* leaves the sleeps of the table as they are.
LEMMA SleepTaskFacts ==
    ASSUME LockInv, NEW t \in Workers, TaskStep(t)
    PROVE  /\ g_ticks' = g_ticks
           /\ \A u \in Slots : call'[u] = "sleep" =>
                 \/ call[u] = "sleep" /\ deadline'[u] = deadline[u] /\ due'[u] = due[u]
                 \/ \E n \in Nat : /\ n <= TASK_SLEEP_MAX /\ due'[u] = n
                                   /\ deadline'[u] = (g_ticks + n) % TICK_MOD
           /\ \A u \in Slots : state'[u] = "SLEEPING" =>
                 /\ due'[u] = due[u]
                 /\ state[u] = "SLEEPING" \/ (call[u] = "sleep" /\ ~Reached(g_ticks, deadline[u]))
  <1> DEFINE Quiet == /\ g_ticks' = g_ticks /\ deadline' = deadline /\ due' = due
                      /\ \A u \in Slots : call'[u] = "sleep" => call[u] = "sleep"
                      /\ \A u \in Slots : state'[u] = "SLEEPING" => state[u] = "SLEEPING"
  <1>0. t \in Slots /\ TypeOK /\ (state[t] = "SLEEPING" => call[t] = "sleep")
        /\ (g_current = t /\ state[t] = "SLEEPING" => ~woken[t] /\ ~Reached(g_ticks, deadline[t]))
    BY SlotFacts DEF LockInv, TableInv
  <1>1. ASSUME mutex_lock(t) PROVE Quiet
    BY <1>0, <1>1 DEF mutex_lock, LockGranted, LockFree, LockRecursive, LockWait, ReturnLocked,
                      task_block, TaskFrame, TypeOK, TaskTypeOK
  <1>2. ASSUME mutex_try_lock(t) PROVE Quiet
    BY <1>0, <1>2 DEF mutex_try_lock, ReturnLocked, TaskFrame, TypeOK, TaskTypeOK
  <1>3. ASSUME mutex_unlock(t) PROVE Quiet
    BY <1>0, <1>3 DEF mutex_unlock, UnlockRefused, UnlockInner, UnlockHandoff, UnlockFree, HandTo,
                      task_unblock, TaskFrame, TypeOK, TaskTypeOK
  <1>4. CASE SleepCall(t)
    <2>1. PICK ticks \in Naps : task_sleep(t, ticks) \/ task_sleep_armed(t, ticks)
      BY <1>4 DEF SleepCall
    <2> DEFINE n == IF ticks > TASK_SLEEP_MAX THEN TASK_SLEEP_MAX ELSE ticks
    <2>2. n \in Nat /\ n <= TASK_SLEEP_MAX
      BY Half DEF TASK_SLEEP_MAX
    <2>3. /\ deadline' = [deadline EXCEPT ![t] = (g_ticks + n) % TICK_MOD]
          /\ due' = [due EXCEPT ![t] = n] /\ call' = [call EXCEPT ![t] = "sleep"]
          /\ state' = state /\ g_ticks' = g_ticks /\ call[t] = "user"
      BY <2>1 DEF task_sleep, task_sleep_armed, SleepUntil, Runs
    <2> HIDE DEF n
    <2>4. \A u \in Slots : u # t => /\ deadline'[u] = deadline[u] /\ due'[u] = due[u]
                                    /\ call'[u] = call[u]
      BY <1>0, <2>3 DEF TypeOK, TaskTypeOK
    <2>5. deadline'[t] = (g_ticks + n) % TICK_MOD /\ due'[t] = n
      BY <1>0, <2>3 DEF TypeOK, TaskTypeOK
    <2>6. state[t] # "SLEEPING"
      BY <1>0, <2>3
    <2> QED
      BY <2>2, <2>3, <2>4, <2>5, <2>6
  <1>5. CASE SleepPass(t)
    <2>1. /\ g_ticks' = g_ticks
          /\ \A u \in Slots : call'[u] = "sleep" =>
                call[u] = "sleep" /\ deadline'[u] = deadline[u] /\ due'[u] = due[u]
      BY <1>0, <1>5 DEF SleepPass, SleepWoken, SleepTimeout, SleepPark, LeaveSleep,
                        TypeOK, TaskTypeOK
    <2>2. ASSUME NEW u \in Slots, state'[u] = "SLEEPING"
          PROVE  /\ due'[u] = due[u]
                 /\ state[u] = "SLEEPING" \/ (call[u] = "sleep" /\ ~Reached(g_ticks, deadline[u]))
      BY <1>0, <1>5, <2>2 DEF SleepPass, SleepWoken, SleepTimeout, SleepPark, LeaveSleep, Runs,
                              TypeOK, TaskTypeOK
    <2> QED
      BY <2>1, <2>2
  <1>6. ASSUME ArmCall(t) PROVE Quiet
    BY <1>0, <1>6 DEF ArmCall, task_arm_wake
  <1>7. ASSUME WakeCall(t) PROVE Quiet
    BY ZenonT(60), <1>0, <1>7 DEF WakeCall, task_wake, WakeStore, TypeOK, TaskTypeOK
  <1>8. ASSUME CreateCall(t) PROVE Quiet
    BY <1>0, <1>8 DEF CreateCall, task_create, CreateStore, TypeOK, TaskTypeOK
  <1>9. ASSUME PriorityCall(t) PROVE Quiet
    BY <1>0, <1>9 DEF PriorityCall, task_set_priority
  <1>10. CASE Quiet
    BY <1>10
  <1> HIDE DEF Quiet
  <1> QED
    BY <1>1, <1>2, <1>3, <1>4, <1>5, <1>6, <1>7, <1>8, <1>9, <1>10 DEF TaskStep

LEMMA SleepTaskStep ==
    ASSUME SleepInv, LockInv', NEW t \in Workers, TaskStep(t)
    PROVE  SleepInv'
  <1>1. /\ g_ticks' = g_ticks
        /\ \A u \in Slots : call'[u] = "sleep" =>
              \/ call[u] = "sleep" /\ deadline'[u] = deadline[u] /\ due'[u] = due[u]
              \/ \E n \in Nat : /\ n <= TASK_SLEEP_MAX /\ due'[u] = n
                                /\ deadline'[u] = (g_ticks + n) % TICK_MOD
        /\ \A u \in Slots : state'[u] = "SLEEPING" =>
              /\ due'[u] = due[u]
              /\ state[u] = "SLEEPING" \/ (call[u] = "sleep" /\ ~Reached(g_ticks, deadline[u]))
    BY SleepTaskFacts DEF SleepInv
  <1>2. ASSUME NEW u \in Slots, call'[u] = "sleep" PROVE DueInv(u)'
    <2>1. CASE call[u] = "sleep" /\ deadline'[u] = deadline[u] /\ due'[u] = due[u]
      BY <1>1, <2>1 DEF SleepInv, DueInv
    <2>2. ASSUME NEW n \in Nat, n <= TASK_SLEEP_MAX, due'[u] = n,
                 deadline'[u] = (g_ticks + n) % TICK_MOD
          PROVE  DueInv(u)'
      BY <1>1, <2>2, Half DEF DueInv, TASK_SLEEP_MAX
    <2> QED
      BY <1>1, <1>2, <2>1, <2>2
  <1>3. ASSUME NEW u \in Slots, state'[u] = "SLEEPING" PROVE due'[u] > 0
    <2>1. CASE state[u] = "SLEEPING"
      BY <1>1, <1>3, <2>1 DEF SleepInv, PunctualWake
    <2>2. CASE call[u] = "sleep" /\ ~Reached(g_ticks, deadline[u])
      <3>1. DueInv(u) /\ g_ticks \in Ticks
        BY <2>2 DEF SleepInv, LockInv, TypeOK, TaskTypeOK
      <3>2. ~(due[u] <= 0)
        BY <2>2, <3>1, SignedTest DEF DueInv
      <3> QED
        BY <1>1, <1>3, <3>1, <3>2 DEF DueInv
    <2> QED
      BY <1>1, <1>3, <2>1, <2>2
  <1> QED
    BY <1>2, <1>3 DEF SleepInv, PunctualWake

\* The clock and what is left of every sleep move together.
LEMMA SleepLevel3 ==
    ASSUME SleepInv, LockInv', NEW tick \in BOOLEAN, Interrupt(tick)
    PROVE  SleepInv'
  <1>1. PICK wakes \in SUBSET IrqTasks : Level3(tick, wakes) /\ UNCHANGED mutexVars
    BY DEF Interrupt
  <1>2. wakes \in SUBSET Slots /\ TypeOK /\ g_ticks \in Ticks /\ g_ticks' \in Ticks
    BY SlotFacts DEF SleepInv, LockInv, TypeOK, TaskTypeOK
  <1>3. ASSUME NEW u \in Slots, call'[u] = "sleep" PROVE DueInv(u)'
    <2>1. DueInv(u) /\ call[u] = "sleep" /\ deadline' = deadline
      BY <1>1, <1>3 DEF Level3, SleepInv
    <2>2. CASE ~tick
      BY <1>1, <2>1, <2>2 DEF Level3, DueInv
    <2>3. CASE tick
      <3>1. /\ due'[u] = due[u] - 1 /\ due[u] > 1 - TICK_MOD \div 2
            /\ g_ticks' = (g_ticks + 1) % TICK_MOD
        BY <1>1, <2>1, <2>3 DEF Level3, NobodyHalfRangeLate
      <3>2. (g_ticks' + due'[u]) % TICK_MOD = (g_ticks + due[u]) % TICK_MOD
        BY <1>2, <2>1, <3>1, TickShift, Half DEF DueInv
      <3> QED
        BY <2>1, <3>1, <3>2, Half DEF DueInv
    <2> QED
      BY <2>2, <2>3
  <1>4. ASSUME NEW u \in Slots, state'[u] = "SLEEPING" PROVE due'[u] > 0
    <2>1. ~Reached(g_ticks', deadline'[u])
      BY <1>1, <1>2, <1>4, Level3States DEF Level3
    <2>2. call'[u] = "sleep"
      BY <1>4 DEF LockInv, TableInv
    <2>3. DueInv(u)'
      BY <1>3, <2>2
    <2>4. ~(due'[u] <= 0)
      BY <1>2, <2>1, <2>3, SignedTest DEF DueInv
    <2> QED
      BY <2>3, <2>4 DEF DueInv
  <1> QED
    BY <1>3, <1>4 DEF SleepInv, PunctualWake

LEMMA SleepNext == ASSUME SingleCreator PROVE SleepInv /\ [Next]_vars => SleepInv'
  <1> SUFFICES ASSUME SleepInv, [Next]_vars PROVE SleepInv'
    OBVIOUS
  <1>0. LockInv'
    BY LockNext DEF SleepInv
  <1>1. CASE \E tick \in BOOLEAN : Interrupt(tick)
    BY <1>0, <1>1, SleepLevel3
  <1>2. CASE \E t \in Workers : TaskStep(t)
    BY <1>0, <1>2, SleepTaskStep
  <1>3. CASE UNCHANGED vars
    BY <1>0, <1>3 DEF vars, taskVars, SleepInv, DueInv, PunctualWake
  <1> QED
    BY <1>1, <1>2, <1>3 DEF Next

LEMMA SleepInvariance == ASSUME SingleCreator PROVE Spec => []SleepInv
  BY SleepInit, SleepNext, PTL DEF Spec

\* A sleeper is never left in the table past its time, also when the clock wraps.
THEOREM SleepersArePunctual == ASSUME SingleCreator PROVE Spec => []PunctualWake
  BY SleepInvariance, PTL DEF SleepInv

\* A sleep nobody woke ends in the timeout branch of its own loop.
LEMMA OnlyTimeout ==
    ASSUME LockInv, NEW u \in Workers, TaskStep(u), NEW t \in Slots,
           call[t] = "sleep", call'[t] = "user", ~woken[t]
    PROVE  SleepTimeout(t)
  <1>0. u \in Slots /\ TypeOK /\ (call[u] = "create" => target[u] # t)
    BY SlotFacts DEF LockInv, TableInv, OneTaskPerSlot
  <1>1. CASE mutex_lock(u)
    BY <1>0, <1>1 DEF mutex_lock, LockGranted, LockFree, LockRecursive, LockWait, ReturnLocked,
                      InLock, Runs, TypeOK, TaskTypeOK
  <1>2. CASE mutex_try_lock(u)
    BY <1>0, <1>2 DEF mutex_try_lock, ReturnLocked, Runs, TypeOK, TaskTypeOK
  <1>3. CASE mutex_unlock(u)
    BY <1>3 DEF mutex_unlock
  <1>4. CASE SleepCall(u)
    BY <1>0, <1>4 DEF SleepCall, task_sleep, task_sleep_armed, SleepUntil, TypeOK, TaskTypeOK
  <1>5. CASE SleepPass(u)
    <2>1. CASE u = t
      BY <1>0, <1>5, <2>1 DEF SleepPass, SleepWoken, SleepPark
    <2>2. CASE u # t
      BY <1>0, <1>5, <2>2 DEF SleepPass, SleepWoken, SleepTimeout, SleepPark, LeaveSleep,
                              TypeOK, TaskTypeOK
    <2> QED
      BY <2>1, <2>2
  <1>6. CASE ArmCall(u)
    BY <1>6 DEF ArmCall, task_arm_wake
  <1>7. CASE WakeCall(u)
    BY <1>0, <1>7 DEF WakeCall, task_wake, WakeStore, Runs, TypeOK, TaskTypeOK
  <1>8. CASE CreateCall(u)
    BY <1>0, <1>8 DEF CreateCall, task_create, CreateStore, Runs, TypeOK, TaskTypeOK
  <1>9. CASE PriorityCall(u)
    BY <1>9 DEF PriorityCall, task_set_priority
  <1> QED
    BY <1>1, <1>2, <1>3, <1>4, <1>5, <1>6, <1>7, <1>8, <1>9 DEF TaskStep

\* task_sleep returns before its time only to a task that was woken.
THEOREM NoSleepIsShort == ASSUME SingleCreator PROVE Spec => NoEarlyReturn
  <1> DEFINE Early(t) == call[t] = "sleep" /\ call'[t] = "user" /\ ~woken[t] => due[t] <= 0
  <1>1. ASSUME SleepInv, [Next]_vars PROVE [\A t \in Slots : Early(t)]_vars
    <2> SUFFICES ASSUME Next, NEW t \in Slots, call[t] = "sleep", call'[t] = "user", ~woken[t]
                 PROVE  due[t] <= 0
      BY <1>1
    <2>1. Reached(g_ticks, deadline[t])
      <3>1. CASE \E tick \in BOOLEAN : Interrupt(tick)
        BY <3>1 DEF Interrupt, Level3
      <3>2. ASSUME NEW u \in Workers, TaskStep(u) PROVE SleepTimeout(t)
        <4>1. LockInv
          BY <1>1 DEF SleepInv
        <4> QED
          BY <3>2, <4>1, OnlyTimeout
      <3> QED
        BY <3>1, <3>2 DEF Next, SleepTimeout
    <2>2. DueInv(t) /\ g_ticks \in Ticks
      BY <1>1 DEF SleepInv, LockInv, TypeOK, TaskTypeOK
    <2> QED
      BY <2>1, <2>2, SignedTest DEF DueInv
  <1> QED
    BY <1>1, SleepInvariance, PTL DEF Spec, NoEarlyReturn

-----------------------------------------------------------------------------
(* Ageing.                                                                  *)

USE AgeAssumption

-----------------------------------------------------------------------------
\* LEVELS * AGE_TICKS entries buy LEVELS levels, and a level costs AGE_TICKS.
LEMMA CreditArith ==
    ASSUME NEW w \in Nat, NEW a \in Nat, a > 0, NEW l \in Nat
    PROVE  /\ w \div a \in Nat
           /\ w >= l * a => w \div a >= l
           /\ w \div a >= 1 => w >= a
  <1> DEFINE q == w \div a
             r == w % a
  <1>1. q \in Nat /\ r \in Nat /\ r < a /\ w = a * q + r
    BY SMT
  <1> HIDE DEF q, r
  <1>2. ASSUME w >= l * a PROVE q >= l
    <2>1. SUFFICES ASSUME q < l PROVE FALSE
      BY <1>1
    <2>2. a * (q + 1) <= a * l
      BY <1>1, <2>1
    <2>3. a * (q + 1) = a * q + a
      BY <1>1
    <2> QED
      BY <1>1, <1>2, <2>2, <2>3
  <1>3. ASSUME q >= 1 PROVE w >= a
    <2>1. a * q >= a
      BY <1>1, <1>3
    <2> QED
      BY <1>1, <2>1
  <1> QED
    BY <1>1, <1>2, <1>3 DEF q

\* Every worker has TASK_MAX - 2 others: idle and the task itself are left out.
LEMMA Others ==
    ASSUME NEW t \in Workers
    PROVE  IsFiniteSet(Workers \ {t}) /\ Cardinality(Workers \ {t}) = TASK_MAX - 2
  <1>1. 0 \in Int /\ TASK_MAX - 1 \in Int
    OBVIOUS
  <1>2. /\ IsFiniteSet(0 .. TASK_MAX - 1)
        /\ Cardinality(0 .. TASK_MAX - 1) = IF 0 > TASK_MAX - 1 THEN 0 ELSE TASK_MAX - 1 - 0 + 1
    BY <1>1, FS_Interval, Zenon
  <1>3. IsFiniteSet(Slots) /\ Cardinality(Slots) = TASK_MAX
    BY <1>2 DEF Slots
  <1>4. /\ IsFiniteSet(Workers)
        /\ Cardinality(Workers) = IF g_idle_id \in Slots THEN Cardinality(Slots) - 1
                                                          ELSE Cardinality(Slots)
    BY <1>3, FS_RemoveElement, Zenon DEF Workers
  <1>5. /\ IsFiniteSet(Workers \ {t})
        /\ Cardinality(Workers \ {t}) = IF t \in Workers THEN Cardinality(Workers) - 1
                                                         ELSE Cardinality(Workers)
    BY <1>4, FS_RemoveElement, Zenon
  <1> QED
    BY <1>3, <1>4, <1>5

\* RecentlyRun is a finite set, at most TASK_MAX - 2 strong.
LEMMA RecentIsFew ==
    ASSUME NEW t \in Workers, NEW k
    PROVE  /\ IsFiniteSet(RecentlyRun(t, k))
           /\ Cardinality(RecentlyRun(t, k)) \in Nat
           /\ Cardinality(RecentlyRun(t, k)) <= TASK_MAX - 2
  <1>1. RecentlyRun(t, k) \subseteq Workers \ {t}
    BY DEF RecentlyRun
  <1>2. /\ IsFiniteSet(RecentlyRun(t, k))
        /\ Cardinality(RecentlyRun(t, k)) <= Cardinality(Workers \ {t})
    BY <1>1, Others, FS_Subset
  <1> QED
    BY <1>2, Others, FS_CardinalityType

\* A set of other workers has a cardinality, and so have its subsets.
LEMMA GrownRecent ==
    ASSUME NEW t \in Workers, NEW S \in SUBSET (Workers \ {t}), NEW R \in SUBSET S
    PROVE  /\ Cardinality(S) \in Nat /\ IsFiniteSet(S)
           /\ Cardinality(R) <= Cardinality(S)
  <1>1. IsFiniteSet(S)
    BY Others, FS_Subset
  <1> QED
    BY <1>1, FS_Subset, FS_CardinalityType

LEMMA AgedOutNat == Aged_out \in Nat
  <1>1. \A l, a \in Nat : l * a \in Nat
    OBVIOUS
  <1> QED
    BY <1>1 DEF Aged_out

\* The count gives the bound.
LEMMA AgeBound ==
    ASSUME AgeInv, NEW t \in Workers
    PROVE  waiting[t] \in Nat /\ waiting[t] - Aged_out <= TASK_MAX - 2
  <1> DEFINE k == waiting[t] - Aged_out
  <1>1. waiting[t] \in Nat /\ k \in Int
    BY AgedOutNat DEF AgeInv, TypeOK, TaskTypeOK
  <1>2. k > 0 => Cardinality(RecentlyRun(t, k)) >= k
    BY DEF AgeInv
  <1> HIDE DEF k
  <1>3. Cardinality(RecentlyRun(t, k)) \in Nat /\ Cardinality(RecentlyRun(t, k)) <= TASK_MAX - 2
    BY RecentIsFew
  <1>4. k <= TASK_MAX - 2
    BY <1>1, <1>2, <1>3, SMT
  <1> QED
    BY <1>1, <1>4 DEF k

LEMMA AgeInit == Init => AgeInv
  <1> SUFFICES ASSUME Init PROVE AgeInv
    OBVIOUS
  <1>1. TypeOK
    BY TypeInit
  <1>2. \A t \in Workers : waiting[t] = 0
    BY DEF Init, TaskInit
  <1> QED
    BY <1>1, <1>2, AgedOutNat DEF AgeInv

-----------------------------------------------------------------------------
(* A call of a task.                                                        *)

\* A task only parks itself while it runs, and nothing but the birth of a task
\* touches `waiting'.
LEMMA AgeTaskFacts ==
    ASSUME AgeInv, NEW t \in Workers, TaskStep(t)
    PROVE  /\ g_current' = g_current
           /\ \A u \in Workers : waiting'[u] = waiting[u] \/ waiting'[u] = 0
           /\ \A u \in Workers : state'[u] = "READY" \/ state'[u] = state[u] \/ u = g_current
  <1> USE DEF AgeInv, TypeOK, TaskTypeOK, Runs, InLock
  <1>1. CASE mutex_lock(t)
    BY <1>1 DEF mutex_lock, LockGranted, LockFree, LockRecursive, LockWait, ReturnLocked,
                task_block, TaskFrame, Workers
  <1>2. CASE mutex_try_lock(t)
    BY <1>2 DEF mutex_try_lock, ReturnLocked, TaskFrame
  <1>3. CASE mutex_unlock(t)
    BY <1>3 DEF mutex_unlock, UnlockRefused, UnlockInner, UnlockHandoff, UnlockFree, HandTo,
                task_unblock, TaskFrame, Workers
  <1>4. CASE SleepCall(t)
    BY <1>4 DEF SleepCall, task_sleep, task_sleep_armed
  <1>5. CASE SleepPass(t)
    BY <1>5 DEF SleepPass, SleepWoken, SleepTimeout, SleepPark, LeaveSleep, Workers
  <1>6. CASE ArmCall(t)
    BY <1>6 DEF ArmCall, task_arm_wake
  <1>7. CASE WakeCall(t)
    BY <1>7 DEF WakeCall, task_wake, WakeStore, Workers
  <1>8. CASE CreateCall(t)
    BY <1>8 DEF CreateCall, task_create, CreateStore, Workers
  <1>9. CASE PriorityCall(t)
    BY <1>9 DEF PriorityCall, task_set_priority
  <1> QED
    BY <1>1, <1>2, <1>3, <1>4, <1>5, <1>6, <1>7, <1>8, <1>9 DEF TaskStep

LEMMA AgeTaskStep ==
    ASSUME AgeInv, NEW t \in Workers, TaskStep(t)
    PROVE  AgeInv'
  <1>1. /\ g_current' = g_current
        /\ \A u \in Workers : waiting'[u] = waiting[u] \/ waiting'[u] = 0
        /\ \A u \in Workers : state'[u] = "READY" \/ state'[u] = state[u] \/ u = g_current
    BY AgeTaskFacts
  <1>2. TypeOK'
    BY TypeTaskStep DEF AgeInv
  <1>3. \A u \in Workers : state'[u] # "READY" \/ g_current' = u => waiting'[u] = 0
    BY <1>1 DEF AgeInv
  <1>4. ASSUME NEW u \in Workers, waiting'[u] - Aged_out > 0
        PROVE  (Cardinality(RecentlyRun(u, waiting[u] - Aged_out)) >= waiting[u] - Aged_out)'
    <2> DEFINE k == waiting[u] - Aged_out
    <2>1. waiting'[u] = waiting[u] /\ k > 0
      BY <1>1, <1>4, AgedOutNat
    <2>2. Cardinality(RecentlyRun(u, k)) >= k
      BY <2>1 DEF AgeInv
    <2> DEFINE S == {v \in Workers \ {u} : waiting'[v] < k}
    <2>3. S = RecentlyRun(u, waiting[u] - Aged_out)'
      BY <2>1 DEF RecentlyRun
    <2>4. RecentlyRun(u, k) \subseteq S
      BY <1>1, <2>1, AgeBound, AgedOutNat DEF RecentlyRun
    <2>5. Cardinality(RecentlyRun(u, k)) <= Cardinality(S)
      BY <2>4, GrownRecent
    <2>6. k \in Int /\ Cardinality(RecentlyRun(u, k)) \in Nat /\ Cardinality(S) \in Nat
      BY AgeBound, AgedOutNat, RecentIsFew, GrownRecent
    <2> HIDE DEF S, k
    <2>7. Cardinality(S) >= k
      BY <2>2, <2>5, <2>6
    <2>8. (waiting[u] - Aged_out)' = k
      BY <2>1 DEF k
    <2> QED
      BY <2>3, <2>7, <2>8
  <1> QED
    BY <1>2, <1>3, <1>4 DEF AgeInv

-----------------------------------------------------------------------------
(* An entry of the scheduler.                                               *)

\* What the scheduler leaves behind, and that it unparks but never parks.
LEMMA AgeLevel3Facts ==
    ASSUME AgeInv, NEW tick \in BOOLEAN, Interrupt(tick)
    PROVE  /\ g_current' \in Slots /\ Selected(g_current', state')
           /\ waiting' = Aged(g_current', state')
           /\ \A u \in Slots : state'[u] # "READY" => state[u] # "READY"
           /\ TypeOK'
  <1>1. PICK wakes \in SUBSET IrqTasks : Level3(tick, wakes) /\ UNCHANGED mutexVars
    BY DEF Interrupt
  <1>2. wakes \in SUBSET Slots /\ TypeOK
    BY SlotFacts DEF AgeInv
  <1>3. TypeOK'
    BY <1>1, <1>2, TypeLevel3 DEF TypeOK, mutexVars
  <1>4. \A u \in Slots : state'[u] # "READY" => state[u] # "READY"
    BY <1>1, <1>2, Level3States
  <1> QED
    BY <1>1, <1>3, <1>4 DEF Level3, task_schedule

\* Whoever is preferred to a task that has waited LEVELS * AGE_TICKS entries has
\* itself waited AGE_TICKS: priority alone never reaches LEVELS.
LEMMA WinnerHasWaited ==
    ASSUME AgeInv, NEW st, NEW c \in Slots, Selected(c, st),
           NEW t \in Workers, t # c, st[t] = "READY", waiting[t] >= Aged_out
    PROVE  c \in Workers /\ waiting[c] >= TASK_AGE_TICKS
  <1>1. \A u \in Workers : /\ waiting[u] \in Nat /\ prio[u] \in Nat
                          /\ prio[u] < TASK_PRIO_LEVELS
    BY SlotFacts DEF AgeInv, TypeOK, TaskTypeOK, Prios
  <1>2. \A u \in Workers : waiting[u] \div TASK_AGE_TICKS \in Nat
    BY <1>1, CreditArith
  <1>3. \A u \in Workers : Effective(u) \in Nat /\ Credit(u) \in Nat
    BY <1>1, <1>2 DEF Effective, Credit
  <1>4. c \in Workers /\ Effective(c) >= Effective(t)
    BY <1>3 DEF Selected
  <1>5. waiting[t] \div TASK_AGE_TICKS >= TASK_PRIO_LEVELS
    BY <1>1, CreditArith DEF Aged_out
  <1>6. Effective(t) >= TASK_PRIO_LEVELS
    BY <1>1, <1>2, <1>5 DEF Effective, Credit
  <1>7. Credit(c) >= 1
    <2>1. Effective(c) >= TASK_PRIO_LEVELS
      BY <1>3, <1>4, <1>6
    <2> QED
      BY <1>1, <1>3, <1>4, <2>1 DEF Effective
  <1>8. waiting[c] \div TASK_AGE_TICKS >= 1
    BY <1>2, <1>4, <1>7 DEF Credit
  <1> QED
    BY <1>1, <1>4, <1>8, CreditArith

LEMMA AgeLevel3 ==
    ASSUME AgeInv, NEW tick \in BOOLEAN, Interrupt(tick)
    PROVE  AgeInv'
  <1> DEFINE c == g_current'
  <1>1. /\ c \in Slots /\ Selected(c, state')
        /\ waiting' = Aged(c, state')
        /\ \A u \in Slots : state'[u] # "READY" => state[u] # "READY"
        /\ TypeOK'
    BY AgeLevel3Facts
  <1> HIDE DEF c
  <1>2. \A u \in Workers : waiting'[u] = (IF state'[u] # "READY" THEN waiting[u]
                                          ELSE IF u = c THEN 0 ELSE waiting[u] + 1)
    BY <1>1 DEF Aged
  <1>3. \A u \in Workers : waiting[u] \in Nat /\ u \in Slots
    BY AgeBound, SlotFacts
  <1>4. \A u \in Workers : state'[u] # "READY" \/ u = c => waiting'[u] = 0
    BY <1>1, <1>2, <1>3 DEF AgeInv
  <1>5. ASSUME NEW t \in Workers, waiting'[t] - Aged_out > 0
        PROVE  (Cardinality(RecentlyRun(t, waiting[t] - Aged_out)) >= waiting[t] - Aged_out)'
    <2> DEFINE k == waiting[t] - Aged_out
               R == RecentlyRun(t, k)
               S == {v \in Workers \ {t} : waiting'[v] < k + 1}
    <2>1. state'[t] = "READY" /\ t # c /\ waiting'[t] = waiting[t] + 1 /\ waiting[t] >= Aged_out
      BY <1>2, <1>3, <1>4, <1>5, AgedOutNat
    <2>2. k \in Nat /\ k <= TASK_MAX - 2
      BY <1>3, <2>1, AgeBound, AgedOutNat
    <2>3. c \in Workers /\ waiting[c] >= TASK_AGE_TICKS
      BY <1>1, <2>1, WinnerHasWaited
    <2>4. S = RecentlyRun(t, waiting[t] - Aged_out)'
      BY <1>3, <2>1, AgedOutNat DEF RecentlyRun
    <2>5. Cardinality(R) >= k
      <3>1. CASE k > 0
        BY <3>1 DEF AgeInv
      <3>2. CASE k = 0
        BY <3>2, RecentIsFew
      <3> QED
        BY <2>2, <3>1, <3>2
    <2>6. c \notin R /\ IsFiniteSet(R) /\ Cardinality(R) \in Nat
      <3>1. ~(waiting[c] < k)
        BY <1>3, <2>2, <2>3
      <3>2. c \notin R
        BY <3>1, Zenon DEF RecentlyRun
      <3> QED
        BY <3>2, RecentIsFew
    <2>7. R \cup {c} \subseteq S
      <3>1. c \in S
        BY <1>4, <2>1, <2>2, <2>3
      <3>2. \A u \in Workers : waiting'[u] <= waiting[u] + 1
        BY <1>2, <1>3
      <3>3. \A u \in Workers : waiting[u] < k => waiting'[u] < k + 1
        <4>1. \A u \in Workers : waiting'[u] \in Nat
          BY <1>2, <1>3
        <4> QED
          BY <1>3, <2>2, <3>2, <4>1
      <3>4. R \subseteq S
        BY <3>3, Zenon DEF RecentlyRun
      <3> QED
        BY <3>1, <3>4
    <2> HIDE DEF k, R, S
    <2>8. Cardinality(R \cup {c}) = Cardinality(R) + 1
      BY <2>6, FS_AddElement
    <2>9. Cardinality(S) \in Nat /\ Cardinality(R \cup {c}) <= Cardinality(S)
      BY <2>7, GrownRecent DEF S
    <2>10. Cardinality(S) >= k + 1
      BY <2>2, <2>5, <2>6, <2>8, <2>9
    <2>11. (waiting[t] - Aged_out)' = k + 1
      BY <1>3, <2>1, AgedOutNat DEF k
    <2> QED
      BY <2>4, <2>10, <2>11
  <1> QED
    BY <1>1, <1>4, <1>5 DEF AgeInv, c

LEMMA AgeNext == AgeInv /\ [Next]_vars => AgeInv'
  <1> SUFFICES ASSUME AgeInv, [Next]_vars PROVE AgeInv'
    OBVIOUS
  <1>1. CASE \E tick \in BOOLEAN : Interrupt(tick)
    BY <1>1, AgeLevel3
  <1>2. CASE \E t \in Workers : TaskStep(t)
    BY <1>2, AgeTaskStep
  <1>3. CASE UNCHANGED vars
    BY <1>3 DEF vars, taskVars, mutexVars, AgeInv, TypeOK, TaskTypeOK, RecentlyRun
  <1> QED
    BY <1>1, <1>2, <1>3 DEF Next

\* No starvation, whatever the priorities and however they change: a runnable
\* task is passed over at most LEVELS * AGE_TICKS + TASK_MAX - 2 times in a row.
THEOREM WaitIsBounded == Spec => []WaitBound
  <1>1. AgeInv => WaitBound
    BY AgeBound, AgedOutNat DEF WaitBound, MaxWait, Aged_out
  <1> QED
    BY <1>1, AgeInit, AgeNext, PTL DEF Spec

=============================================================================
