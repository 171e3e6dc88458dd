---------------------------- MODULE RadioProofs -----------------------------
(***************************************************************************)
(* Proofs about the radio's components: the vendor call bridge, the objects the*)
(* drivers wait on, their clock and timers, the bring-up of the radios, the*)
(* receive ring, and the WiFi view with its jobs and records.              *)
(***************************************************************************)
EXTENDS Blob, Radio, OsiClock, OsiWait, Mac, WifiApp, Facts, SequenceTheorems, TLAPS

-----------------------------------------------------------------------------
(* The vendor call bridge.                                                  *)

BlobPcs == {"out", "none", "born", "lock", "blocked", "pin", "in", "mutex", "send", "delay",
            "release", "parked", "relock", "poll"}

\* Between giving up every level in _queue_recv and having them back.
Away == {"release", "parked", "relock"}

\* t has the mutex at the depth it believes it has, by its own doing.
Owns(t) == b_owner = t /\ b_depth = b_levels[t] /\ b_levels[t] > 0 /\ t \notin b_granted

BlobTyped ==
    /\ b_owner \in BlobTasks \cup {UNOWNED} /\ b_depth \in Nat
    /\ b_waiters \subseteq BlobTasks /\ b_granted \subseteq BlobTasks
    /\ b_saved \in [BlobTasks -> Nat] /\ g_pinned \in BlobTasks \cup {NOBODY}
    /\ b_pc \in [BlobTasks -> BlobPcs] /\ b_me \in [BlobTasks -> BlobTasks \cup {NOBODY}]
    /\ b_levels \in [BlobTasks -> Nat]

\* The lock as one task knows it: what it holds, except while it is away in
\* _queue_recv; that what it gave up there is remembered under its own name, or was
\* never given up because it took another's name; that a lock handed to it waits for
\* it, and that it queues only while it has nothing.
LockKnown(t) ==
    /\ b_levels[t] > 0 /\ b_pc[t] \notin Away => Owns(t)
    /\ b_pc[t] \in {"pin", "in", "poll"} \cup Away => b_levels[t] > 0
    /\ b_pc[t] \in Away =>
        \/ b_me[t] # t /\ Owns(t)
        \/ b_me[t] = t /\ b_pc[t] = "release" /\ Owns(t)
        \/ b_me[t] = t /\ b_owner # t /\ b_saved[t] = b_levels[t]
    /\ b_pc[t] = "poll" => b_me[t] = t
    /\ t \in b_granted => b_owner = t /\ b_depth = 1 /\ b_levels[t] = 0 /\ b_pc[t] = "lock"
    /\ b_owner = t => Owns(t) \/ t \in b_granted
    /\ t \in b_waiters => b_pc[t] = "blocked" /\ b_owner # t /\ b_levels[t] = 0

BlobInv == BlobTyped /\ \A t \in BlobTasks : LockKnown(t)

LEMMA BlobInitInv == BlobInit => BlobInv
  BY BlobAssumption DEF BlobInit, BlobInv, BlobTyped, LockKnown, BlobPcs, Away, BlobTasks,
     UNOWNED, NOBODY

LEMMA BlobInvImplies == BlobInv => VendorCodeIsExclusive
  BY DEF BlobInv, VendorCodeIsExclusive, LockKnown, Owns, Away

\* A task that has nothing to do with the lock goes for it, or comes into being.
LEMMA BlobMoves ==
    ASSUME BlobInv, NEW t \in BlobTasks, NEW pc \in {"born", "lock"},
           b_pc[t] \in {"out", "none", "born", "mutex", "send", "delay"}, Goes(t, pc),
           UNCHANGED <<lockVars, b_saved, g_pinned, b_me, b_levels>>
    PROVE  BlobInv'
  BY DEF Goes, lockVars, BlobInv, BlobTyped, LockKnown, BlobPcs, Away, Owns

\* A pass of mutex_lock's loop adds a level and ends it, or queues a task that has none.
LEMMA BlobLocks == ASSUME BlobInv, NEW t \in BlobTasks, blob_lock(t) PROVE BlobInv'
  <1> USE BlobAssumption DEF UNOWNED, NOBODY
  <1>1. BlobTasks \subseteq Nat /\ BlobTyped /\ LockKnown(t) /\ b_pc[t] = "lock"
        /\ UNCHANGED <<b_saved, g_pinned, b_me>>
    BY DEF BlobInv, blob_lock
  <1>2. ASSUME NEW u \in BlobTasks PROVE LockKnown(u)
    BY DEF BlobInv
  <1>a. \/ mutex_lock_pass(t, TRUE) /\ Goes(t, "pin") /\ b_levels' = [b_levels EXCEPT ![t] = @ + 1]
        \/ mutex_lock_pass(t, FALSE) /\ Goes(t, "blocked") /\ b_levels' = b_levels
    BY Zenon DEF blob_lock
  <1> DEFINE Served == /\ b_owner' = t /\ b_depth' = b_levels[t] + 1
                       /\ b_waiters' = b_waiters /\ b_granted' = {}
                       /\ b_levels' = [b_levels EXCEPT ![t] = @ + 1]
                       /\ b_pc' = [b_pc EXCEPT ![t] = "pin"]
             Queued == /\ b_owner # t /\ b_levels[t] = 0 /\ t \notin b_granted
                       /\ UNCHANGED <<b_owner, b_depth, b_granted, b_levels>>
                       /\ b_waiters' = b_waiters \cup {t}
                       /\ b_pc' = [b_pc EXCEPT ![t] = "blocked"]
  <1>3. ASSUME t \in b_granted PROVE Served
    <2>1. b_owner = t /\ b_depth = 1 /\ b_levels[t] = 0
      BY <1>1, <1>3 DEF LockKnown
    <2>a. ASSUME NEW u \in b_granted PROVE u = t
      <3>1. u \in BlobTasks /\ LockKnown(u)
        BY <1>1, <1>2 DEF BlobTyped
      <3> QED
        BY <2>1, <3>1 DEF LockKnown
    <2>2. /\ b_owner' = t /\ b_depth' = 1 /\ b_waiters' = b_waiters /\ b_granted' = b_granted \ {t}
          /\ b_levels' = [b_levels EXCEPT ![t] = @ + 1] /\ b_pc' = [b_pc EXCEPT ![t] = "pin"]
      BY <1>1, <1>a, <1>3, <2>1 DEF mutex_lock_pass, Lock, Goes
    <2>3. Served
      BY <1>3, <2>1, <2>a, <2>2
    <2> QED
      BY <2>3
  <1>4. ASSUME t \notin b_granted /\ b_owner = UNOWNED PROVE Served
    <2>1. b_levels[t] = 0 /\ b_granted = {}
      BY <1>1, <1>2, <1>4 DEF LockKnown, BlobTyped, Owns, Away
    <2>2. /\ b_owner' = t /\ b_depth' = 1 /\ b_waiters' = b_waiters /\ b_granted' = b_granted
          /\ b_levels' = [b_levels EXCEPT ![t] = @ + 1] /\ b_pc' = [b_pc EXCEPT ![t] = "pin"]
      BY <1>1, <1>a, <1>4, <2>1 DEF mutex_lock_pass, Lock, Goes
    <2>3. Served
      BY <2>1, <2>2
    <2> QED
      BY <2>3
  <1>5. ASSUME t \notin b_granted /\ b_owner = t PROVE Served
    <2>1. b_depth = b_levels[t] /\ b_granted = {}
      BY <1>1, <1>2, <1>5 DEF LockKnown, BlobTyped, Owns, Away
    <2>2. Served
      BY <1>1, <1>a, <1>5, <2>1 DEF mutex_lock_pass, Lock, Goes
    <2> QED
      BY <2>2
  <1>6. ASSUME t \notin b_granted /\ b_owner # UNOWNED /\ b_owner # t PROVE Queued
    <2>1. b_levels[t] = 0
      BY <1>1, <1>6 DEF LockKnown, BlobTyped, Owns, Away
    <2>2. Queued
      BY <1>1, <1>a, <1>6, <2>1 DEF mutex_lock_pass, Lock, Goes
    <2> QED
      BY <2>2
  <1>7. Served \/ Queued
    BY <1>3, <1>4, <1>5, <1>6
  <1>8. CASE Served
    <2>1. b_owner \in {t, UNOWNED}
      BY <1>1, <1>a, <1>8 DEF mutex_lock_pass, Lock, LockKnown
    <2>2. BlobTyped'
      BY <1>1, <1>8 DEF BlobTyped, BlobPcs
    <2>3. ASSUME NEW u \in BlobTasks PROVE LockKnown(u)'
      BY <1>1, <1>2, <1>8, <2>1 DEF BlobTyped, LockKnown, BlobPcs, Away, Owns
    <2> QED
      BY <2>2, <2>3 DEF BlobInv
  <1>9. CASE Queued
    BY <1>1, <1>2, <1>9 DEF BlobInv, BlobTyped, LockKnown, BlobPcs, Away, Owns
  <1> QED
    BY <1>7, <1>8, <1>9

LEMMA BlobPins == ASSUME BlobInv, NEW t \in BlobTasks, blob_pin(t) PROVE BlobInv'
  <1>1. ASSUME NEW u \in BlobTasks PROVE LockKnown(u)'
    BY DEF blob_pin, Goes, lockVars, BlobInv, BlobTyped, LockKnown, BlobPcs, Away, Owns
  <1> QED
    BY <1>1 DEF blob_pin, Goes, lockVars, BlobInv, BlobTyped, BlobPcs

\* One level is given back; with the last one the lock is free or the lowest waiting
\* task's.
LEMMA BlobUnlocks ==
    ASSUME BlobInv, NEW t \in BlobTasks, b_pc[t] = "in",
           NEW next \in {"out", "mutex", "send", "delay"},
           blob_unlock(t, next), UNCHANGED <<b_saved, b_me>>
    PROVE  BlobInv'
  <1> USE BlobAssumption DEF UNOWNED, NOBODY
  <1> DEFINE w == CHOOSE u \in b_waiters : \A v \in b_waiters : u <= v
  <1>1. /\ BlobTasks \subseteq Nat /\ LockKnown(t) /\ BlobTyped /\ Owns(t)
        /\ b_levels' = [b_levels EXCEPT ![t] = @ - 1] /\ g_pinned' = NOBODY
    BY DEF BlobInv, LockKnown, Away, blob_unlock
  <1>2. ASSUME NEW u \in BlobTasks PROVE LockKnown(u)
    BY DEF BlobInv
  <1>3. CASE b_depth > 1
    <2>1. /\ b_owner' = b_owner /\ b_depth' = b_depth - 1 /\ UNCHANGED <<b_waiters, b_granted>>
          /\ b_pc' = [b_pc EXCEPT ![t] = next]
      BY <1>1, <1>3 DEF blob_unlock, mutex_unlock_to, Lock, Owns, BlobTyped
    <2> QED
      BY <1>1, <1>2, <1>3, <2>1 DEF BlobInv, BlobTyped, LockKnown, BlobPcs, Away, Owns
  <1>4. CASE b_depth <= 1 /\ b_waiters # {}
    <2>1. w \in b_waiters
      BY <1>1, <1>4, LeastNat DEF BlobTyped
    <2>2. w \in BlobTasks /\ w # t /\ b_pc[w] = "blocked" /\ b_levels[w] = 0 /\ b_levels[t] = 1
      <3> HIDE DEF w
      <3>1. w \in BlobTasks /\ LockKnown(w)
        BY <1>2, <2>1, <1>1 DEF BlobTyped
      <3> QED
        BY <1>1, <1>4, <2>1, <3>1 DEF BlobTyped, LockKnown, Owns
    <2>3. /\ b_owner' = w /\ b_depth' = 1
          /\ b_waiters' = b_waiters \ {w} /\ b_granted' = b_granted \cup {w}
          /\ b_pc' = [b_pc EXCEPT ![t] = next, ![w] = "lock"]
      BY <1>1, <1>4, <2>2 DEF blob_unlock, mutex_unlock_to, Lock, Awake, BlobTyped, Owns
    <2> HIDE DEF w
    <2>4. BlobTyped'
      BY <1>1, <2>2, <2>3 DEF BlobTyped, BlobPcs
    <2>5. ASSUME NEW u \in BlobTasks PROVE LockKnown(u)'
      <3>1. CASE u = t
        BY <1>1, <1>2, <2>2, <2>3, <3>1 DEF BlobTyped, LockKnown, BlobPcs, Away, Owns
      <3>2. CASE u = w
        BY <1>1, <1>2, <2>2, <2>3, <3>2 DEF BlobTyped, LockKnown, BlobPcs, Away, Owns
      <3>3. CASE u # t /\ u # w
        BY <1>1, <1>2, <2>2, <2>3, <3>3 DEF BlobTyped, LockKnown, BlobPcs, Away, Owns
      <3> QED
        BY <3>1, <3>2, <3>3
    <2> QED
      BY <2>4, <2>5 DEF BlobInv
  <1>5. CASE b_depth <= 1 /\ b_waiters = {}
    <2>1. /\ b_owner' = UNOWNED /\ b_depth' = 0 /\ b_waiters' = {} /\ UNCHANGED b_granted
          /\ b_pc' = [b_pc EXCEPT ![t] = next] /\ b_levels[t] = 1
      BY <1>1, <1>5 DEF blob_unlock, mutex_unlock_to, Lock, Owns, BlobTyped
    <2> QED
      BY <1>1, <1>2, <1>5, <2>1 DEF BlobInv, BlobTyped, LockKnown, BlobPcs, Away, Owns
  <1> QED
    BY <1>1, <1>3, <1>4, <1>5 DEF BlobTyped

\* _queue_recv: the identity is taken from g_pinned, and may be another's.
LEMMA BlobReceives == ASSUME BlobInv, NEW t \in BlobTasks, osi_s_queue_recv(t) PROVE BlobInv'
  <1>1. ASSUME NEW u \in BlobTasks PROVE LockKnown(u)'
    BY DEF osi_s_queue_recv, Goes, lockVars, BlobInv, BlobTyped, LockKnown, BlobPcs, Away, Owns,
           NOBODY
  <1> QED
    BY <1>1 DEF osi_s_queue_recv, Goes, lockVars, BlobInv, BlobTyped, BlobPcs

\* Every level is given up under the owner's name, or nothing happens to the lock.
LEMMA BlobReleases == ASSUME BlobInv, NEW t \in BlobTasks, blob_unlock_all_w(t) PROVE BlobInv'
  <1> USE BlobAssumption DEF UNOWNED, NOBODY
  <1>1. BlobTyped /\ LockKnown(t) /\ b_pc[t] = "release" /\ g_pinned' = NOBODY
        /\ UNCHANGED <<b_me, b_levels>>
    BY DEF BlobInv, blob_unlock_all_w
  <1>2. ASSUME NEW u \in BlobTasks PROVE LockKnown(u)
    BY DEF BlobInv
  <1>3. CASE b_owner = b_me[t]
    <2>1. b_me[t] = t /\ Owns(t) /\ b_granted = {}
      BY <1>1, <1>2, <1>3 DEF LockKnown, Owns, Away, BlobTyped
    <2>2. /\ b_owner' = UNOWNED /\ b_depth' = 0 /\ b_waiters' = {} /\ b_granted' = {}
          /\ b_saved' = [b_saved EXCEPT ![t] = b_levels[t]]
          /\ b_pc' = Awake([b_pc EXCEPT ![t] = "parked"], b_waiters)
      BY <1>1, <1>3, <2>1 DEF blob_unlock_all_w, Lock, Owns
    <2>3. ASSUME NEW u \in BlobTasks, u # t
          PROVE  /\ b_pc'[u] = IF u \in b_waiters THEN "lock" ELSE b_pc[u]
                 /\ b_saved'[u] = b_saved[u]
      BY <1>1, <1>2, <2>2, <2>3 DEF Awake, BlobTyped, LockKnown
    <2>4. b_pc'[t] = "parked" /\ b_saved'[t] = b_levels[t]
      BY <1>1, <2>2 DEF Awake, BlobTyped
    <2>5. BlobTyped'
      BY <1>1, <2>2 DEF Awake, BlobTyped, BlobPcs
    <2>6. ASSUME NEW u \in BlobTasks PROVE LockKnown(u)'
      <3>1. CASE u = t
        BY <1>1, <2>1, <2>2, <2>4, <3>1 DEF LockKnown, Owns, Away, BlobTyped
      <3>2. CASE u # t
        <4>1. LockKnown(u) /\ b_me'[u] = b_me[u] /\ b_levels'[u] = b_levels[u] /\ b_owner # u
              /\ b_saved'[u] = b_saved[u] /\ u \notin b_granted'
          BY <1>1, <1>2, <2>1, <2>2, <2>3, <3>2 DEF Owns
        <4>2. CASE u \in b_waiters
          <5>1. b_levels[u] = 0 /\ b_pc'[u] = "lock"
            BY <2>3, <3>2, <4>1, <4>2 DEF LockKnown
          <5> QED
            BY <2>2, <4>1, <5>1 DEF LockKnown, Owns, Away
        <4>3. CASE u \notin b_waiters
          <5>a. b_pc'[u] = b_pc[u]
            BY <2>3, <3>2, <4>3
          <5>b. b_owner' # u
            <6>1. u \in Nat
              BY BlobAssumption
            <6> QED
              BY <2>2, <6>1
          <5>1. b_pc'[u] = b_pc[u] /\ b_owner' # u
            BY <5>a, <5>b
          <5>2. /\ b_levels[u] > 0 => b_pc[u] \in Away
                /\ b_pc[u] \in Away => b_me[u] = u /\ b_saved[u] = b_levels[u]
            BY <4>1 DEF LockKnown, Owns
          <5> QED
            BY <2>2, <4>1, <5>1, <5>2 DEF LockKnown
        <4> QED
          BY <4>2, <4>3
      <3> QED
        BY <3>1, <3>2
    <2> QED
      BY <2>5, <2>6 DEF BlobInv
  <1>4. CASE b_owner # b_me[t]
    <2>1. UNCHANGED <<lockVars, b_saved>> /\ b_pc' = [b_pc EXCEPT ![t] = "parked"]
      BY <1>4 DEF blob_unlock_all_w, Goes
    <2>2. ASSUME NEW u \in BlobTasks PROVE LockKnown(u)'
      BY <1>1, <1>2, <1>4, <2>1 DEF lockVars, BlobTyped, LockKnown, Away, Owns
    <2> QED
      BY <1>1, <2>1, <2>2 DEF lockVars, BlobInv, BlobTyped, BlobPcs
  <1> QED
    BY <1>3, <1>4

LEMMA BlobParks == ASSUME BlobInv, NEW t \in BlobTasks, osi_impl_park(t) PROVE BlobInv'
  BY DEF osi_impl_park, Goes, lockVars, BlobInv, BlobTyped, LockKnown, BlobPcs, Away, Owns

\* The lock comes back at the depth it was given up at.
LEMMA BlobRelocks == ASSUME BlobInv, NEW t \in BlobTasks, blob_relock_all_w(t) PROVE BlobInv'
  <1> USE BlobAssumption DEF UNOWNED, NOBODY
  <1>1. BlobTyped /\ LockKnown(t) /\ b_pc[t] = "relock" /\ UNCHANGED <<b_saved, g_pinned, b_me, b_levels>>
    BY DEF BlobInv, blob_relock_all_w
  <1>2. ASSUME NEW u \in BlobTasks PROVE LockKnown(u)
    BY DEF BlobInv
  <1>3. CASE b_owner = UNOWNED
    <2>1. b_me[t] = t /\ b_saved[t] = b_levels[t] /\ b_levels[t] > 0 /\ b_granted = {}
      BY <1>1, <1>2, <1>3 DEF LockKnown, Owns, Away, BlobTyped
    <2>2. /\ b_owner' = t /\ b_depth' = b_levels[t] /\ UNCHANGED <<b_waiters, b_granted>>
          /\ b_pc' = [b_pc EXCEPT ![t] = "poll"]
      BY <1>1, <1>3, <2>1 DEF blob_relock_all_w, Lock, Goes, RestoredDepth
    <2>3. BlobTyped'
      BY <1>1, <2>2 DEF BlobTyped, BlobPcs
    <2>4. ASSUME NEW u \in BlobTasks PROVE LockKnown(u)'
      BY <1>1, <1>2, <1>3, <2>1, <2>2 DEF LockKnown, Owns, Away, BlobTyped
    <2> QED
      BY <2>3, <2>4 DEF BlobInv
  <1>4. CASE b_owner # UNOWNED
    <2>1. b_owner # b_me[t]
      BY <1>1, <1>2, <1>4 DEF LockKnown, Owns, Away, BlobTyped
    <2>2. UNCHANGED lockVars /\ b_pc' = [b_pc EXCEPT ![t] = "release"]
      BY <1>4, <2>1 DEF blob_relock_all_w, Goes
    <2> QED
      BY <1>1, <1>2, <2>2 DEF lockVars, BlobInv, BlobTyped, LockKnown, BlobPcs, Away, Owns
  <1> QED
    BY <1>3, <1>4

LEMMA BlobPolls == ASSUME BlobInv, NEW t \in BlobTasks, osi_qpoll_w(t) PROVE BlobInv'
  BY DEF osi_qpoll_w, Goes, lockVars, BlobInv, BlobTyped, LockKnown, BlobPcs, Away, Owns

\* The steps that leave the lock and who holds it alone.
LEMMA BlobIdle ==
    ASSUME BlobInv, UNCHANGED <<lockVars, b_saved, g_pinned, b_pc, b_me, b_levels>>
    PROVE  BlobInv'
  BY DEF lockVars, BlobInv, BlobTyped, LockKnown, Owns

LEMMA BlobStep == BlobInv /\ [BlobNext]_blobVars => BlobInv'
  <1> SUFFICES ASSUME BlobInv, [BlobNext]_blobVars PROVE BlobInv'
    OBVIOUS
  <1>1. ASSUME NEW t \in BlobTasks,
               blob_call(t) \/ WaitEnds(t) \/ \E w \in BlobWorkers : blob_task_create(t, w)
        PROVE  BlobInv'
    BY <1>1, BlobMoves DEF blob_call, WaitEnds, blob_task_create, BlobTasks
  <1>2. ASSUME NEW w \in BlobWorkers, blob_task_entry(w) PROVE BlobInv'
    BY <1>2, BlobMoves DEF blob_task_entry, BlobTasks
  <1>3. ASSUME NEW t \in BlobTasks, blob_call_returns(t) \/ osi_s_task_delay(t) PROVE BlobInv'
    BY <1>3, BlobUnlocks DEF blob_call_returns, osi_s_task_delay
  <1>4. ASSUME NEW t \in BlobTasks, osi_s_mutex_lock(t) \/ osi_s_queue_send(t) PROVE BlobInv'
    BY <1>4, BlobUnlocks, BlobIdle DEF osi_s_mutex_lock, osi_s_queue_send
  <1>5. ASSUME osi_s_queue_send_from_isr \/ (\E t \in BlobTasks : osi_s_mutex_unlock(t))
               \/ (\E w \in BlobWorkers : blob_task_create_stores(w)) \/ UNCHANGED blobVars
        PROVE  BlobInv'
    BY <1>5, BlobIdle DEF osi_s_queue_send_from_isr, osi_s_mutex_unlock, blob_task_create_stores,
                          blobVars
  <1> QED
    BY <1>1, <1>2, <1>3, <1>4, <1>5, BlobLocks, BlobPins, BlobReceives, BlobReleases, BlobParks,
       BlobRelocks, BlobPolls DEF BlobNext

\* Vendor code runs one task at a time, at exactly the depth that task took the mutex
\* to, for every number of callers and driver tasks: through recursion, the hand-over to
\* the lowest waiting task, waits that give up one level and receives that give up all
\* (blobcall.c, blob_lock_w.c, wifi_osi_stubs.c).
THEOREM VendorCodeExclusive == BlobSpec => []VendorCodeIsExclusive
  <1>1. BlobInit => BlobInv
    BY BlobInitInv
  <1>2. BlobInv /\ [BlobNext]_blobVars => BlobInv'
    BY BlobStep
  <1>3. BlobInv => VendorCodeIsExclusive
    BY BlobInvImplies
  <1> QED
    BY <1>1, <1>2, <1>3, PTL DEF BlobSpec

-----------------------------------------------------------------------------
(* Bringing the radios up.                                                  *)

KernelCopy == {"phyinit", "phytrace", "bt"}

\* One starter at a time is on its way; from the loader on the image is in place for
\* whoever calibrates its copy; the PHY is calibrated between being attempted and being
\* counted, and never by a second.
RadioInv ==
    /\ DOMAIN r_pc = Starters /\ DOMAIN r_cmd = Starters
    /\ \A s, o \in Starters : r_pc[s] # "rest" /\ r_pc[o] # "rest" => s = o
    /\ h_cals \in {0, 1} /\ r_ready \in BOOLEAN /\ r_phy \in BOOLEAN
    /\ h_cals = 0 => r_copy = "none"
    /\ h_cals = 1 => r_phy
    /\ r_copy = "image" => r_bss = "calibrated" /\ r_ready
    /\ \A s \in Starters :
        /\ r_pc[s] \in {"copy", "loaded"} => ~r_ready
        /\ r_pc[s] = "arm" => r_cmd[s] = "phytrace"
        /\ r_pc[s] = "btphy" => r_cmd[s] = "bt"
        /\ r_pc[s] \in {"phy", "prime", "calibrate"} => r_cmd[s] \in KernelCopy \/ r_ready
        /\ r_pc[s] = "prime" => ~r_phy
        /\ r_pc[s] = "calibrate" => r_phy /\ h_cals = 0

LEMMA RadioInitInv == RadioInit => RadioInv
  <1> SUFFICES ASSUME RadioInit PROVE RadioInv
    OBVIOUS
  <1>1. \A s \in Starters : r_pc[s] = "rest"
    BY DEF RadioInit
  <1>2. /\ h_cals = 0 /\ r_copy = "none" /\ DOMAIN r_pc = Starters /\ DOMAIN r_cmd = Starters
        /\ h_cals \in {0, 1} /\ h_cals # 1 /\ r_copy # "image"
    BY DEF RadioInit
  <1>3. r_ready \in BOOLEAN /\ r_phy \in BOOLEAN
    BY Zenon DEF RadioInit
  <1> QED
    BY <1>1, <1>2, <1>3 DEF RadioInv

\* Where a step goes that neither loads nor calibrates.
Harmless == {"rest", "btwait", "btphied", "map", "load", "flags", "init", "wpa", "start", "config",
             "assoc", "beacons", "sweep", "data", "disarm", "free"}

\* A starter moves on, or begins while nobody else is at work.
LEMMA RadioMoves ==
    ASSUME RadioInv, NEW s \in Starters, NEW from, NEW to, Steps(s, from, to),
           r_cmd' = r_cmd, UNCHANGED <<blobVs2, phyVs>>, from # "rest",
           \/ to \in Harmless
           \/ to = "copy" /\ ~r_ready
           \/ to = "phy" /\ (r_cmd[s] \in KernelCopy \/ r_ready)
           \/ to = "prime" /\ ~r_phy /\ (r_cmd[s] \in KernelCopy \/ r_ready)
    PROVE  RadioInv'
  BY DEF RadioInv, Steps, blobVs2, phyVs, Harmless

LEMMA RadioBegins ==
    ASSUME RadioInv, TakeTurns, NEW s \in Starters, NEW c \in Commands(s), Begins(s, c)
    PROVE  RadioInv'
  <1> DEFINE to == CASE c = "bt" -> "btphy" [] c = "phyinit" -> "phy"
                     [] c = "phytrace" -> "arm" [] OTHER -> "map"
  <1>1. /\ \A o \in Starters : r_pc[o] = "rest"
        /\ r_pc' = [r_pc EXCEPT ![s] = to] /\ r_cmd' = [r_cmd EXCEPT ![s] = c]
        /\ UNCHANGED <<r_ready, r_bss, r_phy, r_copy, h_cals>>
    BY DEF Begins, Steps, blobVs2, phyVs
  <1>2. \/ to = "btphy" /\ c = "bt"
        \/ to = "phy" /\ c = "phyinit"
        \/ to = "arm" /\ c = "phytrace"
        \/ to = "map"
    <2>1. CASE c \in {"bt", "phyinit", "phytrace"}
      BY <2>1
    <2>2. CASE c \notin {"bt", "phyinit", "phytrace"}
      <3>1. c # "bt" /\ c # "phyinit" /\ c # "phytrace"
        BY <2>2
      <3>2. to = "map"
        BY <3>1
      <3> QED
        BY <3>2
    <2> QED
      BY <2>1, <2>2
  <1> HIDE DEF to
  <1> QED
    BY <1>1, <1>2 DEF RadioInv, KernelCopy

LEMMA RadioLoads ==
    ASSUME RadioInv, NEW s \in Starters,
           blob_map(s) \/ blob_init(s) \/ blob_init_copies(s) \/ blob_init_ends(s)
    PROVE  RadioInv'
  <1>1. CASE blob_map(s)
    BY <1>1, RadioMoves DEF blob_map, Harmless
  <1>2. CASE blob_init(s)
    BY <1>2, RadioMoves DEF blob_init, Harmless
  <1>3. CASE blob_init_copies(s)
    BY <1>3 DEF blob_init_copies, Steps, phyVs, RadioInv
  <1>4. CASE blob_init_ends(s)
    BY <1>4 DEF blob_init_ends, Steps, phyVs, RadioInv
  <1> QED
    BY <1>1, <1>2, <1>3, <1>4

LEMMA AfterPhyIsHarmless == ASSUME NEW s PROVE AfterPhy(s) \in Harmless
  BY DEF AfterPhy, Harmless

LEMMA RadioCalibrates ==
    ASSUME RadioInv, NEW s \in Starters,
           phyinit_run_at(s) \/ phyinit_attempts(s) \/ register_chipv7_phy(s)
    PROVE  RadioInv'
  <1>1. CASE phyinit_run_at(s)
    <2>1. r_cmd[s] \in KernelCopy \/ r_ready
      BY <1>1 DEF phyinit_run_at, Steps, RadioInv
    <2> QED
      BY <1>1, <2>1, RadioMoves, AfterPhyIsHarmless DEF phyinit_run_at
  <1>2. CASE phyinit_attempts(s)
    BY <1>2 DEF phyinit_attempts, Steps, blobVs2, RadioInv
  <1>3. CASE register_chipv7_phy(s)
    <2> DEFINE copy == IF r_cmd[s] \in KernelCopy THEN "kernel" ELSE "image"
    <2>1. /\ r_pc[s] = "calibrate" /\ r_pc' = [r_pc EXCEPT ![s] = AfterPhy(s)]
          /\ h_cals' = h_cals + 1 /\ r_copy' = copy
          /\ r_bss' = (IF copy = "image" THEN "calibrated" ELSE r_bss)
          /\ UNCHANGED <<r_cmd, r_ready, r_phy>>
      BY <1>3 DEF register_chipv7_phy, Steps, KernelCopy
    <2>2. h_cals = 0 /\ r_phy /\ (copy = "image" => r_ready) /\ h_cals' = 1
      BY <2>1 DEF RadioInv
    <2>3. ASSUME NEW o \in Starters, o # s PROVE r_pc[o] = "rest" /\ r_pc'[o] = "rest"
      BY <2>1, <2>3 DEF RadioInv
    <2>4. r_pc'[s] \in Harmless
      BY <2>1, AfterPhyIsHarmless DEF RadioInv
    <2> HIDE DEF copy
    <2> QED
      BY <2>1, <2>2, <2>3, <2>4 DEF RadioInv, Harmless, copy
  <1> QED
    BY <1>1, <1>2, <1>3

\* The driver, Bluetooth and the other core move on from where the PHY left them.
LEMMA RadioRest ==
    ASSUME RadioInv, NEW s \in Starters,
           \/ wifi_start_enable(s) \/ wifi_bringup(s) \/ wpa_register(s) \/ esp_wifi_start(s)
           \/ wifi_configures(s) \/ wifi_tx_beacons(s) \/ wifi_scan_sweep(s)
           \/ wifi_try_connect(s) \/ wifi_data_path_start(s)
           \/ bt_init(s) \/ bt_init_boots(s) \/ bt_init_waits(s)
           \/ appcpu_arm(s) \/ appcpu_disarm(s)
    PROVE  RadioInv'
  <1>1. /\ UNCHANGED <<blobVs2, phyVs>> /\ r_cmd' = r_cmd
        /\ \E from \in {"flags", "init", "wpa", "start", "config", "beacons", "sweep", "assoc",
                        "data", "btphy", "btphied", "btwait", "arm", "disarm", "free"},
              to \in Harmless \cup {"phy"} :
             Steps(s, from, to) /\ (to = "phy" => from \in {"btphy", "arm"})
    <2> USE DEF Harmless
    <2>1. CASE wifi_start_enable(s)
      BY <2>1 DEF wifi_start_enable
    <2>2. CASE wifi_bringup(s)
      BY <2>2 DEF wifi_bringup
    <2>3. CASE wpa_register(s) \/ wifi_configures(s) \/ wifi_tx_beacons(s) \/ wifi_scan_sweep(s)
      BY <2>3 DEF wpa_register, wifi_configures, wifi_tx_beacons, wifi_scan_sweep
    <2>4. CASE esp_wifi_start(s)
      BY <2>4 DEF esp_wifi_start
    <2>5. CASE wifi_try_connect(s)
      BY <2>5 DEF wifi_try_connect
    <2>6. CASE wifi_data_path_start(s)
      BY <2>6 DEF wifi_data_path_start
    <2>7. CASE bt_init(s)
      BY <2>7 DEF bt_init
    <2>8. CASE bt_init_boots(s)
      BY <2>8 DEF bt_init_boots
    <2>9. CASE bt_init_waits(s)
      BY <2>9 DEF bt_init_waits
    <2>10. CASE appcpu_arm(s)
      BY <2>10 DEF appcpu_arm
    <2>11. CASE appcpu_disarm(s)
      BY <2>11 DEF appcpu_disarm
    <2> QED
      BY <2>1, <2>2, <2>3, <2>4, <2>5, <2>6, <2>7, <2>8, <2>9, <2>10, <2>11
  <1>2. r_pc[s] \in {"btphy", "arm"} => r_cmd[s] \in KernelCopy
    BY DEF RadioInv, KernelCopy
  <1> QED
    BY <1>1, <1>2, RadioMoves DEF Steps

LEMMA RadioStep == ASSUME TakeTurns PROVE RadioInv /\ [RadioNext]_radioVars => RadioInv'
  <1> SUFFICES ASSUME RadioInv, [RadioNext]_radioVars PROVE RadioInv'
    OBVIOUS
  <1>1. ASSUME NEW s \in Starters, StarterSteps(s) PROVE RadioInv'
    BY <1>1, RadioBegins, RadioLoads, RadioCalibrates, RadioRest DEF StarterSteps
  <1>2. ASSUME (\E b \in r_boots : bt_boot_task(b)) \/ appcpu_main \/ UNCHANGED radioVars
        PROVE  RadioInv'
    <2>1. UNCHANGED <<r_pc, r_cmd, blobVs2, phyVs>>
      BY <1>2 DEF bt_boot_task, appcpu_main, radioVars
    <2> QED
      BY <2>1 DEF RadioInv, blobVs2, phyVs
  <1> QED
    BY <1>1, <1>2 DEF RadioNext

\* While the contexts that start the radio take turns, the PHY is calibrated at most once
\* per boot and a later load never wipes what it left in the image's memory, over every
\* sequence of the shell's and the view's commands (phyinit.c, blob.c). Without turns the
\* guard and the mark are two steps, and both contexts pass it.
THEOREM PhyCalibratedOnce == ASSUME TakeTurns PROVE RadioSpec => []CalibratedOnce
  <1>1. RadioInit => RadioInv
    BY RadioInitInv
  <1>2. RadioInv /\ [RadioNext]_radioVars => RadioInv'
    BY RadioStep
  <1>3. RadioInv => CalibratedOnce
    BY DEF RadioInv, CalibratedOnce
  <1> QED
    BY <1>1, <1>2, <1>3, PTL DEF RadioSpec

-----------------------------------------------------------------------------
(* The driver's clock.                                                      *)

USE OsiClockAssumption

\* The latest the clock's one reader may have sampled: its sample, or now.
Seen(t, r) == IF r = -1 THEN t ELSE r

\* The reading given last is within what the pair in force allows by then.
Paired(t, r, have, tick, cc, last) ==
    /\ t \in Nat /\ r \in Int /\ r >= -1 /\ r <= t /\ tick \in Nat /\ cc \in Nat /\ last \in Nat
    /\ tick <= t \div US_PER_TICK
    /\ have = FALSE => last = 0
    /\ have = TRUE => /\ cc <= Seen(t, r)
                      /\ last <= tick * US_PER_TICK + Clamped(Seen(t, r) - cc)

TimeInv ==
    /\ w_have \in BOOLEAN /\ h_back = FALSE /\ w_read \in [ClockReaders -> Int]
    /\ Paired(w_time, w_read["task"], w_have, w_tick, w_cc, h_last)

\* The clamp keeps the order of what is not negative.
LEMMA ClampedOrder ==
    ASSUME NEW a \in Int, NEW b \in Int, 0 <= a, a <= b
    PROVE  /\ Clamped(a) \in Nat /\ Clamped(b) \in Nat /\ Clamped(a) <= Clamped(b)
           /\ Clamped(a) <= US_PER_TICK - 1 /\ Clamped(0) = 0
  BY DEF Clamped

LEMMA TicksOrder ==
    ASSUME NEW m \in Nat, m > 0, NEW x \in Nat
    PROVE  x \div m \in Nat /\ x \div m <= (x + 1) \div m
  <1> DEFINE p == x \div m
             q == (x + 1) \div m
  <1>1. /\ p \in Int /\ q \in Int /\ x % m \in Int /\ (x + 1) % m \in Int
        /\ 0 <= x % m /\ x % m < m /\ 0 <= (x + 1) % m /\ (x + 1) % m < m
    BY DivModType
  <1>2. x = m * p + (x % m) /\ x + 1 = m * q + ((x + 1) % m)
    BY DivMod
  <1> DEFINE r == x % m
             s == (x + 1) % m
  <1> HIDE DEF p, q, r, s
  <1>3. p >= 0
    <2>1. SUFFICES ASSUME p <= -1 PROVE FALSE
      BY <1>1
    <2>2. m * p <= m * (0 - 1)
      BY <2>1, <1>1
    <2> QED
      BY <2>2, <1>1, <1>2 DEF r
  <1>4. p <= q
    <2>1. SUFFICES ASSUME q <= p - 1 PROVE FALSE
      BY <1>1
    <2>2. m * q <= m * (p - 1) /\ m * (p - 1) = m * p - m
      BY <2>1, <1>1
    <2> QED
      BY <2>2, <1>1, <1>2 DEF r, s
  <1> QED
    BY <1>1, <1>3, <1>4 DEF p, q

LEMMA PairedPasses ==
    ASSUME NEW t, NEW r, NEW have, NEW tick, NEW cc, NEW last, Paired(t, r, have, tick, cc, last)
    PROVE  Paired(t + 1, r, have, tick, cc, last)
  <1>1. t \in Nat /\ r \in Int /\ tick \in Nat /\ cc \in Nat /\ last \in Nat
    BY DEF Paired
  <1>2. t \div US_PER_TICK \in Nat /\ t \div US_PER_TICK <= (t + 1) \div US_PER_TICK
        /\ (t + 1) \div US_PER_TICK \in Nat
    BY <1>1, TicksOrder
  <1>3. Seen(t, r) \in Int /\ Seen(t, r) <= Seen(t + 1, r) /\ Seen(t + 1, r) \in Int
    BY <1>1 DEF Seen
  <1>4. ASSUME have = TRUE
        PROVE  cc <= Seen(t + 1, r) /\ last <= tick * US_PER_TICK + Clamped(Seen(t + 1, r) - cc)
    <2>1. cc <= Seen(t, r) /\ last <= tick * US_PER_TICK + Clamped(Seen(t, r) - cc)
      BY <1>4 DEF Paired
    <2>2. /\ Clamped(Seen(t, r) - cc) <= Clamped(Seen(t + 1, r) - cc)
          /\ Clamped(Seen(t, r) - cc) \in Nat /\ Clamped(Seen(t + 1, r) - cc) \in Nat
      BY <1>1, <1>3, <2>1, ClampedOrder
    <2>3. tick * US_PER_TICK \in Nat
      BY <1>1
    <2> QED
      BY <1>1, <1>3, <2>1, <2>2, <2>3
  <1>5. tick <= (t + 1) \div US_PER_TICK
    <2>1. tick <= t \div US_PER_TICK
      BY DEF Paired
    <2> QED
      BY <1>1, <1>2, <2>1
  <1>6. t + 1 \in Nat /\ r >= -1 /\ r <= t + 1 /\ (have = FALSE => last = 0)
    BY <1>1 DEF Paired
  <1> QED
    BY <1>1, <1>4, <1>5, <1>6 DEF Paired

LEMMA PairedSamples ==
    ASSUME NEW t, NEW have, NEW tick, NEW cc, NEW last, Paired(t, -1, have, tick, cc, last)
    PROVE  Paired(t, t, have, tick, cc, last)
  <1>1. t \in Nat
    BY DEF Paired
  <1>2. Seen(t, -1) = t /\ Seen(t, t) = t
    BY <1>1 DEF Seen
  <1> QED
    BY <1>1, <1>2 DEF Paired

\* What a reading sets the pair to and returns.
FromOf(t, r, have, tick, cc) == IF have = FALSE \/ t \div US_PER_TICK # tick THEN r ELSE cc
UsOf(t, r, have, tick, cc) ==
    (t \div US_PER_TICK) * US_PER_TICK + Clamped(r - FromOf(t, r, have, tick, cc))

\* A reading is never below the last.
LEMMA PairedReads ==
    ASSUME NEW t, NEW r, NEW have, NEW tick, NEW cc, NEW last, have = TRUE \/ have = FALSE,
           Paired(t, r, have, tick, cc, last), r # -1
    PROVE  /\ UsOf(t, r, have, tick, cc) >= last
           /\ Paired(t, -1, TRUE, t \div US_PER_TICK, FromOf(t, r, have, tick, cc),
                     UsOf(t, r, have, tick, cc))
  <1> DEFINE now == t \div US_PER_TICK
             from == FromOf(t, r, have, tick, cc)
             us == UsOf(t, r, have, tick, cc)
  <1>0. /\ now = t \div US_PER_TICK /\ us = now * US_PER_TICK + Clamped(r - from)
        /\ from = (IF have = FALSE \/ now # tick THEN r ELSE cc)
    BY DEF FromOf, UsOf
  <1> HIDE DEF now, from, us
  <1> SUFFICES us >= last /\ Paired(t, -1, TRUE, now, from, us)
    BY DEF now, from, us
  <1>1. t \in Nat /\ r \in Nat /\ r <= t /\ tick \in Nat /\ cc \in Nat /\ last \in Nat
    BY DEF Paired
  <1>2. now \in Nat
    BY <1>0, <1>1, TicksOrder
  <1>3. Seen(t, r) = r /\ Seen(t, -1) = t
    BY <1>1 DEF Seen
  <1>4. tick <= now
    BY <1>0 DEF Paired
  <1>5. now * US_PER_TICK \in Nat /\ tick * US_PER_TICK \in Nat
    BY <1>1, <1>2
  <1>6. CASE have = FALSE \/ now # tick
    <2>1. from = r /\ Clamped(0) = 0 /\ r - r = 0
      BY <1>0, <1>1, <1>6, ClampedOrder
    <2>2. us = now * US_PER_TICK
      BY <2>1, <1>0, <1>5
    <2>3. us >= last
      <3>1. CASE have = FALSE
        BY <3>1, <2>2, <1>5 DEF Paired
      <3>2. CASE have = TRUE /\ now # tick
        <4>1. last <= tick * US_PER_TICK + Clamped(r - cc) /\ cc <= r
          BY <3>2, <1>3 DEF Paired
        <4>2. Clamped(r - cc) \in Nat /\ Clamped(r - cc) <= US_PER_TICK - 1
          BY <4>1, <1>1, ClampedOrder
        <4>3. now >= tick + 1
          BY <3>2, <1>1, <1>2, <1>4
        <4>4. now * US_PER_TICK >= (tick + 1) * US_PER_TICK
          BY <4>3, <1>1, <1>2
        <4>5. (tick + 1) * US_PER_TICK = tick * US_PER_TICK + US_PER_TICK
          BY <1>1
        <4> QED
          BY <4>1, <4>2, <4>4, <4>5, <2>2, <1>1, <1>5
      <3> QED
        BY <3>1, <3>2, <1>6
    <2>4. Clamped(t - r) \in Nat
      BY <1>1, ClampedOrder
    <2>5. us <= now * US_PER_TICK + Clamped(t - r)
      BY <2>2, <2>4, <1>5
    <2> QED
      BY <2>1, <2>2, <2>3, <2>5, <1>0, <1>1, <1>2, <1>3, <1>5 DEF Paired
  <1>7. CASE have = TRUE /\ now = tick
    <2>1. from = cc
      BY <1>0, <1>7
    <2>2. last <= tick * US_PER_TICK + Clamped(r - cc) /\ cc <= r
      BY <1>7, <1>3 DEF Paired
    <2>3. Clamped(r - cc) \in Nat /\ Clamped(t - cc) \in Nat /\ Clamped(r - cc) <= Clamped(t - cc)
      BY <2>2, <1>1, ClampedOrder
    <2>4. us >= last /\ us \in Nat
      BY <2>1, <2>2, <2>3, <1>0, <1>1, <1>5, <1>7
    <2>5. us <= now * US_PER_TICK + Clamped(t - cc)
      BY <2>1, <2>3, <1>0, <1>5
    <2> QED
      BY <2>1, <2>2, <2>4, <2>5, <1>0, <1>1, <1>2, <1>3 DEF Paired
  <1> QED
    BY <1>6, <1>7

\* The clock's step, and the rest of the adapter leaves it alone.
LEMMA TimeStep ==
    ASSUME ClockReaders = {"task"}, TimeInv, [OsiTimerNext \/ OsiTimeNext]_osiClockVars
    PROVE  TimeInv'
  <1> USE DEF TimeInv
  <1>1. CASE TimePasses
    <2>1. w_time' = w_time + 1 /\ UNCHANGED clockVs
      BY <1>1 DEF TimePasses
    <2>2. Paired(w_time + 1, w_read["task"], w_have, w_tick, w_cc, h_last)
      BY PairedPasses
    <2> QED
      BY <2>1, <2>2 DEF clockVs
  <1>2. ASSUME NEW c \in ClockReaders, SamplesCcount(c) PROVE TimeInv'
    <2>1. c = "task" /\ w_read["task"] = -1 /\ w_read' = [w_read EXCEPT !["task"] = w_time]
          /\ UNCHANGED <<w_time, w_have, w_tick, w_cc, h_last, h_back>>
      BY <1>2 DEF SamplesCcount
    <2>2. Paired(w_time, w_time, w_have, w_tick, w_cc, h_last)
      BY <2>1, PairedSamples
    <2>3. w_time \in Int
      BY DEF Paired
    <2>4. w_read'["task"] = w_time /\ w_read' \in [ClockReaders -> Int]
      BY <2>1, <2>3
    <2> QED
      BY <2>1, <2>2, <2>4
  <1>3. ASSUME NEW c \in ClockReaders, osi_impl_time_us_lo(c) PROVE TimeInv'
    <2> DEFINE r == w_read["task"]
               now == w_time \div US_PER_TICK
               from == FromOf(w_time, r, w_have, w_tick, w_cc)
               us == UsOf(w_time, r, w_have, w_tick, w_cc)
    <2>1. /\ c = "task" /\ r # -1 /\ w_read' = [w_read EXCEPT !["task"] = -1]
          /\ w_have' = TRUE /\ w_tick' = now /\ w_cc' = from /\ h_last' = us
          /\ h_back' = (h_back \/ us < h_last) /\ w_time' = w_time
      BY <1>3 DEF osi_impl_time_us_lo, osi_impl_time_us, FromOf, UsOf, timer_ticks
    <2>2. us >= h_last /\ Paired(w_time, -1, TRUE, now, from, us)
      BY <2>1, PairedReads
    <2>3. us \in Nat /\ h_last \in Nat
      BY <2>2 DEF Paired
    <2>4. w_read'["task"] = -1 /\ w_read' \in [ClockReaders -> Int]
      BY <2>1
    <2> HIDE DEF us, from, now
    <2>5. ~(us < h_last)
      BY <2>2, <2>3
    <2>6. h_back' = FALSE
      BY <2>1, <2>5
    <2> QED
      BY <2>1, <2>2, <2>4, <2>6
  <1>4. CASE UNCHANGED <<w_time, clockVs>>
    BY <1>4 DEF clockVs
  <1>5. ASSUME NEW p \in Ets,
               osi_impl_timer_setfn(p) \/ osi_impl_timer_disarm(p) \/ osi_impl_timer_done(p)
        PROVE  UNCHANGED <<w_time, clockVs>>
    BY <1>5 DEF osi_impl_timer_setfn, osi_impl_timer_disarm, osi_impl_timer_done
  <1>6. ASSUME NEW p \in Ets, NEW u \in Asks, NEW again \in BOOLEAN, arm_ticks(p, u, again)
        PROVE  UNCHANGED <<w_time, clockVs>>
    BY <1>6 DEF arm_ticks
  <1>7. ASSUME osi_service_task \/ osi_impl_timer_service \/ service_marks \/ service_calls
        PROVE  UNCHANGED <<w_time, clockVs>>
    BY <1>7 DEF osi_service_task, osi_impl_timer_service, service_marks, service_calls
  <1>8. ASSUME NEW id, NEW len, osi_impl_event_post(id, len) \/ Joins(len) \/ wifi_event_report
        PROVE  UNCHANGED <<w_time, clockVs>>
    BY <1>8 DEF osi_impl_event_post, Joins, wifi_event_report
  <1>9. CASE UNCHANGED osiClockVars
    BY <1>9, <1>4 DEF osiClockVars
  <1> HIDE DEF TimeInv
  <1> QED
    BY <1>1, <1>2, <1>3, <1>4, <1>5, <1>6, <1>7, <1>8, <1>9 DEF OsiTimerNext, OsiTimeNext

-----------------------------------------------------------------------------
(* The driver's timers.                                                     *)

TimerRec == [used : BOOLEAN, armed : BOOLEAN, fn : BOOLEAN, periodic : BOOLEAN,
             period : Int, due : Int, owner : Ets \cup {NOOWNER}]

\* One slot for each timer, and none armed that the driver has disarmed.
Reached(T, on) ==
    /\ T \in [TimerSlots -> TimerRec] /\ on \in [Ets -> BOOLEAN]
    /\ \A i, j \in TimerSlots :
         T[i].used = TRUE /\ T[j].used = TRUE /\ T[i].owner = T[j].owner => i = j
    /\ \A i \in TimerSlots : T[i].used = TRUE =>
         T[i].owner \in Ets /\ (on[T[i].owner] = FALSE => T[i].armed = FALSE)

TimerInv ==
    /\ Reached(w_timer, h_on) /\ w_time \in Nat /\ w_now \in Int /\ w_i \in Nat
    /\ w_at \in {"none", "sleep", "look", "mark", "call"}
    /\ w_at = "look" => w_i >= 1
    /\ w_at \in {"mark", "call"} => w_i \in TimerSlots

\* The first of a set of slots is one of them.
LEMMA FirstIs == ASSUME NEW S, S \subseteq TimerSlots, S # {} PROVE First(S) \in S
  <1>1. S \subseteq Nat
    BY DEF TimerSlots
  <1>2. \E x \in S : \A y \in S : x <= y
    BY <1>1, LeastNat
  <1> QED
    BY <1>2 DEF First

\* One slot rewritten: for its timer, which has no other, and armed only if that is on.
Fits(T, on, on2, i, p, new) ==
    /\ i \in TimerSlots /\ p \in Ets /\ new \in TimerRec /\ on2 \in [Ets -> BOOLEAN]
    /\ new.used = TRUE => new.owner = p /\ (new.armed = TRUE => on2[p] = TRUE)
    /\ \A q \in Ets : q # p => on2[q] = on[q]
    /\ \A j \in TimerSlots : T[j].used = TRUE /\ T[j].owner = p => j = i

LEMMA ReachedPut ==
    ASSUME NEW T, NEW on, NEW on2, NEW i, NEW p, NEW new, Reached(T, on), Fits(T, on, on2, i, p, new)
    PROVE  Reached([T EXCEPT ![i] = new], on2)
  <1> USE DEF Fits
  <1> DEFINE U == [T EXCEPT ![i] = new]
  <1>1. /\ T \in [TimerSlots -> TimerRec] /\ on \in [Ets -> BOOLEAN]
        /\ \A j, k \in TimerSlots :
             T[j].used = TRUE /\ T[k].used = TRUE /\ T[j].owner = T[k].owner => j = k
        /\ \A j \in TimerSlots : T[j].used = TRUE =>
             T[j].owner \in Ets /\ (on[T[j].owner] = FALSE => T[j].armed = FALSE)
    BY DEF Reached
  <1>2. U \in [TimerSlots -> TimerRec] /\ U[i] = new /\ \A j \in TimerSlots : j # i => U[j] = T[j]
    BY <1>1
  <1> HIDE DEF U
  <1>3. ASSUME NEW j \in TimerSlots, NEW k \in TimerSlots,
               U[j].used = TRUE, U[k].used = TRUE, U[j].owner = U[k].owner
        PROVE  j = k
    BY <1>1, <1>2, <1>3
  <1>4. ASSUME NEW j \in TimerSlots, U[j].used = TRUE
        PROVE  U[j].owner \in Ets /\ (on2[U[j].owner] = FALSE => U[j].armed = FALSE)
    <2>1. CASE j = i
      BY <1>2, <1>4, <2>1 DEF TimerRec
    <2>2. CASE j # i
      <3>1. U[j] = T[j] /\ T[j].owner # p
        BY <1>2, <1>4, <2>2
      <3> QED
        BY <1>1, <1>4, <3>1
    <2> QED
      BY <2>1, <2>2
  <1>5. Reached(U, on2)
    BY <1>2, <1>3, <1>4 DEF Reached
  <1> QED
    BY <1>5 DEF U

\* The slot timer_bind gives is the timer's only one.
LEMMA BindIs ==
    ASSUME Reached(w_timer, h_on), NEW p \in Ets, timer_bind(p) # 0
    PROVE  /\ timer_bind(p) \in TimerSlots
           /\ Bound(p, timer_bind(p)) \in TimerRec
           /\ Bound(p, timer_bind(p)).used = TRUE /\ Bound(p, timer_bind(p)).owner = p
           /\ Bound(p, timer_bind(p)).armed = TRUE => h_on[p] = TRUE
           /\ \A j \in TimerSlots : w_timer[j].used = TRUE /\ w_timer[j].owner = p => j = timer_bind(p)
  <1> DEFINE free == {i \in TimerSlots : ~w_timer[i].used}
             i == timer_bind(p)
  <1>1. /\ w_timer \in [TimerSlots -> TimerRec] /\ h_on \in [Ets -> BOOLEAN]
        /\ \A j, k \in TimerSlots :
             w_timer[j].used = TRUE /\ w_timer[k].used = TRUE /\ w_timer[j].owner = w_timer[k].owner => j = k
        /\ \A j \in TimerSlots : w_timer[j].used = TRUE =>
             w_timer[j].owner \in Ets /\ (h_on[w_timer[j].owner] = FALSE => w_timer[j].armed = FALSE)
    BY DEF Reached
  <1>2. \A j \in TimerSlots : w_timer[j].used \in BOOLEAN
    BY <1>1 DEF TimerRec
  <1>3. /\ timer_of(p) \subseteq TimerSlots /\ free \subseteq TimerSlots
        /\ \A j \in TimerSlots : j \in timer_of(p) <=> w_timer[j].used = TRUE /\ w_timer[j].owner = p
        /\ \A j \in TimerSlots : j \in free <=> w_timer[j].used = FALSE
    BY <1>2 DEF timer_of
  <1>4. i = (IF timer_of(p) # {} THEN First(timer_of(p)) ELSE IF free # {} THEN First(free) ELSE 0)
    BY DEF timer_bind
  <1> HIDE DEF free, i
  <1>5. CASE timer_of(p) # {}
    <2>1. i \in timer_of(p)
      BY <1>3, <1>4, <1>5, FirstIs
    <2>2. i \in TimerSlots /\ w_timer[i].used = TRUE /\ w_timer[i].owner = p
      BY <1>3, <2>1
    <2>3. Bound(p, i) = w_timer[i] /\ w_timer[i] \in TimerRec
      BY <1>1, <2>2 DEF Bound
    <2>4. w_timer[i].armed = TRUE => h_on[p] = TRUE
      BY <1>1, <2>2
    <2>5. \A j \in TimerSlots : w_timer[j].used = TRUE /\ w_timer[j].owner = p => j = i
      BY <1>1, <2>2
    <2> QED
      BY <2>2, <2>3, <2>4, <2>5 DEF i
  <1>6. CASE timer_of(p) = {}
    <2>1. free # {} /\ i = First(free)
      BY <1>4, <1>6 DEF i
    <2>2. i \in TimerSlots /\ w_timer[i].used = FALSE
      BY <1>3, <2>1, FirstIs
    <2>3. Bound(p, i) = [FreeTimer EXCEPT !.used = TRUE, !.owner = p]
      BY <2>2 DEF Bound
    <2>4. Bound(p, i) = [used |-> TRUE, armed |-> FALSE, fn |-> FALSE, periodic |-> FALSE,
                         period |-> 0, due |-> 0, owner |-> p]
      BY <2>3 DEF FreeTimer
    <2>5. Bound(p, i) \in TimerRec /\ Bound(p, i).used = TRUE /\ Bound(p, i).owner = p
          /\ Bound(p, i).armed = FALSE
      BY <2>4 DEF TimerRec
    <2>6. \A j \in TimerSlots : ~(w_timer[j].used = TRUE /\ w_timer[j].owner = p)
      BY <1>3, <1>6
    <2> QED
      BY <2>2, <2>5, <2>6 DEF i
  <1> QED
    BY <1>5, <1>6

LEMMA ReachedSetfn ==
    ASSUME Reached(w_timer, h_on), NEW p \in Ets, osi_impl_timer_setfn(p)
    PROVE  Reached(w_timer', h_on')
  <1>1. h_on' = h_on
    BY DEF osi_impl_timer_setfn
  <1>2. CASE timer_bind(p) = 0
    BY <1>1, <1>2 DEF osi_impl_timer_setfn
  <1>3. CASE timer_bind(p) # 0
    <2> DEFINE i == timer_bind(p)
               old == Bound(p, i)
               new == [old EXCEPT !.fn = TRUE]
    <2>1. w_timer' = [w_timer EXCEPT ![i] = new]
      BY <1>3 DEF osi_impl_timer_setfn
    <2>2. /\ i \in TimerSlots /\ old \in TimerRec /\ old.used = TRUE /\ old.owner = p
          /\ old.armed = TRUE => h_on[p] = TRUE
          /\ \A j \in TimerSlots : w_timer[j].used = TRUE /\ w_timer[j].owner = p => j = i
      BY <1>3, BindIs
    <2> HIDE DEF i, old
    <2>3. new \in TimerRec /\ new.used = TRUE /\ new.owner = p /\ new.armed = old.armed
      BY <2>2 DEF TimerRec
    <2>4. h_on \in [Ets -> BOOLEAN]
      BY DEF Reached
    <2> HIDE DEF new
    <2>5. Fits(w_timer, h_on, h_on, i, p, new)
      BY <2>2, <2>3, <2>4 DEF Fits
    <2>6. Reached([w_timer EXCEPT ![i] = new], h_on)
      BY <2>5, ReachedPut
    <2> QED
      BY <1>1, <2>1, <2>6
  <1> QED
    BY <1>2, <1>3

LEMMA ReachedArm ==
    ASSUME Reached(w_timer, h_on), w_time \in Nat, NEW p \in Ets, NEW us \in Asks,
           NEW again \in BOOLEAN, arm_ticks(p, us, again)
    PROVE  Reached(w_timer', h_on')
  <1>1. CASE timer_bind(p) = 0
    BY <1>1 DEF arm_ticks
  <1>2. CASE timer_bind(p) # 0
    <2> DEFINE i == timer_bind(p)
               old == Bound(p, i)
               new == [old EXCEPT !.period = TicksOf(us), !.due = timer_ticks + TicksOf(us),
                                  !.periodic = again, !.armed = TRUE]
               on == [h_on EXCEPT ![p] = TRUE]
    <2>1. w_timer' = [w_timer EXCEPT ![i] = new] /\ h_on' = on
      BY <1>2 DEF arm_ticks
    <2>2. /\ i \in TimerSlots /\ old \in TimerRec /\ old.used = TRUE /\ old.owner = p
          /\ \A j \in TimerSlots : w_timer[j].used = TRUE /\ w_timer[j].owner = p => j = i
      BY <1>2, BindIs
    <2> HIDE DEF i, old
    <2>3. TicksOf(us) \in Int /\ timer_ticks \in Int
      <3>1. us \in Int /\ w_time \in Int /\ US_PER_TICK \in Int /\ US_PER_TICK > 0
        OBVIOUS
      <3>2. us \div US_PER_TICK \in Int /\ w_time \div US_PER_TICK \in Int
        BY <3>1, DivModType
      <3> QED
        BY <3>2 DEF TicksOf, timer_ticks
    <2>4. new \in TimerRec /\ new.used = TRUE /\ new.owner = p
      <3> DEFINE k == TicksOf(us)
                 d == timer_ticks + TicksOf(us)
      <3>1. k \in Int /\ d \in Int
        BY <2>3
      <3> HIDE DEF k, d
      <3>2. [old EXCEPT !.period = k, !.due = d, !.periodic = again, !.armed = TRUE] \in TimerRec
        BY <2>2, <3>1 DEF TimerRec
      <3>3. /\ [old EXCEPT !.period = k, !.due = d, !.periodic = again, !.armed = TRUE].used = TRUE
            /\ [old EXCEPT !.period = k, !.due = d, !.periodic = again, !.armed = TRUE].owner = p
        BY <2>2 DEF TimerRec
      <3> QED
        BY <3>2, <3>3 DEF k, d
    <2>5. h_on \in [Ets -> BOOLEAN]
      BY DEF Reached
    <2>6. on \in [Ets -> BOOLEAN] /\ on[p] = TRUE /\ \A q \in Ets : q # p => on[q] = h_on[q]
      BY <2>5
    <2> HIDE DEF new, on
    <2>7. Fits(w_timer, h_on, on, i, p, new)
      BY <2>2, <2>4, <2>6 DEF Fits
    <2>8. Reached([w_timer EXCEPT ![i] = new], on)
      BY <2>7, ReachedPut
    <2> QED
      BY <2>1, <2>8
  <1> QED
    BY <1>1, <1>2

\* A slot that is taken from its timer, disarmed or freed, when the timer is turned off.
LEMMA ReachedOff ==
    ASSUME Reached(w_timer, h_on), NEW p \in Ets,
           osi_impl_timer_disarm(p) \/ osi_impl_timer_done(p)
    PROVE  Reached(w_timer', h_on')
  <1> DEFINE i == First(timer_of(p))
             on == [h_on EXCEPT ![p] = FALSE]
  <1>1. h_on' = on
    BY DEF osi_impl_timer_disarm, osi_impl_timer_done
  <1>2. /\ w_timer \in [TimerSlots -> TimerRec] /\ h_on \in [Ets -> BOOLEAN]
        /\ \A j, k \in TimerSlots :
             w_timer[j].used = TRUE /\ w_timer[k].used = TRUE /\ w_timer[j].owner = w_timer[k].owner => j = k
        /\ \A j \in TimerSlots : w_timer[j].used = TRUE =>
             w_timer[j].owner \in Ets /\ (h_on[w_timer[j].owner] = FALSE => w_timer[j].armed = FALSE)
    BY DEF Reached
  <1>3. on \in [Ets -> BOOLEAN] /\ on[p] = FALSE /\ \A q \in Ets : q # p => on[q] = h_on[q]
    BY <1>2
  <1>4. \A j \in TimerSlots : w_timer[j].used \in BOOLEAN
    BY <1>2 DEF TimerRec
  <1>5. /\ timer_of(p) \subseteq TimerSlots
        /\ \A j \in TimerSlots : j \in timer_of(p) <=> w_timer[j].used = TRUE /\ w_timer[j].owner = p
    BY <1>4 DEF timer_of
  <1>6. CASE timer_of(p) = {}
    <2>1. w_timer' = w_timer
      BY <1>6 DEF osi_impl_timer_disarm, osi_impl_timer_done
    <2>2. \A j \in TimerSlots : w_timer[j].used = TRUE => w_timer[j].owner # p
      BY <1>5, <1>6
    <2> HIDE DEF on
    <2>3. Reached(w_timer, on)
      BY <1>2, <1>3, <2>2 DEF Reached
    <2> QED
      BY <1>1, <2>1, <2>3
  <1>7. CASE timer_of(p) # {}
    <2>1. i \in timer_of(p)
      BY <1>5, <1>7, FirstIs
    <2>2. i \in TimerSlots /\ w_timer[i].used = TRUE /\ w_timer[i].owner = p
      BY <1>5, <2>1
    <2>3. \A j \in TimerSlots : w_timer[j].used = TRUE /\ w_timer[j].owner = p => j = i
      BY <1>2, <2>2
    <2> HIDE DEF on
    <2>4. ASSUME NEW new \in TimerRec, new.owner = p, new.armed = FALSE,
                 w_timer' = [w_timer EXCEPT ![i] = new]
          PROVE  Reached(w_timer', h_on')
      <3> HIDE DEF i
      <3>1. Fits(w_timer, h_on, on, i, p, new)
        BY <1>3, <2>2, <2>3, <2>4 DEF Fits
      <3>2. Reached([w_timer EXCEPT ![i] = new], on)
        BY <3>1, ReachedPut
      <3> QED
        BY <1>1, <2>4, <3>2
    <2>5. CASE osi_impl_timer_disarm(p)
      <3> DEFINE new == [w_timer[i] EXCEPT !.armed = FALSE]
      <3>1. w_timer' = [w_timer EXCEPT ![i] = new]
        BY <1>2, <1>7, <2>2, <2>5 DEF osi_impl_timer_disarm
      <3> HIDE DEF i
      <3>2. new \in TimerRec /\ new.owner = p /\ new.armed = FALSE
        BY <1>2, <2>2 DEF TimerRec
      <3> HIDE DEF new
      <3> QED
        BY <2>4, <3>1, <3>2
    <2>6. CASE osi_impl_timer_done(p)
      <3> DEFINE new == [w_timer[i] EXCEPT !.armed = FALSE, !.used = FALSE, !.fn = FALSE]
      <3>1. w_timer' = [w_timer EXCEPT ![i] = new]
        BY <1>2, <1>7, <2>2, <2>6 DEF osi_impl_timer_done, TimerRec
      <3> HIDE DEF i
      <3>2. new \in TimerRec /\ new.owner = p /\ new.armed = FALSE
        BY <1>2, <2>2 DEF TimerRec
      <3> HIDE DEF new
      <3> QED
        BY <2>4, <3>1, <3>2
    <2> QED
      BY <2>5, <2>6
  <1> QED
    BY <1>6, <1>7

\* service_marks leaves a slot its owner and arms nothing, whatever the driver did meanwhile.
LEMMA ReachedMarks ==
    ASSUME Reached(w_timer, h_on), w_i \in TimerSlots, w_now \in Int, service_marks
    PROVE  Reached(w_timer', h_on')
  <1> DEFINE new == IF w_timer[w_i].periodic
                    THEN [w_timer[w_i] EXCEPT !.due = w_now + w_timer[w_i].period]
                    ELSE [w_timer[w_i] EXCEPT !.armed = FALSE]
             T == [w_timer EXCEPT ![w_i] = new]
  <1>1. /\ w_timer \in [TimerSlots -> TimerRec] /\ h_on \in [Ets -> BOOLEAN]
        /\ \A j, k \in TimerSlots :
             w_timer[j].used = TRUE /\ w_timer[k].used = TRUE /\ w_timer[j].owner = w_timer[k].owner => j = k
        /\ \A j \in TimerSlots : w_timer[j].used = TRUE =>
             w_timer[j].owner \in Ets /\ (h_on[w_timer[j].owner] = FALSE => w_timer[j].armed = FALSE)
    BY DEF Reached
  <1>2. w_timer' = T /\ h_on' = h_on
    BY <1>1 DEF service_marks
  <1>3. w_timer[w_i] \in TimerRec
    BY <1>1
  <1>4. /\ new \in TimerRec /\ new.used = w_timer[w_i].used /\ new.owner = w_timer[w_i].owner
        /\ w_timer[w_i].armed = FALSE => new.armed = FALSE
    <2>1. CASE w_timer[w_i].periodic
      BY <1>3, <2>1 DEF TimerRec
    <2>2. CASE ~w_timer[w_i].periodic
      BY <1>3, <2>2 DEF TimerRec
    <2> QED
      BY <2>1, <2>2
  <1> HIDE DEF new
  <1>5. T \in [TimerSlots -> TimerRec] /\ T[w_i] = new /\ \A j \in TimerSlots : j # w_i => T[j] = w_timer[j]
    BY <1>1, <1>4
  <1> HIDE DEF T
  <1>6. \A j \in TimerSlots : /\ T[j].used = TRUE => w_timer[j].used = TRUE
                              /\ T[j].owner = w_timer[j].owner
                              /\ w_timer[j].armed = FALSE => T[j].armed = FALSE
    BY <1>4, <1>5
  <1>7. Reached(T, h_on)
    <2>1. ASSUME NEW j \in TimerSlots, NEW k \in TimerSlots,
                 T[j].used = TRUE, T[k].used = TRUE, T[j].owner = T[k].owner
          PROVE  j = k
      <3>1. w_timer[j].used = TRUE /\ w_timer[k].used = TRUE /\ w_timer[j].owner = w_timer[k].owner
        BY <1>6, <2>1
      <3> QED
        BY <1>1, <3>1
    <2>2. ASSUME NEW j \in TimerSlots, T[j].used = TRUE
          PROVE  T[j].owner \in Ets /\ (h_on[T[j].owner] = FALSE => T[j].armed = FALSE)
      <3>1. w_timer[j].used = TRUE /\ T[j].owner = w_timer[j].owner
            /\ (w_timer[j].armed = FALSE => T[j].armed = FALSE)
        BY <1>6, <2>2
      <3> QED
        BY <1>1, <3>1
    <2> QED
      BY <1>1, <1>5, <2>1, <2>2 DEF Reached
  <1> QED
    BY <1>2, <1>7

LEMMA TimerStep ==
    ASSUME TimerInv, [OsiTimerNext \/ OsiTimeNext]_osiClockVars
    PROVE  TimerInv'
  <1> DEFINE Kept == UNCHANGED <<w_timer, h_on, w_at, w_i, w_now>>
  <1>1. ASSUME Kept, w_time' \in Nat PROVE TimerInv'
    BY <1>1 DEF TimerInv
  <1>2. w_time \in Nat /\ Reached(w_timer, h_on)
    BY DEF TimerInv
  <1>3. CASE TimePasses
    BY <1>1, <1>2, <1>3 DEF TimePasses, timerVs, svcVs
  <1>4. ASSUME NEW p \in Ets, osi_impl_timer_setfn(p) PROVE TimerInv'
    <2>1. Reached(w_timer', h_on')
      BY <1>2, <1>4, ReachedSetfn
    <2>2. UNCHANGED <<w_at, w_i, w_now, w_time>>
      BY <1>4 DEF osi_impl_timer_setfn, svcVs
    <2> QED
      BY <2>1, <2>2 DEF TimerInv
  <1>5. ASSUME NEW p \in Ets, osi_impl_timer_disarm(p) \/ osi_impl_timer_done(p) PROVE TimerInv'
    <2>1. Reached(w_timer', h_on')
      BY <1>2, <1>5, ReachedOff
    <2>2. UNCHANGED <<w_at, w_i, w_now, w_time>>
      BY <1>5 DEF osi_impl_timer_disarm, osi_impl_timer_done, svcVs
    <2> QED
      BY <2>1, <2>2 DEF TimerInv
  <1>6. ASSUME NEW p \in Ets, NEW us \in Asks, NEW again \in BOOLEAN, arm_ticks(p, us, again)
        PROVE  TimerInv'
    <2>1. Reached(w_timer', h_on')
      BY <1>2, <1>6, ReachedArm
    <2>2. UNCHANGED <<w_i, w_now, w_time>> /\ w_at' = (IF w_at = "none" THEN "sleep" ELSE w_at)
      BY <1>6 DEF arm_ticks
    <2> QED
      BY <2>1, <2>2 DEF TimerInv
  <1>7. CASE osi_service_task
    <2>1. timer_ticks \in Int
      BY <1>2, TicksOrder DEF timer_ticks
    <2> QED
      BY <1>7, <2>1 DEF osi_service_task, TimerInv, timerVs
  <1>8. CASE osi_impl_timer_service
    BY <1>8 DEF osi_impl_timer_service, TimerInv, timerVs, TimerSlots
  <1>9. CASE service_marks
    <2>1. w_i \in TimerSlots /\ w_now \in Int
      BY <1>9 DEF service_marks, TimerInv
    <2>2. Reached(w_timer', h_on')
      BY <1>2, <1>9, <2>1, ReachedMarks
    <2>3. UNCHANGED <<w_i, w_now, w_time>> /\ w_at' = "call"
      BY <1>9 DEF service_marks
    <2> QED
      BY <2>1, <2>2, <2>3 DEF TimerInv
  <1>10. CASE service_calls
    BY <1>10 DEF service_calls, TimerInv, timerVs, TimerSlots
  <1>11. ASSUME NEW c, SamplesCcount(c) \/ osi_impl_time_us_lo(c) PROVE TimerInv'
    BY <1>1, <1>2, <1>11 DEF SamplesCcount, osi_impl_time_us_lo, timerVs, svcVs
  <1>12. ASSUME NEW id, NEW len, osi_impl_event_post(id, len) \/ Joins(len) \/ wifi_event_report
         PROVE  TimerInv'
    BY <1>1, <1>2, <1>12 DEF osi_impl_event_post, Joins, wifi_event_report, timerVs, svcVs
  <1>13. CASE UNCHANGED osiClockVars
    BY <1>1, <1>2, <1>13 DEF osiClockVars, timerVs, svcVs
  <1> QED
    BY <1>3, <1>4, <1>5, <1>6, <1>7, <1>8, <1>9, <1>10, <1>11, <1>12, <1>13
       DEF OsiTimerNext, OsiTimeNext

\* For any timers, pool, tick and delays, while one task reads the clock: a timer the driver has
\* disarmed holds no armed slot, whatever the service task was doing, and no reading of the clock
\* is below an earlier one (wifi_osi_impl.c).
THEOREM TimersStayTrue ==
    ASSUME ClockReaders = {"task"}
    PROVE  OsiTimerSpec \/ OsiTimeSpec => []TimersAreTrue
  <1>1. OsiClockInit => TimeInv /\ TimerInv
    <2> SUFFICES ASSUME OsiClockInit PROVE TimeInv /\ TimerInv
      OBVIOUS
    <2>1. TimeInv
      <3>1. 0 \div US_PER_TICK \in Nat
        BY TicksOrder
      <3>2. Paired(0, -1, FALSE, 0, 0, 0)
        BY <3>1 DEF Paired, Seen
      <3>3. /\ w_time = 0 /\ w_read = [c \in ClockReaders |-> -1] /\ w_have = FALSE /\ w_tick = 0
            /\ w_cc = 0 /\ h_last = 0 /\ h_back = FALSE
        BY DEF OsiClockInit
      <3>4. w_read \in [ClockReaders -> Int] /\ w_read["task"] = -1
        BY <3>3
      <3> QED
        BY <3>2, <3>3, <3>4 DEF TimeInv
    <2>2. TimerInv
      <3>1. FreeTimer \in TimerRec /\ FreeTimer.used = FALSE
        BY DEF FreeTimer, TimerRec
      <3>2. w_timer \in [TimerSlots -> TimerRec] /\ \A i \in TimerSlots : w_timer[i].used = FALSE
        BY <3>1 DEF OsiClockInit
      <3>3. h_on \in [Ets -> BOOLEAN]
        BY DEF OsiClockInit
      <3>4. Reached(w_timer, h_on)
        BY <3>2, <3>3 DEF Reached
      <3> QED
        BY <3>4 DEF OsiClockInit, TimerInv
    <2> QED
      BY <2>1, <2>2
  <1>2. TimeInv /\ TimerInv /\ [OsiTimerNext]_osiClockVars => TimeInv' /\ TimerInv'
    BY TimeStep, TimerStep
  <1>3. TimeInv /\ TimerInv /\ [OsiTimeNext]_osiClockVars => TimeInv' /\ TimerInv'
    BY TimeStep, TimerStep
  <1>4. TimeInv /\ TimerInv => TimersAreTrue
    <2> SUFFICES ASSUME TimeInv, TimerInv PROVE TimersAreTrue
      OBVIOUS
    <2>1. TimeIsMonotonic
      BY DEF TimeInv, TimeIsMonotonic
    <2>2. ASSUME NEW p \in Ets, ~h_on[p], NEW i \in timer_of(p) PROVE ~w_timer[i].armed
      <3>1. w_timer \in [TimerSlots -> TimerRec] /\ h_on \in [Ets -> BOOLEAN]
        BY DEF TimerInv, Reached
      <3>2. i \in TimerSlots /\ w_timer[i].used = TRUE /\ w_timer[i].owner = p /\ h_on[p] = FALSE
        BY <3>1, <2>2 DEF timer_of, TimerRec
      <3>3. w_timer[i].armed = FALSE
        BY <3>2 DEF TimerInv, Reached
      <3> QED
        BY <3>3
    <2> QED
      BY <2>1, <2>2 DEF TimersAreTrue, DisarmReaches
  <1> QED
    BY <1>1, <1>2, <1>3, <1>4, PTL DEF OsiTimerSpec, OsiTimeSpec

HIDE OsiClockAssumption

-----------------------------------------------------------------------------
(* The objects the drivers wait on.                                         *)

USE OsiWaitAssumption

\* A mutex that is out is with one task, which a recursive one counts the depth of.
Held(h, c, o, d, r) ==
    /\ c \in {0, 1}
    /\ c = 1 => /\ \A t \in OsiTasks : h[t] = 0
                /\ r = TRUE => d = 0
    /\ c = 0 => \E t \in OsiTasks : /\ h[t] > 0 /\ \A u \in OsiTasks : u # t => h[u] = 0
                                    /\ r = TRUE => o = t /\ d = h[t]
                                    /\ r = FALSE => h[t] = 1

SemKept(kind, used, h, c, o, d, r) ==
    /\ h \in [OsiTasks -> Nat] /\ c \in Nat /\ d \in Nat /\ r \in BOOLEAN
    /\ used = TRUE /\ kind \in SemKinds => (r = TRUE <=> kind = "recursive")
    /\ used = TRUE /\ kind \in {"mutex", "recursive"} => Held(h, c, o, d, r)

\* What a take and a give make of the owner, the depth and the count.
TakenBy(r, o, t)      == IF r THEN t ELSE o
TakenDepth(r, d)      == IF r THEN 1 ELSE d
Mine(r, d, o, t)      == r /\ d > 0 /\ o = t
Inner(r, d, o, t)     == r /\ d > 1 /\ o = t
GivenCount(c, r, d, o, t) == IF Inner(r, d, o, t) THEN c ELSE 1
GivenTo(r, d, o, t)   == IF Mine(r, d, o, t) /\ ~Inner(r, d, o, t) THEN FREE_SEM ELSE o
GivenDepth(r, d, o, t) == IF Mine(r, d, o, t) THEN d - 1 ELSE d

GivenHolds(h, t)      == [h EXCEPT ![t] = IF @ > 0 THEN @ - 1 ELSE 0]

LEMMA HeldTaken ==
    ASSUME NEW h \in [OsiTasks -> Nat], NEW c, NEW o, NEW d \in Nat, NEW r \in BOOLEAN, Held(h, c, o, d, r),
           NEW t \in OsiTasks, c > 0, ~(r = TRUE /\ d > 0 /\ o = t)
    PROVE  Held([h EXCEPT ![t] = @ + 1], c - 1, TakenBy(r, o, t), TakenDepth(r, d), r)
  <1> DEFINE g == [h EXCEPT ![t] = @ + 1]
  <1>1. c = 1 /\ \A u \in OsiTasks : h[u] = 0
    BY DEF Held
  <1>2. g[t] = 1 /\ \A u \in OsiTasks : u # t => g[u] = 0
    BY <1>1
  <1> HIDE DEF g
  <1>3. Held(g, 0, TakenBy(r, o, t), TakenDepth(r, d), r)
    BY <1>2 DEF Held, TakenBy, TakenDepth
  <1> QED
    BY <1>1, <1>3 DEF g

LEMMA HeldDeeper ==
    ASSUME NEW h \in [OsiTasks -> Nat], NEW c, NEW o, NEW d \in Nat, NEW r \in BOOLEAN, Held(h, c, o, d, r),
           NEW t \in OsiTasks, r = TRUE, d > 0, o = t
    PROVE  Held([h EXCEPT ![t] = @ + 1], c, t, d + 1, r)
  <1> DEFINE g == [h EXCEPT ![t] = @ + 1]
  <1>1. c = 0
    BY DEF Held
  <1>2. h[t] = d /\ \A u \in OsiTasks : u # t => h[u] = 0
    BY <1>1 DEF Held
  <1>3. g[t] = d + 1 /\ \A u \in OsiTasks : u # t => g[u] = 0
    BY <1>2
  <1> HIDE DEF g
  <1>4. Held(g, c, t, d + 1, r)
    BY <1>1, <1>3 DEF Held
  <1> QED
    BY <1>4 DEF g

\* Given back by its holder: one level of a recursive mutex, or all of it.
LEMMA HeldGiven ==
    ASSUME NEW h \in [OsiTasks -> Nat], NEW c, NEW o, NEW d \in Nat, NEW r \in BOOLEAN, Held(h, c, o, d, r),
           NEW t \in OsiTasks, h[t] > 0
    PROVE  Held(GivenHolds(h, t), GivenCount(c, r, d, o, t), GivenTo(r, d, o, t),
                GivenDepth(r, d, o, t), r)
  <1> DEFINE g == GivenHolds(h, t)
  <1>1. c = 0
    BY DEF Held
  <1>2. /\ \A u \in OsiTasks : u # t => h[u] = 0
        /\ r = TRUE => o = t /\ d = h[t]
        /\ r = FALSE => h[t] = 1
    BY <1>1 DEF Held
  <1>3. g[t] = h[t] - 1 /\ \A u \in OsiTasks : u # t => g[u] = 0
    BY <1>2 DEF GivenHolds
  <1> HIDE DEF g
  <1>4. CASE r = TRUE /\ d > 1
    <2>1. Held(g, 0, o, d - 1, r)
      BY <1>2, <1>3, <1>4 DEF Held
    <2>2. GivenCount(c, r, d, o, t) = 0 /\ GivenTo(r, d, o, t) = o /\ GivenDepth(r, d, o, t) = d - 1
      BY <1>1, <1>2, <1>4 DEF GivenCount, GivenTo, GivenDepth, Mine, Inner
    <2> QED
      BY <2>1, <2>2 DEF g
  <1>5. CASE r = TRUE /\ ~(d > 1)
    <2>1. d = 1 /\ o = t /\ \A u \in OsiTasks : g[u] = 0
      BY <1>2, <1>3, <1>5
    <2>2. Held(g, 1, FREE_SEM, 0, r)
      BY <2>1 DEF Held
    <2>3. GivenCount(c, r, d, o, t) = 1 /\ GivenTo(r, d, o, t) = FREE_SEM /\ GivenDepth(r, d, o, t) = 0
      BY <1>5, <2>1 DEF GivenCount, GivenTo, GivenDepth, Mine, Inner
    <2> QED
      BY <2>2, <2>3 DEF g
  <1>6. CASE r = FALSE
    <2>1. \A u \in OsiTasks : g[u] = 0
      BY <1>2, <1>3, <1>6
    <2>2. Held(g, 1, o, d, r)
      BY <1>6, <2>1 DEF Held
    <2>3. GivenCount(c, r, d, o, t) = 1 /\ GivenTo(r, d, o, t) = o /\ GivenDepth(r, d, o, t) = d
      BY <1>6 DEF GivenCount, GivenTo, GivenDepth, Mine, Inner
    <2> QED
      BY <2>2, <2>3 DEF g
  <1> QED
    BY <1>4, <1>5, <1>6

SemInv == SemKept(o_kind, o_used, h_holds, o_count, o_owner, o_depth, o_recursive)

LEMMA SemStep ==
    ASSUME SemInv, SemSlotsRecycled = FALSE, OsiWaitNext
    PROVE  SemInv'
  <1>1. /\ h_holds \in [OsiTasks -> Nat] /\ o_count \in Nat /\ o_depth \in Nat /\ o_recursive \in BOOLEAN
        /\ o_used = TRUE /\ o_kind \in SemKinds => (o_recursive = TRUE <=> o_kind = "recursive")
        /\ o_used = TRUE /\ o_kind \in {"mutex", "recursive"}
               => Held(h_holds, o_count, o_owner, o_depth, o_recursive)
    BY DEF SemInv, SemKept
  <1>2. ASSUME NEW kind, NEW init \in {0, 1}, kind = "mutex" => init = 1, osi_impl_sem_create(kind, init)
        PROVE  SemInv'
    <2> DEFINE g == [t \in OsiTasks |-> 0]
    <2>1. /\ o_recursive = FALSE /\ kind \in {"counting", "mutex"} /\ o_kind' = kind /\ o_used' = TRUE
          /\ o_count' = init /\ h_holds' = g /\ UNCHANGED <<o_recursive, o_owner, o_depth>>
      BY <1>1, <1>2 DEF osi_impl_sem_create, SemKinds
    <2>2. g \in [OsiTasks -> Nat] /\ \A t \in OsiTasks : g[t] = 0
      OBVIOUS
    <2> HIDE DEF g
    <2>3. kind = "mutex" => Held(g, init, o_owner, o_depth, FALSE)
      BY <1>2, <2>2 DEF Held
    <2>4. SemKept(kind, TRUE, g, init, o_owner, o_depth, FALSE)
      <3>1. kind # "recursive" /\ init \in Nat
        BY <1>2, <2>1
      <3> QED
        BY <1>1, <2>2, <2>3, <3>1 DEF SemKept
    <2> QED
      BY <2>1, <2>4 DEF SemInv
  <1>3. CASE osi_impl_recursive_mutex_create
    <2> DEFINE g == [t \in OsiTasks |-> 0]
    <2>1. /\ o_kind' = "recursive" /\ o_used' = TRUE /\ o_count' = 1 /\ h_holds' = g
          /\ o_recursive' = TRUE /\ o_owner' = FREE_SEM /\ o_depth' = 0
      BY <1>3 DEF osi_impl_recursive_mutex_create
    <2>2. g \in [OsiTasks -> Nat] /\ \A t \in OsiTasks : g[t] = 0
      OBVIOUS
    <2> HIDE DEF g
    <2>3. SemKept("recursive", TRUE, g, 1, FREE_SEM, 0, TRUE)
      BY <2>2 DEF SemKept, Held
    <2> QED
      BY <2>1, <2>3 DEF SemInv
  <1>4. ASSUME NEW t \in OsiTasks, osi_impl_sem_take(t) PROVE SemInv'
    <2> DEFINE mine == o_recursive /\ o_depth > 0 /\ o_owner = t
               g == [h_holds EXCEPT ![t] = @ + 1]
    <2>1. UNCHANGED <<o_kind, o_used, o_recursive>>
      BY <1>4 DEF osi_impl_sem_take
    <2>2. g \in [OsiTasks -> Nat]
      BY <1>1
    <2>3. CASE mine
      <3>1. /\ h_holds' = g /\ o_count' = o_count /\ o_owner' = t /\ o_depth' = o_depth + 1
        BY <1>4, <2>3 DEF osi_impl_sem_take
      <3>2. o_used = TRUE /\ o_kind \in {"mutex", "recursive"}
               => Held(g, o_count, t, o_depth + 1, o_recursive)
        BY <1>1, <2>3, HeldDeeper
      <3> HIDE DEF g
      <3>3. SemKept(o_kind, o_used, g, o_count, t, o_depth + 1, o_recursive)
        BY <1>1, <2>2, <3>2 DEF SemKept
      <3> QED
        BY <2>1, <3>1, <3>3 DEF SemInv
    <2>4. CASE ~mine /\ o_count > 0
      <3> DEFINE ow == TakenBy(o_recursive, o_owner, t)
                 de == TakenDepth(o_recursive, o_depth)
      <3>1. /\ h_holds' = g /\ o_count' = o_count - 1 /\ o_owner' = ow /\ o_depth' = de
        BY <1>4, <2>4 DEF osi_impl_sem_take, TakenBy, TakenDepth
      <3>2. o_used = TRUE /\ o_kind \in {"mutex", "recursive"}
               => Held(g, o_count - 1, ow, de, o_recursive)
        <4>1. ~(o_recursive = TRUE /\ o_depth > 0 /\ o_owner = t)
          BY <2>4
        <4> QED
          BY ZenonT(60), <1>1, <2>4, <4>1, HeldTaken
      <3>3. de \in Nat /\ o_count - 1 \in Nat
        BY <1>1, <2>4 DEF TakenDepth
      <3> HIDE DEF g, ow, de
      <3>4. SemKept(o_kind, o_used, g, o_count - 1, ow, de, o_recursive)
        BY <1>1, <2>2, <3>2, <3>3 DEF SemKept
      <3> QED
        BY <2>1, <3>1, <3>4 DEF SemInv
    <2>5. CASE ~mine /\ ~(o_count > 0)
      <3>1. UNCHANGED <<o_count, o_owner, o_depth, h_holds>>
        BY <1>4, <2>5 DEF osi_impl_sem_take
      <3> QED
        BY <2>1, <3>1 DEF SemInv
    <2> QED
      BY <2>3, <2>4, <2>5
  <1>5. ASSUME NEW t \in OsiTasks, osi_impl_sem_give(t) PROVE SemInv'
    <2> DEFINE g == GivenHolds(h_holds, t)
               co == GivenCount(o_count, o_recursive, o_depth, o_owner, t)
               ow == GivenTo(o_recursive, o_depth, o_owner, t)
               de == GivenDepth(o_recursive, o_depth, o_owner, t)
    <2>1. /\ o_kind \in SemKinds /\ o_used /\ UNCHANGED <<o_kind, o_used, o_recursive>>
          /\ o_kind # "counting" => h_holds[t] > 0
          /\ h_holds' = g /\ o_depth' = de /\ o_owner' = ow /\ o_count' = co
      BY <1>5 DEF osi_impl_sem_give, StaysHeld, GivenCount, GivenTo, GivenDepth, Mine, Inner, GivenHolds
    <2>2. g \in [OsiTasks -> Nat] /\ co \in Nat /\ de \in Nat
      BY <1>1 DEF GivenCount, GivenDepth, Mine, Inner, GivenHolds
    <2>3. o_used = TRUE /\ o_kind \in {"mutex", "recursive"} => Held(g, co, ow, de, o_recursive)
      <3>1. SUFFICES ASSUME o_kind \in {"mutex", "recursive"} PROVE Held(g, co, ow, de, o_recursive)
        OBVIOUS
      <3>2. Held(h_holds, o_count, o_owner, o_depth, o_recursive) /\ h_holds[t] > 0
        BY <1>1, <2>1, <3>1
      <3> QED
        BY <1>1, <3>2, HeldGiven
    <2> HIDE DEF g, co, ow, de
    <2>4. SemKept(o_kind, o_used, g, co, ow, de, o_recursive)
      BY <1>1, <2>2, <2>3 DEF SemKept
    <2> QED
      BY <2>1, <2>4 DEF SemInv
  <1>6. CASE osi_impl_sem_delete
    <2>1. o_used' = FALSE /\ UNCHANGED <<o_kind, h_holds, o_count, o_owner, o_depth, o_recursive>>
      BY <1>6 DEF osi_impl_sem_delete, semVars
    <2>2. SemKept(o_kind, FALSE, h_holds, o_count, o_owner, o_depth, o_recursive)
      BY <1>1 DEF SemKept
    <2> QED
      BY <2>1, <2>2 DEF SemInv
  <1>7. CASE \/ osi_impl_queue_create \/ osi_impl_queue_delete \/ osi_impl_evt_create \/ osi_impl_evt_delete
    <2>1. /\ UNCHANGED <<o_kind, h_holds, o_count, o_owner, o_depth, o_recursive>>
          /\ o_kind \notin SemKinds
      BY <1>7 DEF osi_impl_queue_create, osi_impl_queue_delete, osi_impl_evt_create, osi_impl_evt_delete,
                  semVars, SemKinds
    <2>2. SemKept(o_kind, o_used', h_holds, o_count, o_owner, o_depth, o_recursive)
      BY <1>1, <2>1 DEF SemKept, SemKinds
    <2> QED
      BY <2>1, <2>2 DEF SemInv
  <1>8. CASE UNCHANGED <<o_kind, o_used, semVars>>
    BY <1>8 DEF SemInv, semVars
  <1>9. ASSUME NEW t \in OsiTasks,
               \/ osi_s_semphr_take(t) \/ osi_s_queue_send_call(t) \/ xQueueReceive(t)
               \/ osi_s_event_group_wait_bits(t) \/ wait_on(t) \/ wait_on_ends(t)
               \/ osi_impl_queue_send(t) \/ osi_impl_queue_recv(t) \/ osi_impl_evt_wait(t)
        PROVE  UNCHANGED <<o_kind, o_used, semVars>>
    BY <1>9 DEF osi_s_semphr_take, osi_s_queue_send_call, xQueueReceive, osi_s_event_group_wait_bits, wait_on,
                wait_on_ends, osi_impl_queue_send, osi_impl_queue_recv, osi_impl_evt_wait
  <1>10. ASSUME NEW bits, osi_impl_evt_set(bits) \/ osi_impl_evt_clear(bits)
         PROVE  UNCHANGED <<o_kind, o_used, semVars>>
    BY <1>10 DEF osi_impl_evt_set, osi_impl_evt_clear
  <1>11. osi_impl_queue_send_isr => UNCHANGED <<o_kind, o_used, semVars>>
    BY DEF osi_impl_queue_send_isr
  <1> QED
    BY <1>2, <1>3, <1>4, <1>5, <1>6, <1>7, <1>8, <1>9, <1>10, <1>11 DEF OsiWaitNext

-----------------------------------------------------------------------------

\* What the ring holds, from its head on.
RingOf(buf, head, len) == [i \in 1 .. len |-> buf[(head + i - 1) % OsiQueueLen]]

\* The messages sent and those in the ring: the same, each once.
Matched(line, ring, waited) ==
    /\ line \in Seq(Nat) /\ ring \in Seq(Nat) /\ Len(line) = Len(ring)
    /\ \A i, j \in 1 .. Len(line) : line[i] = line[j] => i = j
    /\ \A i, j \in 1 .. Len(ring) : ring[i] = ring[j] => i = j
    /\ \A i \in 1 .. Len(line) : \E j \in 1 .. Len(ring) : line[i] = ring[j]
    /\ \A j \in 1 .. Len(ring) : \E i \in 1 .. Len(line) : line[i] = ring[j]
    /\ waited = FALSE => line = ring

LEMMA MatchedBack ==
    ASSUME NEW line, NEW ring, NEW waited, Matched(line, ring, waited), NEW m \in Nat,
           \A i \in 1 .. Len(line) : line[i] # m
    PROVE  Matched(Append(line, m), Append(ring, m), waited)
  <1> DEFINE n == Len(line)
             a == Append(line, m)
             b == Append(ring, m)
  <1>1. line \in Seq(Nat) /\ ring \in Seq(Nat) /\ n \in Nat /\ Len(ring) = n
    BY DEF Matched
  <1>2. /\ a \in Seq(Nat) /\ Len(a) = n + 1 /\ a[n + 1] = m /\ \A i \in 1 .. n : a[i] = line[i]
        /\ b \in Seq(Nat) /\ Len(b) = n + 1 /\ b[n + 1] = m /\ \A i \in 1 .. n : b[i] = ring[i]
    BY <1>1
  <1>3. \A j \in 1 .. n : ring[j] # m
    BY <1>1 DEF Matched
  <1>4. waited = FALSE => a = b
    BY DEF Matched
  <1> HIDE DEF a, b, n
  <1>5. \A i \in 1 .. n + 1 : i \in 1 .. n \/ i = n + 1
    BY <1>1
  <1>5a. n + 1 \in 1 .. n + 1 /\ 1 .. n \subseteq 1 .. n + 1
    BY <1>1
  <1>6. \A i, j \in 1 .. n : (line[i] = line[j] => i = j) /\ (ring[i] = ring[j] => i = j)
    BY <1>1 DEF Matched, n
  <1>7. \A i \in 1 .. n : (\E j \in 1 .. n : line[i] = ring[j]) /\ (\E j \in 1 .. n : line[j] = ring[i])
    BY <1>1 DEF Matched, n
  <1>8. \A i, j \in 1 .. n + 1 : a[i] = a[j] => i = j
    BY <1>2, <1>5, <1>6 DEF n
  <1>9. \A i, j \in 1 .. n + 1 : b[i] = b[j] => i = j
    BY <1>2, <1>3, <1>5, <1>6
  <1>10. \A i \in 1 .. n + 1 : \E j \in 1 .. n + 1 : a[i] = b[j]
    BY <1>2, <1>5, <1>5a, <1>7
  <1>11. \A j \in 1 .. n + 1 : \E i \in 1 .. n + 1 : a[i] = b[j]
    BY ZenonT(60), <1>2, <1>5, <1>5a, <1>7
  <1>12. Matched(a, b, waited)
    BY <1>2, <1>4, <1>8, <1>9, <1>10, <1>11 DEF Matched
  <1> QED
    BY <1>12 DEF a, b

\* In front of the others: the same messages, in another order.
LEMMA MatchedFront ==
    ASSUME NEW line, NEW ring, NEW waited, Matched(line, ring, waited), NEW m \in Nat,
           \A i \in 1 .. Len(line) : line[i] # m
    PROVE  Matched(Append(line, m), <<m>> \o ring, TRUE)
  <1> DEFINE n == Len(line)
             a == Append(line, m)
             b == <<m>> \o ring
  <1>1. line \in Seq(Nat) /\ ring \in Seq(Nat) /\ n \in Nat /\ Len(ring) = n
    BY DEF Matched
  <1>2. /\ a \in Seq(Nat) /\ Len(a) = n + 1 /\ a[n + 1] = m /\ \A i \in 1 .. n : a[i] = line[i]
        /\ b \in Seq(Nat) /\ Len(b) = n + 1 /\ b[1] = m /\ \A i \in 1 .. n : b[i + 1] = ring[i]
    BY SMTT(30), <1>1
  <1>3. \A j \in 1 .. n : ring[j] # m
    BY <1>1 DEF Matched
  <1> HIDE DEF a, b, n
  <1>5. \A i \in 1 .. n + 1 : i \in 1 .. n \/ i = n + 1
    BY <1>1
  <1>5a. n + 1 \in 1 .. n + 1 /\ 1 .. n \subseteq 1 .. n + 1 /\ 1 \in 1 .. n + 1
    BY <1>1
  <1>5b. \A j \in 1 .. n + 1 : j = 1 \/ \E i \in 1 .. n : j = i + 1
    <2> TAKE j \in 1 .. n + 1
    <2>1. j = 1 \/ (j - 1 \in 1 .. n /\ j = (j - 1) + 1)
      BY <1>1
    <2> QED
      BY <2>1
  <1>5c. \A i \in 1 .. n : i + 1 \in 1 .. n + 1
    BY <1>1
  <1>6. \A i, j \in 1 .. n : (line[i] = line[j] => i = j) /\ (ring[i] = ring[j] => i = j)
    BY <1>1 DEF Matched, n
  <1>7. \A i \in 1 .. n : (\E j \in 1 .. n : line[i] = ring[j]) /\ (\E j \in 1 .. n : line[j] = ring[i])
    BY <1>1 DEF Matched, n
  <1>8. \A i, j \in 1 .. n + 1 : a[i] = a[j] => i = j
    BY <1>2, <1>5, <1>6 DEF n
  <1>9. ASSUME NEW i \in 1 .. n + 1, NEW j \in 1 .. n + 1, b[i] = b[j] PROVE i = j
    <2>1. CASE i = 1 /\ j = 1
      BY <2>1
    <2>2. CASE i # 1 /\ j # 1
      <3>1. PICK p \in 1 .. n : i = p + 1
        BY <1>5b, <2>2
      <3>2. PICK q \in 1 .. n : j = q + 1
        BY <1>5b, <2>2
      <3> QED
        BY <1>2, <1>6, <1>9, <3>1, <3>2
    <2>3. CASE i = 1 /\ j # 1
      <3>2. PICK q \in 1 .. n : j = q + 1
        BY <1>5b, <2>3
      <3> QED
        BY <1>2, <1>3, <1>9, <2>3, <3>2
    <2>4. CASE i # 1 /\ j = 1
      <3>2. PICK q \in 1 .. n : i = q + 1
        BY <1>5b, <2>4
      <3> QED
        BY <1>2, <1>3, <1>9, <2>4, <3>2
    <2> QED
      BY <2>1, <2>2, <2>3, <2>4
  <1>10. ASSUME NEW i \in 1 .. n + 1 PROVE \E j \in 1 .. n + 1 : a[i] = b[j]
    <2>1. CASE i \in 1 .. n
      <3>1. PICK j \in 1 .. n : line[i] = ring[j]
        BY <1>7, <2>1
      <3> QED
        BY <1>2, <1>5c, <2>1, <3>1
    <2>2. CASE i = n + 1
      BY <1>2, <1>5a, <2>2
    <2> QED
      BY <1>5, <2>1, <2>2
  <1>11. ASSUME NEW j \in 1 .. n + 1 PROVE \E i \in 1 .. n + 1 : a[i] = b[j]
    <2>1. CASE j = 1
      BY <1>2, <1>5a, <2>1
    <2>2. CASE j # 1
      <3>1. PICK q \in 1 .. n : j = q + 1
        BY <1>5b, <2>2
      <3>2. PICK i \in 1 .. n : line[i] = ring[q]
        BY <1>7
      <3> QED
        BY <1>2, <1>5a, <3>1, <3>2
    <2> QED
      BY <2>1, <2>2
  <1>12. Matched(a, b, TRUE)
    BY <1>2, <1>8, <1>9, <1>10, <1>11 DEF Matched
  <1> QED
    BY <1>12 DEF a, b

\* Received: the ring loses its first, the line that message.
LEMMA MatchedTaken ==
    ASSUME NEW line, NEW ring, NEW waited, Matched(line, ring, waited), ring # <<>>
    PROVE  /\ Matched(Without(line, ring[1]), Tail(ring), waited)
           /\ \A i \in 1 .. Len(Without(line, ring[1])) : \E j \in 1 .. Len(line) : Without(line, ring[1])[i] = line[j]
  <1> DEFINE n == Len(line)
             k == CHOOSE k \in 1 .. n : line[k] = ring[1]
             a == Without(line, ring[1])
             b == Tail(ring)
  <1>1. line \in Seq(Nat) /\ ring \in Seq(Nat) /\ n \in Nat /\ Len(ring) = n /\ n >= 1 /\ 1 \in 1 .. n
    BY DEF Matched
  <1>2. k \in 1 .. n /\ line[k] = ring[1]
    BY <1>1 DEF Matched
  <1>3. a = [i \in 1 .. n - 1 |-> line[IF i < k THEN i ELSE i + 1]]
    BY DEF Without
  <1> HIDE DEF k, a, b
  <1>4. \A i \in 1 .. n - 1 : (IF i < k THEN i ELSE i + 1) \in 1 .. n
    BY <1>1, <1>2
  <1>5. a \in [1 .. n - 1 -> Nat]
    <2>1. \A i \in 1 .. n : line[i] \in Nat
      BY <1>1
    <2>2. \A i \in 1 .. n - 1 : line[IF i < k THEN i ELSE i + 1] \in Nat
      BY <1>4, <2>1
    <2> HIDE DEF n
    <2> QED
      BY <1>3, <2>2
  <1>6. a \in Seq(Nat) /\ Len(a) = n - 1 /\ n - 1 \in Nat
    <2> HIDE DEF n
    <2>1. n - 1 \in Nat
      BY <1>1
    <2> QED
      BY <1>5, <2>1
  <1>7. b \in Seq(Nat) /\ Len(b) = n - 1 /\ \A i \in 1 .. n - 1 : b[i] = ring[i + 1]
    BY <1>1 DEF b
  <1>8. \A i \in 1 .. n - 1 : /\ i < k => a[i] = line[i]
                              /\ i >= k => a[i] = line[i + 1]
    BY <1>1, <1>2, <1>3
  <1>9. \A i, j \in 1 .. n : (line[i] = line[j] => i = j) /\ (ring[i] = ring[j] => i = j)
    BY <1>1 DEF Matched, n
  <1>10. \A i \in 1 .. n : (\E j \in 1 .. n : line[i] = ring[j]) /\ (\E j \in 1 .. n : line[j] = ring[i])
    BY <1>1 DEF Matched, n
  <1>11. waited = FALSE => a = b
    <2>1. SUFFICES ASSUME waited = FALSE PROVE a = b
      OBVIOUS
    <2>2. line = ring
      BY <2>1 DEF Matched
    <2>3. k = 1
      BY <1>1, <1>2, <1>9, <2>2
    <2> HIDE DEF n
    <2>4. ASSUME NEW i \in 1 .. n - 1 PROVE a[i] = b[i]
      <3>1. i >= k
        BY <1>1, <2>3
      <3>2. a[i] = line[i + 1] /\ b[i] = ring[i + 1]
        BY <1>7, <1>8, <3>1
      <3> QED
        BY <2>2, <3>2
    <2> QED
      BY <1>6, <1>7, <2>4, SeqEqual
  <1> HIDE DEF n
  <1>12. ASSUME NEW i \in 1 .. n - 1
         PROVE  \E p \in 1 .. n : p # k /\ a[i] = line[p] /\ ((p = i /\ i < k) \/ (p = i + 1 /\ i >= k))
    <2>1. CASE i < k
      <3>1. i \in 1 .. n /\ i # k
        BY <1>1, <1>2, <2>1
      <3>2. a[i] = line[i]
        BY <1>8, <2>1
      <3> QED
        BY <2>1, <3>1, <3>2
    <2>2. CASE i >= k
      <3>1. i + 1 \in 1 .. n /\ i + 1 # k
        BY <1>1, <1>2, <2>2
      <3> QED
        BY <1>8, <2>2, <3>1
    <2> QED
      BY <1>1, <1>2, <2>1, <2>2
  <1>13. ASSUME NEW p \in 1 .. n, p # k PROVE \E i \in 1 .. n - 1 : a[i] = line[p]
    <2>1. CASE p < k
      <3>1. p \in 1 .. n - 1
        BY <1>1, <1>2, <2>1
      <3> QED
        BY <1>8, <2>1, <3>1
    <2>2. CASE p > k
      <3>1. p - 1 \in 1 .. n - 1 /\ p - 1 >= k /\ (p - 1) + 1 = p
        BY <1>1, <1>2, <2>2
      <3> QED
        BY <1>8, <3>1
    <2> QED
      BY <1>1, <1>2, <1>13, <2>1, <2>2
  <1>14. ASSUME NEW i \in 1 .. n - 1, NEW j \in 1 .. n - 1, a[i] = a[j] PROVE i = j
    <2>1. PICK p \in 1 .. n : a[i] = line[p] /\ ((p = i /\ i < k) \/ (p = i + 1 /\ i >= k))
      BY <1>12
    <2>2. PICK q \in 1 .. n : a[j] = line[q] /\ ((q = j /\ j < k) \/ (q = j + 1 /\ j >= k))
      BY <1>12
    <2>3. p = q
      BY <1>9, <1>14, <2>1, <2>2
    <2> QED
      BY <1>2, <2>1, <2>2, <2>3
  <1>15. ASSUME NEW i \in 1 .. n - 1, NEW j \in 1 .. n - 1, b[i] = b[j] PROVE i = j
    <2>1. i + 1 \in 1 .. n /\ j + 1 \in 1 .. n /\ ring[i + 1] = ring[j + 1]
      BY <1>1, <1>7, <1>15
    <2>2. i + 1 = j + 1
      BY <1>9, <2>1
    <2> QED
      BY <2>2
  <1>16. ASSUME NEW i \in 1 .. n - 1 PROVE \E j \in 1 .. n - 1 : a[i] = b[j]
    <2>1. PICK p \in 1 .. n : p # k /\ a[i] = line[p]
      BY <1>12
    <2>2. PICK q \in 1 .. n : line[p] = ring[q]
      BY <1>10
    <2>3. q # 1
      BY <1>2, <1>9, <2>1, <2>2
    <2>4. q - 1 \in 1 .. n - 1 /\ (q - 1) + 1 = q
      BY <1>1, <2>3
    <2> QED
      BY <1>7, <2>1, <2>2, <2>4
  <1>17. ASSUME NEW j \in 1 .. n - 1 PROVE \E i \in 1 .. n - 1 : a[i] = b[j]
    <2>1. j + 1 \in 1 .. n /\ j + 1 # 1
      BY <1>1
    <2>2. PICK p \in 1 .. n : line[p] = ring[j + 1]
      BY <1>10, <2>1
    <2>3. p # k
      BY <1>1, <1>2, <1>9, <2>1, <2>2
    <2> QED
      BY <1>7, <1>13, <2>2, <2>3
  <1>18. Matched(a, b, waited)
    BY <1>6, <1>7, <1>11, <1>14, <1>15, <1>16, <1>17 DEF Matched
  <1>19. \A i \in 1 .. Len(a) : \E j \in 1 .. n : a[i] = line[j]
    BY <1>6, <1>12
  <1> QED
    BY <1>18, <1>19 DEF a, b, n

\* Where the ring's entries lie once its head, its tail or its length has moved.
RingTyped(buf, head, tail, len) ==
    /\ buf \in [0 .. OsiQueueLen - 1 -> Nat] /\ head \in 0 .. OsiQueueLen - 1 /\ tail \in 0 .. OsiQueueLen - 1
    /\ len \in 0 .. OsiQueueLen /\ tail = (head + len) % OsiQueueLen

After(i) == (i + 1) % OsiQueueLen
Before(i) == (i + OsiQueueLen - 1) % OsiQueueLen
Placed(buf, i, m) == [buf EXCEPT ![i] = m]

LEMMA RingIs ==
    ASSUME NEW buf, NEW head, NEW tail, NEW len, RingTyped(buf, head, tail, len)
    PROVE  /\ RingOf(buf, head, len) \in Seq(Nat) /\ Len(RingOf(buf, head, len)) = len
           /\ \A i \in 1 .. len : RingOf(buf, head, len)[i] = buf[(head + i - 1) % OsiQueueLen]
  <1> DEFINE N == OsiQueueLen
  <1>1. N \in Nat /\ N > 0 /\ len \in Nat /\ head \in Nat
    BY DEF RingTyped
  <1>2. \A i \in 1 .. len : (head + i - 1) % N \in 0 .. N - 1
    BY <1>1, ModTurn
  <1> HIDE DEF N
  <1>3. \A i \in 1 .. len : buf[(head + i - 1) % N] \in Nat
    BY <1>2 DEF RingTyped, N
  <1> DEFINE r == RingOf(buf, head, len)
  <1>4. r = [i \in 1 .. len |-> buf[(head + i - 1) % N]]
    BY DEF RingOf, N
  <1> HIDE DEF r
  <1>5. r \in [1 .. len -> Nat] /\ \A i \in 1 .. len : r[i] = buf[(head + i - 1) % N]
    BY <1>3, <1>4
  <1>6. r \in Seq(Nat) /\ Len(r) = len
    BY <1>1, <1>5
  <1> QED
    BY <1>5, <1>6 DEF r, N

LEMMA RingBack ==
    ASSUME NEW buf, NEW head, NEW tail, NEW len, RingTyped(buf, head, tail, len), len < OsiQueueLen, NEW m \in Nat
    PROVE  /\ RingTyped(Placed(buf, tail, m), head, After(tail), len + 1)
           /\ RingOf(Placed(buf, tail, m), head, len + 1) = Append(RingOf(buf, head, len), m)
  <1> DEFINE N == OsiQueueLen
             new == Placed(buf, tail, m)
             to == After(tail)
             r == RingOf(buf, head, len)
             q == RingOf(new, head, len + 1)
  <1>1. /\ N \in Nat /\ N > 0 /\ len \in Nat /\ head \in 0 .. N - 1 /\ len + 1 \in 0 .. N /\ len < N
        /\ buf \in [0 .. N - 1 -> Nat] /\ tail \in 0 .. N - 1 /\ tail = (head + len) % N
    BY DEF RingTyped
  <1>2. new \in [0 .. N - 1 -> Nat] /\ new[tail] = m /\ \A i \in 0 .. N - 1 : i # tail => new[i] = buf[i]
    BY <1>1 DEF Placed
  <1>3. to \in 0 .. N - 1 /\ to = (head + (len + 1)) % N
    <2>1. head + len \in Nat /\ head + len < 2 * N - 1 /\ (head + len) + 1 = head + (len + 1)
      BY <1>1
    <2>2. (((head + len) % N) + 1) % N = ((head + len) + 1) % N
      BY <1>1, <2>1, ModNext
    <2>3. to \in 0 .. N - 1
      BY <1>1, ModTurn DEF After
    <2> QED
      BY <1>1, <2>1, <2>2, <2>3 DEF After
  <1>4. RingTyped(new, head, to, len + 1)
    <2> HIDE DEF new, to
    <2> QED
      BY <1>1, <1>2, <1>3 DEF RingTyped
  <1>5. r \in Seq(Nat) /\ Len(r) = len /\ \A i \in 1 .. len : r[i] = buf[(head + i - 1) % N]
    BY RingIs
  <1>6. q \in Seq(Nat) /\ Len(q) = len + 1 /\ \A i \in 1 .. len + 1 : q[i] = new[(head + i - 1) % N]
    <2> DEFINE l == len + 1
    <2> HIDE DEF new, to, l
    <2>1. RingTyped(new, head, to, l)
      BY <1>4 DEF l
    <2>2. /\ RingOf(new, head, l) \in Seq(Nat) /\ Len(RingOf(new, head, l)) = l
          /\ \A i \in 1 .. l : RingOf(new, head, l)[i] = new[(head + i - 1) % N]
      BY <2>1, RingIs
    <2> QED
      BY <2>2 DEF l
  <1> HIDE DEF new, to, r, q, N
  <1>7. ASSUME NEW i \in 1 .. len PROVE q[i] = r[i]
    <2>1. i - 1 \in 0 .. N - 1 /\ len \in 0 .. N - 1 /\ i - 1 # len /\ head + (i - 1) = head + i - 1
      BY <1>1
    <2>2. (head + (i - 1)) % N # (head + len) % N
      BY <1>1, <2>1, ModApart
    <2>3. (head + i - 1) % N \in 0 .. N - 1 /\ (head + i - 1) % N # tail
      BY <1>1, <2>1, <2>2, ModTurn
    <2>4. i \in 1 .. len + 1
      BY <1>1
    <2> QED
      BY <1>2, <1>5, <1>6, <2>3, <2>4
  <1>8. q[len + 1] = m
    <2>1. len + 1 \in 1 .. len + 1 /\ head + (len + 1) - 1 = head + len
      BY <1>1
    <2> QED
      BY <1>1, <1>2, <1>6, <2>1
  <1>9. Append(r, m) \in Seq(Nat) /\ Len(Append(r, m)) = len + 1
        /\ \A i \in 1 .. len + 1 : Append(r, m)[i] = (IF i = len + 1 THEN m ELSE r[i])
    BY <1>1, <1>5
  <1>10. \A i \in 1 .. len + 1 : q[i] = Append(r, m)[i]
    BY <1>1, <1>7, <1>8, <1>9
  <1>11. q = Append(r, m)
    BY <1>6, <1>9, <1>10, SeqEqual
  <1> QED
    BY <1>4, <1>11 DEF q, r, to, new

LEMMA RingFront ==
    ASSUME NEW buf, NEW head, NEW tail, NEW len, RingTyped(buf, head, tail, len), len < OsiQueueLen, NEW m \in Nat
    PROVE  /\ RingTyped(Placed(buf, Before(head), m), Before(head), tail, len + 1)
           /\ RingOf(Placed(buf, Before(head), m), Before(head), len + 1) = <<m>> \o RingOf(buf, head, len)
  <1> DEFINE f == Before(head)
             N == OsiQueueLen
             new == Placed(buf, f, m)
             r == RingOf(buf, head, len)
             q == RingOf(new, f, len + 1)
  <1>1. /\ N \in Nat /\ N > 0 /\ len \in Nat /\ head \in 0 .. N - 1 /\ len + 1 \in 0 .. N /\ len < N
        /\ buf \in [0 .. N - 1 -> Nat] /\ tail \in 0 .. N - 1 /\ tail = (head + len) % N
    BY DEF RingTyped
  <1> HIDE DEF N
  <1>2. f \in 0 .. N - 1 /\ (head = 0 => f = N - 1) /\ (head > 0 => f = head - 1)
    <2> DEFINE x == head + N - 1
    <2>1. x \in Int /\ x >= 0
      BY <1>1
    <2>2. f = x % N
      BY DEF N, Before
    <2>3. (head = 0 => x < N /\ x = N - 1) /\ (head > 0 => N <= x /\ x < 2 * N /\ x - N = head - 1)
      BY <1>1
    <2> HIDE DEF x
    <2>4. /\ x % N \in 0 .. N - 1
          /\ 0 <= x /\ x < N => x % N = x
          /\ N <= x /\ x < 2 * N => x % N = x - N
      BY <1>1, <2>1, ModTurn
    <2> QED
      BY <2>1, <2>2, <2>3, <2>4
  <1> HIDE DEF f
  <1>3. \A i \in 0 .. N - 1 : (f + (i + 1)) % N = (head + i) % N
    <2> TAKE i \in 0 .. N - 1
    <2>1. CASE head > 0
      <3>1. f + (i + 1) = head + i
        BY <1>1, <1>2, <2>1
      <3> QED
        BY <3>1
    <2>2. CASE head = 0
      <3>1. f + (i + 1) = i + N /\ head + i = i /\ 0 - N <= i /\ i < N /\ i \in Int
        BY <1>1, <1>2, <2>2
      <3>2. (i + N) % N = i % N
        BY <1>1, <3>1, ModAgain
      <3> QED
        BY <3>1, <3>2
    <2> QED
      BY <1>1, <2>1, <2>2
  <1>4. new \in [0 .. N - 1 -> Nat] /\ new[f] = m /\ \A i \in 0 .. N - 1 : i # f => new[i] = buf[i]
    BY <1>1, <1>2 DEF Placed
  <1>5. RingTyped(new, f, tail, len + 1)
    <2>1. tail = (f + (len + 1)) % N
      BY <1>1, <1>3
    <2> HIDE DEF new
    <2> QED
      BY <1>1, <1>2, <1>4, <2>1 DEF RingTyped, N
  <1>6. r \in Seq(Nat) /\ Len(r) = len /\ \A i \in 1 .. len : r[i] = buf[(head + i - 1) % N]
    BY RingIs DEF N
  <1>7. q \in Seq(Nat) /\ Len(q) = len + 1 /\ \A i \in 1 .. len + 1 : q[i] = new[(f + i - 1) % N]
    <2> DEFINE l == len + 1
    <2> HIDE DEF new, l
    <2>1. RingTyped(new, f, tail, l)
      BY <1>5 DEF l
    <2>2. /\ RingOf(new, f, l) \in Seq(Nat) /\ Len(RingOf(new, f, l)) = l
          /\ \A i \in 1 .. l : RingOf(new, f, l)[i] = new[(f + i - 1) % N]
      BY <2>1, RingIs DEF N
    <2> QED
      BY <2>2 DEF l
  <1> HIDE DEF new, r, q
  <1>8. ASSUME NEW i \in 1 .. len PROVE q[i + 1] = r[i]
    <2>1. /\ i - 1 \in 0 .. N - 1 /\ i \in 0 .. N - 1 /\ i # 0 /\ head + (i - 1) = head + i - 1
          /\ f + ((i - 1) + 1) = f + i /\ f + (i + 1) - 1 = f + i /\ i + 1 \in 1 .. len + 1 /\ f + 0 = f
          /\ 0 \in 0 .. N - 1 /\ f + i \in Int
      BY <1>1, <1>2
    <2>2. (f + i) % N = (head + i - 1) % N
      BY <1>3, <2>1
    <2>3. (f + i) % N # (f + 0) % N
      BY <1>1, <1>2, <2>1, ModApart
    <2>4. f % N = f /\ (f + i) % N \in 0 .. N - 1
      <3>1. f \in Int /\ 0 <= f /\ f < N
        BY <1>1, <1>2
      <3>2. f % N = f
        BY <1>1, <3>1, ModTurn
      <3>3. (f + i) % N \in 0 .. N - 1
        BY <1>1, <2>1, ModTurn
      <3> QED
        BY <3>2, <3>3
    <2>5. new[(f + i) % N] = buf[(f + i) % N]
      BY <1>4, <2>1, <2>3, <2>4
    <2>6. q[i + 1] = new[(f + i) % N]
      BY <1>7, <2>1
    <2> QED
      BY <1>6, <2>2, <2>5, <2>6
  <1>9. q[1] = m
    <2>1. 1 \in 1 .. len + 1 /\ f + 1 - 1 = f
      BY <1>1, <1>2
    <2>2. f % N = f
      <3>1. f \in Int /\ 0 <= f /\ f < N
        BY <1>1, <1>2
      <3> QED
        BY <1>1, <3>1, ModTurn
    <2> QED
      BY <1>4, <1>7, <2>1, <2>2
  <1> DEFINE z == <<m>> \o r
  <1>10. /\ z \in Seq(Nat) /\ Len(z) = len + 1 /\ z[1] = m
         /\ \A i \in 1 .. len : z[i + 1] = r[i]
    BY <1>1, <1>6
  <1> HIDE DEF z
  <1>11. ASSUME NEW i \in 1 .. len + 1 PROVE q[i] = z[i]
    <2>1. CASE i = 1
      BY <1>9, <1>10, <2>1
    <2>2. CASE i # 1
      <3>1. i - 1 \in 1 .. len /\ (i - 1) + 1 = i
        BY <1>1, <2>2
      <3> QED
        BY <1>8, <1>10, <3>1
    <2> QED
      BY <2>1, <2>2
  <1>12. q = z
    BY <1>7, <1>10, <1>11, SeqEqual
  <1> QED
    BY <1>5, <1>12 DEF q, r, new, z, f

RingLoses(buf, head, tail, len) ==
    /\ RingTyped(buf, After(head), tail, len - 1)
    /\ RingOf(buf, After(head), len - 1) = Tail(RingOf(buf, head, len))
    /\ RingOf(buf, head, len)[1] = buf[head] /\ RingOf(buf, head, len) # <<>>

LEMMA RingTaken ==
    ASSUME NEW buf, NEW head, NEW tail, NEW len, RingTyped(buf, head, tail, len), len > 0
    PROVE  RingLoses(buf, head, tail, len)
  <1> DEFINE N == OsiQueueLen
             to == After(head)
             r == RingOf(buf, head, len)
             q == RingOf(buf, to, len - 1)
  <1>1. /\ N \in Nat /\ N > 0 /\ len \in Nat /\ len >= 1 /\ head \in 0 .. N - 1 /\ len - 1 \in 0 .. N /\ len <= N
        /\ buf \in [0 .. N - 1 -> Nat] /\ tail \in 0 .. N - 1 /\ tail = (head + len) % N
    BY DEF RingTyped
  <1> HIDE DEF N
  <1>2. to \in 0 .. N - 1 /\ (head = N - 1 => to = 0) /\ (head < N - 1 => to = head + 1)
    <2> DEFINE x == head + 1
    <2>1. to = x % N /\ x \in Int /\ x >= 0
      BY <1>1 DEF N, After
    <2>2. (head < N - 1 => x < N) /\ (head = N - 1 => N <= x /\ x < 2 * N /\ x - N = 0)
      BY <1>1
    <2> HIDE DEF x, to
    <2>3. /\ x % N \in 0 .. N - 1
          /\ 0 <= x /\ x < N => x % N = x
          /\ N <= x /\ x < 2 * N => x % N = x - N
      BY <1>1, <2>1, ModTurn
    <2>4. to \in 0 .. N - 1 /\ (head = N - 1 => to = 0) /\ (head < N - 1 => to = x)
      BY <2>1, <2>2, <2>3
    <2> QED
      BY <2>4 DEF x
  <1>3. \A i \in 0 .. N - 1 : (to + i) % N = (head + (i + 1)) % N
    <2> HIDE DEF to
    <2> TAKE i \in 0 .. N - 1
    <2>1. CASE head < N - 1
      <3>1. to + i = head + (i + 1)
        BY <1>1, <1>2, <2>1
      <3> QED
        BY <3>1
    <2>2. CASE head = N - 1
      <3>1. to + i = i /\ head + (i + 1) = i + N /\ 0 - N <= i /\ i < N /\ i \in Int
        BY <1>1, <1>2, <2>2
      <3>2. (i + N) % N = i % N
        BY <1>1, <3>1, ModAgain
      <3> QED
        BY <3>1, <3>2
    <2> QED
      BY <1>1, <2>1, <2>2
  <1> HIDE DEF to
  <1>4. RingTyped(buf, to, tail, len - 1)
    <2>1. len - 1 \in 0 .. N - 1 /\ (len - 1) + 1 = len
      BY <1>1
    <2>2. tail = (to + (len - 1)) % N
      BY <1>1, <1>3, <2>1
    <2> QED
      BY <1>1, <1>2, <2>2 DEF RingTyped, N
  <1>5. r \in Seq(Nat) /\ Len(r) = len /\ \A i \in 1 .. len : r[i] = buf[(head + i - 1) % N]
    BY RingIs DEF N
  <1>6. q \in Seq(Nat) /\ Len(q) = len - 1 /\ \A i \in 1 .. len - 1 : q[i] = buf[(to + i - 1) % N]
    <2> DEFINE l == len - 1
    <2> HIDE DEF l
    <2>1. RingTyped(buf, to, tail, l)
      BY <1>4 DEF l
    <2>2. /\ RingOf(buf, to, l) \in Seq(Nat) /\ Len(RingOf(buf, to, l)) = l
          /\ \A i \in 1 .. l : RingOf(buf, to, l)[i] = buf[(to + i - 1) % N]
      BY <2>1, RingIs DEF N
    <2> QED
      BY <2>2 DEF l
  <1> HIDE DEF r, q
  <1>7. r[1] = buf[head]
    <2>1. 1 \in 1 .. len /\ head + 1 - 1 = head
      BY <1>1
    <2>2. head % N = head
      BY <1>1, ModTurn
    <2> QED
      BY <1>5, <2>1, <2>2
  <1>8. /\ Tail(r) \in Seq(Nat) /\ Len(Tail(r)) = len - 1 /\ r # <<>>
        /\ \A i \in 1 .. len - 1 : Tail(r)[i] = r[i + 1]
    BY <1>1, <1>5
  <1>9. ASSUME NEW i \in 1 .. len - 1 PROVE q[i] = Tail(r)[i]
    <2>1. /\ i - 1 \in 0 .. N - 1 /\ to + (i - 1) = to + i - 1 /\ (i - 1) + 1 = i /\ i + 1 \in 1 .. len
          /\ head + (i + 1) - 1 = head + i
      BY <1>1, <1>2
    <2>2. (to + i - 1) % N = (head + i) % N
      BY <1>3, <2>1
    <2>3. q[i] = buf[(head + i) % N]
      BY <1>6, <2>2
    <2>4. r[i + 1] = buf[(head + i) % N]
      BY <1>5, <2>1
    <2> QED
      BY <1>8, <2>3, <2>4
  <1>10. q = Tail(r)
    BY <1>6, <1>8, <1>9, SeqEqual
  <1> QED
    BY <1>4, <1>7, <1>8, <1>10 DEF q, r, to, RingLoses

-----------------------------------------------------------------------------

Calls == [op : {"none", "take", "send", "recv", "wait"}, ticks : {0, 1, 2}, msg : Nat \cup SUBSET Bits,
          first : BOOLEAN, at : {"idle", "attempt", "register", "asleep"}]

\* A message in hand is a new one: not in the line, and no other task's.
Pending(pc, line, sent) ==
    /\ \A t \in OsiTasks : pc[t].op = "send" =>
           pc[t].msg \in 1 .. sent /\ \A i \in 1 .. Len(line) : line[i] # pc[t].msg
    /\ \A t, u \in OsiTasks : pc[t].op = "send" /\ pc[u].op = "send" /\ pc[t].msg = pc[u].msg => t = u
    /\ \A i \in 1 .. Len(line) : line[i] \in 1 .. sent

\* A call that goes on with its message, or ends.
GoesOn(c, new) == new \in Calls /\ (new.op = "send" => c.op = "send" /\ new.msg = c.msg)

LEMMA PendingGoesOn ==
    ASSUME NEW pc \in [OsiTasks -> Calls], NEW line, NEW sent, Pending(pc, line, sent), NEW t \in OsiTasks,
           NEW new, GoesOn(pc[t], new)
    PROVE  [pc EXCEPT ![t] = new] \in [OsiTasks -> Calls] /\ Pending([pc EXCEPT ![t] = new], line, sent)
  <1> DEFINE K == [pc EXCEPT ![t] = new]
  <1>1. K \in [OsiTasks -> Calls] /\ K[t] = new /\ \A u \in OsiTasks : u # t => K[u] = pc[u]
    BY DEF GoesOn
  <1> HIDE DEF K
  <1>2. \A u \in OsiTasks : K[u].op = "send" => pc[u].op = "send" /\ K[u].msg = pc[u].msg
    BY <1>1 DEF GoesOn
  <1>3. Pending(K, line, sent)
    BY <1>2 DEF Pending
  <1> QED
    BY <1>1, <1>3 DEF K

LEMMA PendingSent ==
    ASSUME NEW pc \in [OsiTasks -> Calls], NEW line \in Seq(Nat), NEW sent \in Nat, Pending(pc, line, sent),
           NEW t \in OsiTasks, pc[t].op = "send"
    PROVE  /\ [pc EXCEPT ![t] = NoCall] \in [OsiTasks -> Calls] /\ pc[t].msg \in Nat
           /\ Pending([pc EXCEPT ![t] = NoCall], Append(line, pc[t].msg), sent)
           /\ \A i \in 1 .. Len(line) : line[i] # pc[t].msg
  <1> DEFINE K == [pc EXCEPT ![t] = NoCall]
             m == pc[t].msg
             n == Len(line)
             a == Append(line, m)
  <1>1. NoCall \in Calls /\ NoCall.op = "none"
    BY DEF NoCall, Calls
  <1>2. K \in [OsiTasks -> Calls] /\ K[t] = NoCall /\ \A u \in OsiTasks : u # t => K[u] = pc[u]
    BY <1>1
  <1>3. m \in 1 .. sent /\ \A i \in 1 .. n : line[i] # m
    BY DEF Pending
  <1>4. n \in Nat /\ m \in Nat
    BY <1>3
  <1>5. Len(a) = n + 1 /\ a[n + 1] = m /\ \A i \in 1 .. n : a[i] = line[i]
    BY <1>4
  <1>6. \A i \in 1 .. n + 1 : i \in 1 .. n \/ i = n + 1
    BY <1>4
  <1> HIDE DEF K, a, n, m
  <1>7. ASSUME NEW u \in OsiTasks, K[u].op = "send"
        PROVE  u # t /\ K[u] = pc[u] /\ pc[u].op = "send"
    BY <1>1, <1>2, <1>7
  <1>8. ASSUME NEW u \in OsiTasks, K[u].op = "send"
        PROVE  K[u].msg \in 1 .. sent /\ \A i \in 1 .. n + 1 : a[i] # K[u].msg
    <2>1. u # t /\ K[u] = pc[u] /\ pc[u].op = "send"
      BY <1>7, <1>8
    <2>2. K[u].msg # m
      BY <2>1 DEF Pending, m
    <2>3. K[u].msg \in 1 .. sent /\ \A i \in 1 .. n : line[i] # K[u].msg
      BY <2>1 DEF Pending, n
    <2> QED
      BY <1>5, <1>6, <2>2, <2>3
  <1>9. \A u, v \in OsiTasks : K[u].op = "send" /\ K[v].op = "send" /\ K[u].msg = K[v].msg => u = v
    BY <1>7 DEF Pending
  <1>10. \A i \in 1 .. n + 1 : a[i] \in 1 .. sent
    <2>1. \A i \in 1 .. n : line[i] \in 1 .. sent
      BY DEF Pending, n
    <2> QED
      BY <1>3, <1>5, <1>6, <2>1
  <1>11. Pending(K, a, sent)
    BY <1>5, <1>8, <1>9, <1>10 DEF Pending
  <1> QED
    BY <1>2, <1>3, <1>4, <1>11 DEF K, a, m, n

\* An interrupt's message is newer than every other.
LEMMA PendingIsr ==
    ASSUME NEW pc \in [OsiTasks -> Calls], NEW line \in Seq(Nat), NEW sent \in Nat, Pending(pc, line, sent)
    PROVE  /\ Pending(pc, Append(line, sent + 1), sent + 1)
           /\ \A i \in 1 .. Len(line) : line[i] # sent + 1
  <1> DEFINE n == Len(line)
             m == sent + 1
             a == Append(line, m)
  <1>1. n \in Nat /\ m \in Nat /\ m \notin 1 .. sent /\ 1 .. sent \subseteq 1 .. m /\ m \in 1 .. m
    OBVIOUS
  <1>2. Len(a) = n + 1 /\ a[n + 1] = m /\ \A i \in 1 .. n : a[i] = line[i]
    BY <1>1
  <1>3. \A i \in 1 .. n + 1 : i \in 1 .. n \/ i = n + 1
    BY <1>1
  <1>4. \A i \in 1 .. n : line[i] \in 1 .. sent
    BY DEF Pending
  <1> HIDE DEF a, n, m
  <1>5. \A i \in 1 .. n + 1 : a[i] \in 1 .. m
    BY <1>1, <1>2, <1>3, <1>4
  <1>6. ASSUME NEW u \in OsiTasks, pc[u].op = "send"
        PROVE  pc[u].msg \in 1 .. m /\ \A i \in 1 .. n + 1 : a[i] # pc[u].msg
    <2>1. pc[u].msg \in 1 .. sent /\ \A i \in 1 .. n : line[i] # pc[u].msg
      BY <1>6 DEF Pending, n
    <2> QED
      BY <1>1, <1>2, <1>3, <2>1
  <1>7. Pending(pc, a, m)
    BY <1>2, <1>5, <1>6 DEF Pending
  <1>8. \A i \in 1 .. n : line[i] # m
    BY <1>1, <1>4
  <1> QED
    BY <1>7, <1>8 DEF a, n, m

LEMMA PendingCall ==
    ASSUME NEW pc \in [OsiTasks -> Calls], NEW line \in Seq(Nat), NEW sent \in Nat, Pending(pc, line, sent),
           NEW t \in OsiTasks, NEW new \in Calls, new.op = "send", new.msg = sent + 1
    PROVE  [pc EXCEPT ![t] = new] \in [OsiTasks -> Calls] /\ Pending([pc EXCEPT ![t] = new], line, sent + 1)
  <1> DEFINE K == [pc EXCEPT ![t] = new]
             m == sent + 1
             n == Len(line)
  <1>1. K \in [OsiTasks -> Calls] /\ K[t] = new /\ \A u \in OsiTasks : u # t => K[u] = pc[u]
    OBVIOUS
  <1>2. m \notin 1 .. sent /\ 1 .. sent \subseteq 1 .. m /\ m \in 1 .. m
    OBVIOUS
  <1>3. \A i \in 1 .. n : line[i] \in 1 .. sent
    BY DEF Pending
  <1>3a. new.msg = m
    OBVIOUS
  <1> HIDE DEF K, m
  <1>4. ASSUME NEW u \in OsiTasks, K[u].op = "send"
        PROVE  K[u].msg \in 1 .. m /\ \A i \in 1 .. n : line[i] # K[u].msg
    <2>1. CASE u = t
      BY <1>1, <1>2, <1>3, <1>3a, <2>1
    <2>2. CASE u # t
      BY <1>1, <1>2, <1>4, <2>2 DEF Pending
    <2> QED
      BY <2>1, <2>2
  <1>5. ASSUME NEW u \in OsiTasks, NEW v \in OsiTasks, K[u].op = "send", K[v].op = "send", K[u].msg = K[v].msg
        PROVE  u = v
    <2>1. CASE u # t /\ v # t
      BY <1>1, <1>5, <2>1 DEF Pending
    <2>2. CASE u = t /\ v # t
      <3>1. pc[v].msg \in 1 .. sent /\ K[v] = pc[v]
        BY <1>1, <1>5, <2>2 DEF Pending
      <3> QED
        BY <1>1, <1>2, <1>3a, <1>5, <2>2, <3>1
    <2>3. CASE u # t /\ v = t
      <3>1. pc[u].msg \in 1 .. sent /\ K[u] = pc[u]
        BY <1>1, <1>5, <2>3 DEF Pending
      <3> QED
        BY <1>1, <1>2, <1>3a, <1>5, <2>3, <3>1
    <2> QED
      BY <2>1, <2>2, <2>3
  <1>6. Pending(K, line, m)
    BY <1>2, <1>3, <1>4, <1>5 DEF Pending
  <1> QED
    BY <1>1, <1>6 DEF K, m

LEMMA PendingTaken ==
    ASSUME NEW pc, NEW line, NEW sent, Pending(pc, line, sent), NEW new,
           \A i \in 1 .. Len(new) : \E j \in 1 .. Len(line) : new[i] = line[j]
    PROVE  Pending(pc, new, sent)
  BY DEF Pending

QueueKept(buf, head, tail, len, line, waited, sent, pc) ==
    /\ RingTyped(buf, head, tail, len) /\ Matched(line, RingOf(buf, head, len), waited)
    /\ Pending(pc, line, sent)

QueueInv ==
    o_kind = "queue" =>
        /\ o_used \in BOOLEAN /\ o_buf \in [0 .. OsiQueueLen - 1 -> Nat] /\ h_sent \in Nat
        /\ h_waited \in BOOLEAN /\ o_pc \in [OsiTasks -> Calls]
        /\ o_used = TRUE => QueueKept(o_buf, o_head, o_tail, o_len, h_line, h_waited, h_sent, o_pc)
        /\ o_used = FALSE => \A t \in OsiTasks : o_pc[t] = NoCall

\* A call of any kind that goes on or ends without touching the ring.
LEMMA CallGoesOn ==
    ASSUME QueueInv, NEW t \in OsiTasks, o_pc[t] # NoCall, NEW new, o_kind = "queue" => GoesOn(o_pc[t], new),
           o_pc' = [o_pc EXCEPT ![t] = new], UNCHANGED <<o_kind, o_used, ringVars>>
    PROVE  QueueInv'
  <1>1. SUFFICES ASSUME o_kind = "queue" PROVE QueueInv'
    BY DEF QueueInv
  <1>2. o_used = TRUE
    BY <1>1 DEF QueueInv
  <1>3. /\ o_buf \in [0 .. OsiQueueLen - 1 -> Nat] /\ h_sent \in Nat /\ h_waited \in BOOLEAN
        /\ o_pc \in [OsiTasks -> Calls]
        /\ QueueKept(o_buf, o_head, o_tail, o_len, h_line, h_waited, h_sent, o_pc)
    BY <1>1, <1>2 DEF QueueInv
  <1> DEFINE K == [o_pc EXCEPT ![t] = new]
  <1>4. K \in [OsiTasks -> Calls] /\ Pending(K, h_line, h_sent)
    BY <1>1, <1>3, PendingGoesOn DEF QueueKept
  <1> HIDE DEF K
  <1>5. QueueKept(o_buf, o_head, o_tail, o_len, h_line, h_waited, h_sent, K)
    BY <1>3, <1>4 DEF QueueKept
  <1>6. o_pc' = K
    BY DEF K
  <1> QED
    BY <1>1, <1>2, <1>3, <1>4, <1>5, <1>6 DEF QueueInv, ringVars

AgainOf(c) == CASE c.first               -> [c EXCEPT !.first = FALSE]
                [] ~c.first /\ c.ticks = 0 -> NoCall
                [] OTHER                 -> [c EXCEPT !.at = "register"]

LEMMA AgainIs ==
    ASSUME NEW c \in Calls
    PROVE  GoesOn(c, AgainOf(c)) /\ GoesOn(c, NoCall)
  <1>1. NoCall \in Calls /\ NoCall.op = "none"
    BY DEF NoCall, Calls
  <1>2. GoesOn(c, NoCall)
    BY <1>1 DEF GoesOn
  <1>3. GoesOn(c, [c EXCEPT !.first = FALSE]) /\ GoesOn(c, [c EXCEPT !.at = "register"])
    BY DEF GoesOn, Calls
  <1>4. AgainOf(c) \in {NoCall, [c EXCEPT !.first = FALSE], [c EXCEPT !.at = "register"]}
    <2>1. CASE c.first
      BY <2>1 DEF AgainOf
    <2>2. CASE ~c.first /\ c.ticks = 0
      BY <2>2 DEF AgainOf
    <2>3. CASE ~c.first /\ ~(c.ticks = 0)
      BY <2>3 DEF AgainOf
    <2> QED
      BY <2>1, <2>2, <2>3
  <1> QED
    BY <1>2, <1>3, <1>4

\* A task's calls other than a send that finds room and a receive that finds a message.
LEMMA CallSteps ==
    ASSUME QueueInv, NEW t \in OsiTasks, UNCHANGED <<o_kind, o_used, ringVars>>,
           \/ o_pc[t].op # "none" /\ (Again(t) \/ Returns(t))
           \/ wait_on(t) \/ wait_on_ends(t)
    PROVE  QueueInv'
  <1>1. SUFFICES ASSUME o_kind = "queue" PROVE QueueInv'
    BY DEF QueueInv
  <1>2. o_pc \in [OsiTasks -> Calls] /\ o_pc[t] \in Calls /\ o_pc[t] # NoCall
    <2>1. NoCall.op = "none" /\ NoCall.at = "idle"
      BY DEF NoCall
    <2> QED
      BY <1>1, <2>1 DEF QueueInv, wait_on, wait_on_ends
  <1>3. CASE o_pc[t].op # "none" /\ Again(t)
    <2>1. o_pc' = [o_pc EXCEPT ![t] = AgainOf(o_pc[t])]
      BY <1>3, Zenon DEF Again, AgainOf
    <2> QED
      BY <1>2, <1>3, <2>1, AgainIs, CallGoesOn
  <1>4. CASE o_pc[t].op # "none" /\ Returns(t)
    <2>1. o_pc' = [o_pc EXCEPT ![t] = NoCall]
      BY <1>4 DEF Returns
    <2> QED
      BY <1>2, <1>4, <2>1, AgainIs, CallGoesOn
  <1>5. CASE wait_on(t)
    <2> DEFINE new == [o_pc[t] EXCEPT !.at = "asleep"]
    <2>1. o_pc' = [o_pc EXCEPT ![t] = new] /\ o_pc[t].at = "register"
      BY <1>2, <1>5 DEF wait_on
    <2>2. GoesOn(o_pc[t], new)
      BY <1>2 DEF GoesOn, Calls
    <2> HIDE DEF new
    <2> QED
      BY <1>2, <2>1, <2>2, CallGoesOn
  <1>6. CASE wait_on_ends(t)
    <2> DEFINE new == [o_pc[t] EXCEPT !.at = "attempt", !.ticks = IF @ = MAX_DELAY THEN @ ELSE 0]
    <2>1. o_pc' = [o_pc EXCEPT ![t] = new] /\ o_pc[t].at = "asleep"
      BY <1>2, <1>6 DEF wait_on_ends
    <2>2. GoesOn(o_pc[t], new)
      BY <1>2 DEF GoesOn, Calls
    <2> HIDE DEF new
    <2> QED
      BY <1>2, <2>1, <2>2, CallGoesOn
  <1> QED
    BY <1>3, <1>4, <1>5, <1>6

LEMMA SendKeeps ==
    ASSUME QueueInv, NEW t \in OsiTasks, osi_impl_queue_send(t)
    PROVE  QueueInv'
  <1>1. SUFFICES ASSUME o_kind = "queue" PROVE QueueInv'
    BY DEF QueueInv, osi_impl_queue_send
  <1> DEFINE c == o_pc[t]
             m == o_pc[t].msg
             front == ~c.first /\ c.ticks # 0
             K == [o_pc EXCEPT ![t] = NoCall]
  <1>2. /\ c.op = "send" /\ h_waited' = (h_waited \/ front)
        /\ UNCHANGED <<o_kind, o_used, semVars, h_sent, o_bits, o_senders>>
    BY DEF osi_impl_queue_send, Here
  <1>3. o_used = TRUE
    <2>1. NoCall.op = "none"
      BY DEF NoCall
    <2> QED
      BY <1>1, <1>2, <2>1 DEF QueueInv
  <1>4. /\ o_buf \in [0 .. OsiQueueLen - 1 -> Nat] /\ h_sent \in Nat /\ h_waited \in BOOLEAN
        /\ o_pc \in [OsiTasks -> Calls] /\ c \in Calls
        /\ RingTyped(o_buf, o_head, o_tail, o_len) /\ Matched(h_line, RingOf(o_buf, o_head, o_len), h_waited)
        /\ Pending(o_pc, h_line, h_sent) /\ h_line \in Seq(Nat)
    BY <1>1, <1>3 DEF QueueInv, QueueKept, Matched
  <1>5. front \in BOOLEAN /\ h_waited' \in BOOLEAN
    BY <1>2, <1>4 DEF Calls
  <1>6. CASE ~(o_len < OsiQueueLen)
    <2>1. Again(t) /\ UNCHANGED <<o_head, o_tail, o_buf, o_len, h_line>>
      BY <1>6 DEF osi_impl_queue_send
    <2>2. o_pc' = [o_pc EXCEPT ![t] = AgainOf(o_pc[t])]
      BY <2>1, Zenon DEF Again, AgainOf
    <2> DEFINE J == [o_pc EXCEPT ![t] = AgainOf(o_pc[t])]
    <2>3. J \in [OsiTasks -> Calls] /\ Pending(J, h_line, h_sent)
      BY <1>4, AgainIs, PendingGoesOn
    <2> HIDE DEF J
    <2>4. Matched(h_line, RingOf(o_buf, o_head, o_len), h_waited')
      BY <1>2, <1>4, <1>5 DEF Matched
    <2>5. QueueKept(o_buf, o_head, o_tail, o_len, h_line, h_waited', h_sent, J)
      BY <1>4, <2>3, <2>4 DEF QueueKept
    <2>6. o_pc' = J
      BY <2>2 DEF J
    <2> QED
      BY <1>1, <1>2, <1>3, <1>4, <1>5, <2>1, <2>3, <2>5, <2>6 DEF QueueInv
  <1>7. CASE o_len < OsiQueueLen
    <2>1. /\ o_pc' = K /\ o_len' = o_len + 1 /\ h_line' = Append(h_line, m)
          /\ o_head' = (IF front THEN FrontSlot ELSE o_head)
          /\ o_tail' = (IF front THEN o_tail ELSE (o_tail + 1) % OsiQueueLen)
          /\ o_buf' = [o_buf EXCEPT ![IF front THEN FrontSlot ELSE o_tail] = m]
      BY <1>7 DEF osi_impl_queue_send, Returns
    <2>2. /\ K \in [OsiTasks -> Calls] /\ m \in Nat /\ Pending(K, Append(h_line, m), h_sent)
          /\ \A i \in 1 .. Len(h_line) : h_line[i] # m
      BY <1>2, <1>4, PendingSent
    <2> HIDE DEF K, m
    <2>3. CASE front = TRUE
      <3> DEFINE f == Before(o_head)
                 b == Placed(o_buf, f, m)
      <3>1. FrontSlot = f
        BY DEF FrontSlot, Before
      <3>2. RingTyped(b, f, o_tail, o_len + 1) /\ RingOf(b, f, o_len + 1) = <<m>> \o RingOf(o_buf, o_head, o_len)
        BY <1>4, <1>7, <2>2, RingFront
      <3>3. Matched(Append(h_line, m), <<m>> \o RingOf(o_buf, o_head, o_len), TRUE)
        BY <1>4, <2>2, MatchedFront
      <3>4. o_buf' = b /\ o_head' = f /\ o_tail' = o_tail /\ h_waited' = TRUE
        BY <1>2, <2>1, <2>3, <3>1 DEF Placed
      <3> HIDE DEF b, f, front
      <3>5. b \in [0 .. OsiQueueLen - 1 -> Nat]
        BY <3>2 DEF RingTyped
      <3>6. QueueKept(b, f, o_tail, o_len + 1, Append(h_line, m), TRUE, h_sent, K)
        BY <2>2, <3>2, <3>3 DEF QueueKept
      <3> QED
        BY <1>1, <1>2, <1>3, <1>4, <2>1, <2>2, <3>4, <3>5, <3>6 DEF QueueInv
    <2>4. CASE front = FALSE
      <3> DEFINE to == After(o_tail)
                 b == Placed(o_buf, o_tail, m)
      <3>2. RingTyped(b, o_head, to, o_len + 1) /\ RingOf(b, o_head, o_len + 1) = Append(RingOf(o_buf, o_head, o_len), m)
        BY <1>4, <1>7, <2>2, RingBack
      <3>3. Matched(Append(h_line, m), Append(RingOf(o_buf, o_head, o_len), m), h_waited)
        BY <1>4, <2>2, MatchedBack
      <3>4. o_buf' = b /\ o_head' = o_head /\ o_tail' = to /\ h_waited' = h_waited
        BY <1>2, <1>4, <2>1, <2>4 DEF Placed, After
      <3> HIDE DEF b, to, front
      <3>5. b \in [0 .. OsiQueueLen - 1 -> Nat]
        BY <3>2 DEF RingTyped
      <3>6. QueueKept(b, o_head, to, o_len + 1, Append(h_line, m), h_waited, h_sent, K)
        BY <2>2, <3>2, <3>3 DEF QueueKept
      <3> QED
        BY <1>1, <1>2, <1>3, <1>4, <2>1, <2>2, <3>4, <3>5, <3>6 DEF QueueInv
    <2> QED
      BY <1>5, <2>3, <2>4
  <1> QED
    BY <1>6, <1>7

LEMMA SendIsrKeeps ==
    ASSUME QueueInv, osi_impl_queue_send_isr
    PROVE  QueueInv'
  <1> DEFINE m == h_sent + 1
             to == After(o_tail)
             b == Placed(o_buf, o_tail, m)
  <1>1. /\ o_kind = "queue" /\ o_used /\ h_sent' = m /\ o_len < OsiQueueLen /\ o_buf' = b /\ o_len' = o_len + 1
        /\ o_tail' = to /\ h_line' = Append(h_line, m)
        /\ UNCHANGED <<o_kind, o_used, o_head, h_waited, o_pc>>
    BY DEF osi_impl_queue_send_isr, Placed, After
  <1>2. /\ o_used = TRUE /\ h_sent \in Nat /\ h_waited \in BOOLEAN /\ m \in Nat /\ o_pc \in [OsiTasks -> Calls]
        /\ RingTyped(o_buf, o_head, o_tail, o_len) /\ Matched(h_line, RingOf(o_buf, o_head, o_len), h_waited)
        /\ Pending(o_pc, h_line, h_sent) /\ h_line \in Seq(Nat)
    BY SMTT(30), <1>1 DEF QueueInv, QueueKept, Matched
  <1>3. Pending(o_pc, Append(h_line, m), m) /\ \A i \in 1 .. Len(h_line) : h_line[i] # m
    BY <1>2, PendingIsr
  <1> HIDE DEF m
  <1>4. RingTyped(b, o_head, to, o_len + 1) /\ RingOf(b, o_head, o_len + 1) = Append(RingOf(o_buf, o_head, o_len), m)
    BY <1>1, <1>2, RingBack
  <1>5. Matched(Append(h_line, m), Append(RingOf(o_buf, o_head, o_len), m), h_waited)
    BY <1>2, <1>3, MatchedBack
  <1> HIDE DEF b, to
  <1>6. b \in [0 .. OsiQueueLen - 1 -> Nat]
    BY <1>4 DEF RingTyped
  <1>7. QueueKept(b, o_head, to, o_len + 1, Append(h_line, m), h_waited, m, o_pc)
    BY <1>3, <1>4, <1>5 DEF QueueKept
  <1> QED
    BY <1>1, <1>2, <1>6, <1>7 DEF QueueInv

LEMMA RecvKeeps ==
    ASSUME QueueInv, NEW t \in OsiTasks, osi_impl_queue_recv(t)
    PROVE  QueueInv'
  <1>1. SUFFICES ASSUME o_kind = "queue" PROVE QueueInv'
    BY DEF QueueInv, osi_impl_queue_recv
  <1>2. /\ o_pc[t].op = "recv" /\ UNCHANGED <<o_kind, o_used, o_buf, o_tail, h_waited, h_sent>>
    BY DEF osi_impl_queue_recv, Here
  <1>3. CASE ~(o_len > 0)
    <2>1. (Again(t) \/ Returns(t)) /\ UNCHANGED <<o_kind, o_used, ringVars>>
      BY <1>2, <1>3 DEF osi_impl_queue_recv, ringVars
    <2> QED
      BY <1>2, <2>1, CallSteps
  <1>4. CASE o_len > 0
    <2> DEFINE K == [o_pc EXCEPT ![t] = NoCall]
               r == RingOf(o_buf, o_head, o_len)
               to == After(o_head)
               a == Without(h_line, r[1])
    <2>1. /\ o_head' = to /\ o_len' = o_len - 1 /\ h_line' = Without(h_line, o_buf[o_head]) /\ o_pc' = K
      BY <1>4 DEF osi_impl_queue_recv, Returns, After
    <2>2. o_used = TRUE
      <3>1. NoCall.op = "none"
        BY DEF NoCall
      <3> QED
        BY <1>1, <1>2, <3>1 DEF QueueInv
    <2>3. /\ o_buf \in [0 .. OsiQueueLen - 1 -> Nat] /\ h_sent \in Nat /\ h_waited \in BOOLEAN
          /\ o_pc \in [OsiTasks -> Calls] /\ o_pc[t] \in Calls
          /\ RingTyped(o_buf, o_head, o_tail, o_len) /\ Matched(h_line, r, h_waited)
          /\ Pending(o_pc, h_line, h_sent)
      BY <1>1, <2>2 DEF QueueInv, QueueKept
    <2>4. /\ RingTyped(o_buf, to, o_tail, o_len - 1) /\ RingOf(o_buf, to, o_len - 1) = Tail(r)
          /\ r[1] = o_buf[o_head] /\ r # <<>>
      <3>1. RingLoses(o_buf, o_head, o_tail, o_len)
        BY <1>4, <2>3, RingTaken
      <3> QED
        BY <3>1 DEF RingLoses
    <2> HIDE DEF r, to
    <2>5. /\ Matched(a, Tail(r), h_waited)
          /\ \A i \in 1 .. Len(a) : \E j \in 1 .. Len(h_line) : a[i] = h_line[j]
      BY <2>3, <2>4, MatchedTaken
    <2>6. K \in [OsiTasks -> Calls] /\ Pending(K, h_line, h_sent)
      BY <2>3, AgainIs, PendingGoesOn
    <2>7. h_line' = a
      BY <2>1, <2>4
    <2> HIDE DEF K, a
    <2>8. Pending(K, a, h_sent)
      BY <2>5, <2>6, PendingTaken
    <2>9. QueueKept(o_buf, to, o_tail, o_len - 1, a, h_waited, h_sent, K)
      BY <2>4, <2>5, <2>8 DEF QueueKept
    <2> QED
      BY <1>1, <1>2, <2>1, <2>2, <2>3, <2>6, <2>7, <2>9 DEF QueueInv
  <1> QED
    BY <1>3, <1>4

LEMMA QueueStep ==
    ASSUME QueueInv, OsiWaitNext
    PROVE  QueueInv'
  <1>1. CASE osi_impl_queue_create
    <2>1. /\ o_kind = "queue" /\ o_kind' = "queue" /\ o_used' = TRUE /\ o_head' = 0 /\ o_tail' = 0 /\ o_len' = 0
          /\ h_line' = <<>> /\ h_waited' = FALSE /\ UNCHANGED <<o_buf, o_pc, h_sent>>
          /\ \A t \in OsiTasks : o_pc[t] = NoCall
      BY <1>1 DEF osi_impl_queue_create
    <2>2. o_buf \in [0 .. OsiQueueLen - 1 -> Nat] /\ h_sent \in Nat /\ o_pc \in [OsiTasks -> Calls]
      BY <2>1 DEF QueueInv
    <2>3. RingTyped(o_buf, 0, 0, 0)
      <3>1. (0 + 0) % OsiQueueLen = 0
        BY ModTurn
      <3> QED
        BY <2>2, <3>1 DEF RingTyped
    <2>4. RingOf(o_buf, 0, 0) \in Seq(Nat) /\ Len(RingOf(o_buf, 0, 0)) = 0
      BY <2>3, RingIs
    <2>5. Matched(<<>>, RingOf(o_buf, 0, 0), FALSE)
      <3>1. RingOf(o_buf, 0, 0) = <<>>
        BY <2>4
      <3>2. <<>> \in Seq(Nat) /\ Len(<<>>) = 0 /\ 1 .. 0 = {}
        OBVIOUS
      <3>3. Matched(<<>>, <<>>, FALSE)
        BY <3>2 DEF Matched
      <3> QED
        BY <3>1, <3>3
    <2>6. Pending(o_pc, <<>>, h_sent)
      BY <2>1 DEF Pending, NoCall
    <2>7. QueueKept(o_buf, 0, 0, 0, <<>>, FALSE, h_sent, o_pc)
      BY <2>3, <2>5, <2>6 DEF QueueKept
    <2> QED
      BY <2>1, <2>2, <2>7 DEF QueueInv
  <1>2. CASE osi_impl_queue_delete
    <2>1. /\ o_kind = "queue" /\ o_kind' = "queue" /\ o_used' = FALSE
          /\ UNCHANGED <<o_buf, h_waited, h_sent, o_pc>> /\ \A t \in OsiTasks : o_pc[t] = NoCall
      BY <1>2 DEF osi_impl_queue_delete, ringVars
    <2> QED
      BY <2>1 DEF QueueInv
  <1>3. CASE o_kind' # "queue"
    BY <1>3 DEF QueueInv
  <1>4. CASE UNCHANGED <<o_kind, o_used, ringVars, o_pc>>
    BY <1>4 DEF QueueInv, ringVars
  <1>5. ASSUME NEW kind, NEW init, osi_impl_sem_create(kind, init) PROVE o_kind' # "queue"
    BY <1>5 DEF osi_impl_sem_create, SemKinds
  <1>6. osi_impl_recursive_mutex_create \/ osi_impl_sem_delete \/ osi_impl_evt_create \/ osi_impl_evt_delete
            => o_kind' # "queue"
    BY DEF osi_impl_recursive_mutex_create, osi_impl_sem_delete, osi_impl_evt_create, osi_impl_evt_delete, SemKinds
  <1>7. ASSUME NEW bits, osi_impl_evt_set(bits) \/ osi_impl_evt_clear(bits) PROVE o_kind' # "queue"
    BY <1>7 DEF osi_impl_evt_set, osi_impl_evt_clear
  <1>8. ASSUME NEW t \in OsiTasks, osi_s_semphr_take(t) \/ osi_s_event_group_wait_bits(t) PROVE o_kind' # "queue"
    BY <1>8 DEF osi_s_semphr_take, osi_s_event_group_wait_bits, SemKinds
  <1>9. ASSUME NEW t \in OsiTasks, osi_impl_sem_give(t) PROVE UNCHANGED <<o_kind, o_used, ringVars, o_pc>>
    BY <1>9 DEF osi_impl_sem_give
  <1>10. ASSUME NEW t \in OsiTasks, osi_s_queue_send_call(t) PROVE QueueInv'
    <2>1. PICK ticks \in {0, 1, MAX_DELAY}, first \in BOOLEAN :
              /\ o_kind = "queue" /\ h_sent' = h_sent + 1 /\ Enter(t, "send", ticks, h_sent + 1, first)
              /\ UNCHANGED <<o_kind, o_used, o_buf, o_head, o_tail, o_len, h_line, h_waited>>
      BY <1>10 DEF osi_s_queue_send_call
    <2> DEFINE m == h_sent + 1
               new == [op |-> "send", ticks |-> ticks, msg |-> m, first |-> first, at |-> "attempt"]
               K == [o_pc EXCEPT ![t] = new]
    <2>2. o_used /\ o_pc' = K
      BY <2>1 DEF Enter
    <2>3. /\ o_used = TRUE /\ o_buf \in [0 .. OsiQueueLen - 1 -> Nat] /\ h_sent \in Nat /\ h_waited \in BOOLEAN
          /\ o_pc \in [OsiTasks -> Calls]
          /\ QueueKept(o_buf, o_head, o_tail, o_len, h_line, h_waited, h_sent, o_pc) /\ h_line \in Seq(Nat)
          /\ Pending(o_pc, h_line, h_sent)
      BY <2>1, <2>2 DEF QueueInv, QueueKept, Matched
    <2>4. new \in Calls /\ new.op = "send" /\ new.msg = m /\ m \in Nat
      BY <2>1, <2>3 DEF Calls, MAX_DELAY
    <2> HIDE DEF new
    <2>5. K \in [OsiTasks -> Calls] /\ Pending(K, h_line, m)
      BY <2>3, <2>4, PendingCall
    <2> HIDE DEF K, m
    <2>6. QueueKept(o_buf, o_head, o_tail, o_len, h_line, h_waited, m, K)
      BY <2>3, <2>5 DEF QueueKept
    <2>7. h_sent' = m
      BY <2>1 DEF m
    <2> QED
      BY <2>1, <2>2, <2>3, <2>4, <2>5, <2>6, <2>7 DEF QueueInv
  <1>11. ASSUME NEW t \in OsiTasks, xQueueReceive(t) PROVE QueueInv'
    <2>1. PICK ticks \in {0, 1, MAX_DELAY} :
              /\ o_kind = "queue" /\ Enter(t, "recv", ticks, 0, FALSE) /\ UNCHANGED <<o_kind, o_used, ringVars>>
      BY <1>11 DEF xQueueReceive
    <2> DEFINE new == [op |-> "recv", ticks |-> ticks, msg |-> 0, first |-> FALSE, at |-> "attempt"]
               K == [o_pc EXCEPT ![t] = new]
    <2>2. o_used /\ o_pc' = K
      BY <2>1 DEF Enter
    <2>3. /\ o_used = TRUE /\ o_buf \in [0 .. OsiQueueLen - 1 -> Nat] /\ h_sent \in Nat /\ h_waited \in BOOLEAN
          /\ o_pc \in [OsiTasks -> Calls]
          /\ QueueKept(o_buf, o_head, o_tail, o_len, h_line, h_waited, h_sent, o_pc)
          /\ Pending(o_pc, h_line, h_sent)
      BY <2>1, <2>2 DEF QueueInv, QueueKept
    <2>4. GoesOn(o_pc[t], new)
      BY <2>1 DEF Calls, MAX_DELAY, GoesOn
    <2> HIDE DEF new
    <2>5. K \in [OsiTasks -> Calls] /\ Pending(K, h_line, h_sent)
      BY <2>3, <2>4, PendingGoesOn
    <2> HIDE DEF K
    <2>6. QueueKept(o_buf, o_head, o_tail, o_len, h_line, h_waited, h_sent, K)
      BY <2>3, <2>5 DEF QueueKept
    <2> QED
      BY <2>1, <2>2, <2>3, <2>5, <2>6 DEF QueueInv, ringVars
  <1>12. ASSUME NEW t \in OsiTasks, wait_on(t) \/ wait_on_ends(t) \/ osi_impl_sem_take(t) \/ osi_impl_evt_wait(t)
         PROVE  QueueInv'
    <2>1. UNCHANGED <<o_kind, o_used, ringVars>>
      BY <1>12 DEF wait_on, wait_on_ends, osi_impl_sem_take, osi_impl_evt_wait
    <2>2. CASE wait_on(t) \/ wait_on_ends(t)
      BY <2>1, <2>2, CallSteps
    <2>3. CASE osi_impl_sem_take(t)
      <3>1. o_pc[t].op # "none" /\ (Again(t) \/ Returns(t))
        BY <2>3 DEF osi_impl_sem_take, Here
      <3> QED
        BY <2>1, <3>1, CallSteps
    <2>4. CASE osi_impl_evt_wait(t)
      <3>1. o_pc[t].op # "none" /\ (Again(t) \/ Returns(t))
        BY <2>4 DEF osi_impl_evt_wait, Here
      <3> QED
        BY <2>1, <3>1, CallSteps
    <2> QED
      BY <1>12, <2>2, <2>3, <2>4
  <1> QED
    BY <1>1, <1>2, <1>3, <1>4, <1>5, <1>6, <1>7, <1>8, <1>9, <1>10, <1>11, <1>12, SendKeeps, SendIsrKeeps,
       RecvKeeps DEF OsiWaitNext

\* For any tasks, queue length and number of messages, while no slot of a recursive mutex is used for something
\* else: a mutex has one holder, and every message sent and not received is in the ring once and in the
\* order sent (wifi_osi_impl.c, bt_osi.c).
THEOREM HandlesAlwaysHold ==
    ASSUME SemSlotsRecycled = FALSE
    PROVE  OsiWaitSpec => []HandlesHold
<1>1. OsiWaitInit => SemInv /\ QueueInv
  <2> SUFFICES ASSUME OsiWaitInit PROVE SemInv /\ QueueInv
    OBVIOUS
  <2>1. SemInv
    BY DEF OsiWaitInit, SemInv, SemKept
  <2>2. NoCall \in Calls
    BY DEF NoCall, Calls
  <2>3. o_buf \in [0 .. OsiQueueLen - 1 -> Nat] /\ o_pc \in [OsiTasks -> Calls] /\ \A t \in OsiTasks : o_pc[t] = NoCall
    BY <2>2 DEF OsiWaitInit
  <2>4. QueueInv
    BY <2>3 DEF OsiWaitInit, QueueInv
  <2> QED
    BY <2>1, <2>4
<1>2. SemInv /\ QueueInv /\ [OsiWaitNext]_osiVars => (SemInv /\ QueueInv)'
  <2> SUFFICES ASSUME SemInv, QueueInv, [OsiWaitNext]_osiVars PROVE (SemInv /\ QueueInv)'
    OBVIOUS
  <2>1. CASE OsiWaitNext
    BY <2>1, SemStep, QueueStep
  <2>2. CASE UNCHANGED osiVars
    BY <2>2 DEF osiVars, semVars, ringVars, SemInv, QueueInv
  <2> QED
    BY <2>1, <2>2
<1>3. SemInv /\ QueueInv => HandlesHold
  <2> SUFFICES ASSUME SemInv, QueueInv PROVE HandlesHold
    OBVIOUS
  <2>1. HolderIsAlone
    <3>1. SUFFICES ASSUME o_used, o_kind \in {"mutex", "recursive"}
                   PROVE  /\ \A t, u \in OsiTasks : h_holds[t] > 0 /\ h_holds[u] > 0 => t = u
                          /\ o_count = 1 <=> \A t \in OsiTasks : h_holds[t] = 0
      BY DEF HolderIsAlone
    <3>2. Held(h_holds, o_count, o_owner, o_depth, o_recursive)
      BY <3>1 DEF SemInv, SemKept
    <3> QED
      BY <3>2 DEF Held
  <2>2. RingIsALine
    <3>1. SUFFICES ASSUME o_used, o_kind = "queue" PROVE RingIsALine
      BY DEF RingIsALine
    <3> DEFINE r == [i \in 1 .. o_len |-> o_buf[(o_head + i - 1) % OsiQueueLen]]
    <3>2. RingTyped(o_buf, o_head, o_tail, o_len) /\ Matched(h_line, RingOf(o_buf, o_head, o_len), h_waited)
      BY <3>1 DEF QueueInv, QueueKept
    <3>3. r = RingOf(o_buf, o_head, o_len)
      BY DEF RingOf
    <3> HIDE DEF r
    <3>4. r \in Seq(Nat) /\ Len(r) = o_len
      <4>1. RingOf(o_buf, o_head, o_len) \in Seq(Nat) /\ Len(RingOf(o_buf, o_head, o_len)) = o_len
        BY <3>2, RingIs
      <4> QED
        BY <3>3, <4>1
    <3>5. Matched(h_line, r, h_waited) /\ h_waited \in BOOLEAN
      BY <3>1, <3>2, <3>3 DEF QueueInv
    <3>6. Len(h_line) = o_len /\ Range(h_line) = Range(r)
      <4>1. h_line \in Seq(Nat) /\ Len(h_line) = Len(r)
        BY <3>5 DEF Matched
      <4>2. DOMAIN h_line = 1 .. Len(h_line) /\ DOMAIN r = 1 .. Len(r)
        BY <3>4, <4>1
      <4>3. /\ \A i \in 1 .. Len(h_line) : \E j \in 1 .. Len(r) : h_line[i] = r[j]
            /\ \A j \in 1 .. Len(r) : \E i \in 1 .. Len(h_line) : h_line[i] = r[j]
        BY <3>5 DEF Matched
      <4>4. Range(h_line) = {h_line[i] : i \in 1 .. Len(h_line)} /\ Range(r) = {r[i] : i \in 1 .. Len(r)}
        BY <4>2 DEF Range
      <4>5. {h_line[i] : i \in 1 .. Len(h_line)} = {r[i] : i \in 1 .. Len(r)}
        <5>1. ASSUME NEW x \in {h_line[i] : i \in 1 .. Len(h_line)} PROVE x \in {r[i] : i \in 1 .. Len(r)}
          BY <4>3
        <5>2. ASSUME NEW x \in {r[i] : i \in 1 .. Len(r)} PROVE x \in {h_line[i] : i \in 1 .. Len(h_line)}
          <6>1. PICK j \in 1 .. Len(r) : x = r[j]
            OBVIOUS
          <6>2. PICK i \in 1 .. Len(h_line) : h_line[i] = r[j]
            BY <4>3
          <6> QED
            BY <6>1, <6>2
        <5> QED
          BY <5>1, <5>2
      <4> QED
        BY <3>4, <4>1, <4>4, <4>5
    <3>7. h_waited = FALSE => h_line = r
      BY <3>5 DEF Matched
    <3>8. IF h_waited THEN Len(h_line) = o_len /\ Range(h_line) = Range(r) ELSE h_line = r
      BY <3>5, <3>6, <3>7
    <3> QED
      BY <3>8 DEF RingIsALine, r
  <2> QED
    BY <2>1, <2>2 DEF HandlesHold
<1> QED
  BY <1>1, <1>2, <1>3, PTL DEF OsiWaitSpec

-----------------------------------------------------------------------------
(* The receive descriptors (Mac.tla).                                       *)

\* The links follow the list, which names no descriptor twice.
Threaded(list, head, next, last) ==
    /\ next \in [Descs -> 0 .. RX_BUFFERS] /\ list \in Seq(Descs)
    /\ \A i, j \in 1 .. Len(list) : list[i] = list[j] => i = j
    /\ head = (IF list = <<>> THEN NULL ELSE list[1])
    /\ \A i \in 1 .. Len(list) : next[list[i]] = (IF i < Len(list) THEN list[i + 1] ELSE NULL)
    /\ list # <<>> => last = list[Len(list)]

HeldAt(pc) == pc \in {"decode", "recycle"}

\* Every descriptor is listed, but the one the task holds.
AllThere(list, item, pc) ==
    /\ HeldAt(pc) => item \in Descs /\ \A i \in 1 .. Len(list) : list[i] # item
    /\ Len(list) + (IF HeldAt(pc) THEN 1 ELSE 0) = RX_BUFFERS
    /\ \A d \in Descs : (HeldAt(pc) /\ d = item) \/ \E i \in 1 .. Len(list) : list[i] = d

\* The first k of the list hold the frames that follow the one numbered base.
FilledUpTo(list, data, base, k) ==
    /\ data \in [Descs -> Nat] /\ base \in Nat /\ k \in 0 .. Len(list)
    /\ \A i \in 1 .. Len(list) : data[list[i]] = (IF i <= k THEN base + i ELSE 0)

\* The hardware is at the first empty descriptor; or, out of descriptors, it last
\* read the last one that is full, behind which one may just have been put.
HwFollows(list, hw, done, k, pc) ==
    /\ hw # NULL => k < Len(list) /\ hw = list[k + 1]
    /\ hw = NULL => /\ k >= 1 => done = list[k]
                    /\ k = Len(list) \/ (pc = "commit" /\ k >= 1 /\ k = Len(list) - 1)

ReadBy(pc, read) == IF pc = "decode" THEN read + 1 ELSE read

Received(pc, item, list, head, next, last, data, hw, done, heard, read) ==
    /\ pc \in {"loop", "decode", "recycle", "commit", "reap", "beacon"}
    /\ read \in Nat /\ heard \in Nat
    /\ Threaded(list, head, next, last)
    /\ AllThere(list, item, pc)
    /\ FilledUpTo(list, data, ReadBy(pc, read), heard - ReadBy(pc, read))
    /\ HwFollows(list, hw, done, heard - ReadBy(pc, read), pc)
    /\ pc = "decode" => data[item] = read + 1

\* What the receive path keeps: before it is started nothing was heard.
MacInv ==
    /\ y_ready \in BOOLEAN
    /\ ~y_ready => y_pc = "off" /\ h_heard = 0 /\ h_read = 0
    /\ y_ready => Received(y_pc, y_item, h_list, y_head, y_next, y_last, y_data,
                           y_hw, y_done, h_heard, h_read)

-----------------------------------------------------------------------------
StartedList == [i \in 1 .. RX_BUFFERS |-> RX_BUFFERS + 1 - i]

LEMMA ChainStarts ==
    Received("loop", NULL, StartedList, RX_BUFFERS, [d \in Descs |-> d - 1], 1,
             [d \in Descs |-> 0], RX_BUFFERS, NULL, 0, 0)
  <1>1. RX_BUFFERS \in Nat /\ RX_BUFFERS >= 1
    BY MacAssumption
  <1>2. /\ StartedList \in Seq(Descs) /\ Len(StartedList) = RX_BUFFERS
        /\ StartedList # <<>>
        /\ \A i \in 1 .. RX_BUFFERS : StartedList[i] = RX_BUFFERS + 1 - i
    BY <1>1 DEF StartedList, Descs
  <1>3. Threaded(StartedList, RX_BUFFERS, [d \in Descs |-> d - 1], 1)
    <2>1. [d \in Descs |-> d - 1] \in [Descs -> 0 .. RX_BUFFERS]
      BY <1>1 DEF Descs
    <2>2. \A i, j \in 1 .. RX_BUFFERS : StartedList[i] = StartedList[j] => i = j
      BY <1>1, <1>2
    <2>3. RX_BUFFERS = StartedList[1] /\ StartedList[RX_BUFFERS] = 1
      BY <1>1, <1>2
    <2>4. ASSUME NEW i \in 1 .. RX_BUFFERS
          PROVE  [d \in Descs |-> d - 1][StartedList[i]]
                     = (IF i < RX_BUFFERS THEN StartedList[i + 1] ELSE NULL)
      <3>1. StartedList[i] = RX_BUFFERS + 1 - i /\ StartedList[i] \in Descs
        BY <1>1, <1>2 DEF Descs
      <3>2. i < RX_BUFFERS => StartedList[i + 1] = RX_BUFFERS + 1 - (i + 1)
        BY <1>1, <1>2
      <3> QED
        BY <1>1, <3>1, <3>2 DEF NULL
    <2> HIDE DEF StartedList
    <2> QED
      BY <1>2, <2>1, <2>2, <2>3, <2>4 DEF Threaded
  <1>4. AllThere(StartedList, NULL, "loop")
    <2>1. ASSUME NEW d \in Descs
          PROVE  \E i \in 1 .. Len(StartedList) : StartedList[i] = d
      <3>1. RX_BUFFERS + 1 - d \in 1 .. RX_BUFFERS /\ StartedList[RX_BUFFERS + 1 - d] = d
        BY <1>1, <1>2 DEF Descs
      <3> QED
        BY <1>2, <3>1
    <2> QED
      BY <1>1, <1>2, <2>1 DEF AllThere, HeldAt
  <1>5. FilledUpTo(StartedList, [d \in Descs |-> 0], 0, 0)
    BY SMTT(30), <1>1, <1>2 DEF FilledUpTo, Descs
  <1>6. HwFollows(StartedList, RX_BUFFERS, NULL, 0, "loop")
    BY <1>1, <1>2 DEF HwFollows, NULL
  <1> HIDE DEF StartedList
  <1>7. ReadBy("loop", 0) = 0 /\ 0 - 0 = 0
    BY DEF ReadBy
  <1> QED
    BY <1>3, <1>4, <1>5, <1>6, <1>7 DEF Received

\* The item a Received chain holds matters only while it is held.
LEMMA PcMoves ==
    ASSUME NEW pc, NEW item, NEW list, NEW head, NEW next, NEW last, NEW data, NEW hw,
           NEW done, NEW heard, NEW read, NEW q, NEW it,
           Received(pc, item, list, head, next, last, data, hw, done, heard, read),
           pc \in {"loop", "reap", "beacon"}, q \in {"loop", "reap", "beacon"}
    PROVE  Received(q, it, list, head, next, last, data, hw, done, heard, read)
  <1>1. ~HeldAt(pc) /\ ~HeldAt(q) /\ ReadBy(pc, read) = read /\ ReadBy(q, read) = read
        /\ pc # "commit" /\ q # "commit" /\ pc # "decode" /\ q # "decode"
    BY DEF HeldAt, ReadBy
  <1>2. AllThere(list, it, q)
    BY <1>1 DEF Received, AllThere
  <1>3. HwFollows(list, hw, done, heard - read, q)
    BY <1>1 DEF Received, HwFollows
  <1> QED
    BY <1>1, <1>2, <1>3 DEF Received

FrameIn(data, hw, heard) == [data EXCEPT ![hw] = heard + 1]

\* A frame fills the first empty descriptor, and no other.
LEMMA FrameStored ==
    ASSUME NEW pc, NEW item, NEW list, NEW head, NEW next, NEW last, NEW data, NEW hw,
           NEW done, NEW heard, NEW read,
           Received(pc, item, list, head, next, last, data, hw, done, heard, read),
           hw # NULL
    PROVE  Received(pc, item, list, head, next, last, FrameIn(data, hw, heard), next[hw], hw,
                    heard + 1, read)
  <1> DEFINE base == ReadBy(pc, read)
             k == heard - base
             fed == FrameIn(data, hw, heard)
  <1>1. /\ read \in Nat /\ heard \in Nat /\ base \in Nat /\ k \in Nat /\ heard = base + k
        /\ k < Len(list) /\ Len(list) \in Nat /\ hw = list[k + 1]
        /\ \A i \in 1 .. Len(list) : list[i] \in Descs
        /\ hw \in Descs
    BY SMTT(30) DEF Received, ReadBy, FilledUpTo, HwFollows, Threaded
  <1>2. k + 1 \in 1 .. Len(list) /\ (heard + 1) - base = k + 1
    BY <1>1
  <1>3. next[hw] = (IF k + 1 < Len(list) THEN list[(k + 1) + 1] ELSE NULL)
    BY <1>1, <1>2 DEF Received, Threaded
  <1>4. FilledUpTo(list, fed, base, k + 1)
    <2>1. data \in [Descs -> Nat]
          /\ \A i \in 1 .. Len(list) : data[list[i]] = (IF i <= k THEN base + i ELSE 0)
      BY DEF Received, FilledUpTo
    <2>2. fed \in [Descs -> Nat] /\ \A d \in Descs : fed[d] = (IF d = hw THEN heard + 1 ELSE data[d])
      BY <1>1, <2>1 DEF FrameIn
    <2>3. \A i \in 1 .. Len(list) : list[i] = hw <=> i = k + 1
      BY <1>1, <1>2 DEF Received, Threaded
    <2> HIDE DEF base, k, fed
    <2>4. ASSUME NEW i \in 1 .. Len(list)
          PROVE  fed[list[i]] = (IF i <= k + 1 THEN base + i ELSE 0)
      <3>1. CASE i = k + 1
        BY <1>1, <2>2, <2>3, <3>1
      <3>2. CASE i # k + 1
        BY <1>1, <2>1, <2>2, <2>3, <3>2
      <3> QED
        BY <3>1, <3>2
    <2> QED
      BY <1>1, <1>2, <2>2, <2>4 DEF FilledUpTo
  <1>5. HwFollows(list, next[hw], hw, k + 1, pc)
    <2>1. \A i \in 1 .. Len(list) : list[i] # NULL
      BY <1>1 DEF Descs, NULL
    <2> HIDE DEF base, k
    <2>2. CASE k + 1 < Len(list)
      <3>1. (k + 1) + 1 \in 1 .. Len(list) /\ next[hw] = list[(k + 1) + 1] /\ next[hw] # NULL
        BY <1>1, <1>3, <2>1, <2>2
      <3> QED
        BY <2>2, <3>1 DEF HwFollows
    <2>3. CASE ~(k + 1 < Len(list))
      BY <1>1, <1>3, <2>3 DEF HwFollows
    <2> QED
      BY <2>2, <2>3
  <1>6. pc = "decode" => fed[item] = read + 1
    <2>1. SUFFICES ASSUME pc = "decode" PROVE fed[item] = read + 1
      OBVIOUS
    <2>2. item \in Descs /\ item # hw /\ data[item] = read + 1
      BY <1>1, <1>2, <2>1 DEF Received, AllThere, HeldAt
    <2>3. data \in [Descs -> Nat]
      BY DEF Received, FilledUpTo
    <2> QED
      BY <2>2, <2>3 DEF FrameIn
  <1>7. /\ FilledUpTo(list, fed, base, (heard + 1) - base)
        /\ HwFollows(list, next[hw], hw, (heard + 1) - base, pc)
    BY <1>2, <1>4, <1>5
  <1> QED
    BY <1>1, <1>6, <1>7 DEF Received

Cut(next, d) == [next EXCEPT ![d] = NULL]

\* The first descriptor, when it is full, is taken with its frame.
LEMMA ItemTaken ==
    ASSUME NEW item, NEW list, NEW head, NEW next, NEW last, NEW data, NEW hw,
           NEW done, NEW heard, NEW read,
           Received("loop", item, list, head, next, last, data, hw, done, heard, read),
           head # NULL, data[head] # 0
    PROVE  Received("decode", head, Tail(list), next[head], Cut(next, head), last, data,
                    hw, done, heard, read)
  <1> DEFINE k == heard - read
             rest == Tail(list)
             l == Len(list)
  <1>1. /\ read \in Nat /\ heard \in Nat /\ k \in Int /\ heard = read + k
        /\ list \in Seq(Descs) /\ list # <<>> /\ head = list[1]
        /\ next \in [Descs -> 0 .. RX_BUFFERS]
        /\ \A i, j \in 1 .. l : list[i] = list[j] => i = j
        /\ \A i \in 1 .. l : next[list[i]] = (IF i < l THEN list[i + 1] ELSE NULL)
        /\ last = list[l]
        /\ data \in [Descs -> Nat] /\ k \in 0 .. l
        /\ \A i \in 1 .. l : data[list[i]] = (IF i <= k THEN read + i ELSE 0)
        /\ l = RX_BUFFERS /\ \A d \in Descs : \E i \in 1 .. l : list[i] = d
        /\ HwFollows(list, hw, done, k, "loop")
    <2>1. ReadBy("loop", read) = read
      BY DEF ReadBy
    <2>2. /\ Threaded(list, head, next, last) /\ AllThere(list, item, "loop")
          /\ FilledUpTo(list, data, read, k) /\ HwFollows(list, hw, done, k, "loop")
          /\ read \in Nat /\ heard \in Nat
      BY <2>1 DEF Received
    <2>3. /\ list \in Seq(Descs) /\ list # <<>> /\ head = list[1]
          /\ next \in [Descs -> 0 .. RX_BUFFERS]
          /\ \A i, j \in 1 .. l : list[i] = list[j] => i = j
          /\ \A i \in 1 .. l : next[list[i]] = (IF i < l THEN list[i + 1] ELSE NULL)
          /\ last = list[l]
      BY <2>2 DEF Threaded
    <2>4. /\ data \in [Descs -> Nat] /\ k \in 0 .. l
          /\ \A i \in 1 .. l : data[list[i]] = (IF i <= k THEN read + i ELSE 0)
      BY <2>2 DEF FilledUpTo
    <2>5. l = RX_BUFFERS /\ \A d \in Descs : \E i \in 1 .. l : list[i] = d
      BY <2>2, <2>3, MacAssumption DEF AllThere, HeldAt
    <2> QED
      BY <2>2, <2>3, <2>4, <2>5
  <1>2. /\ l \in Nat /\ l >= 1 /\ rest \in Seq(Descs) /\ Len(rest) = l - 1
        /\ \A i \in 1 .. l - 1 : rest[i] = list[i + 1]
        /\ \A i \in 1 .. l : list[i] \in Descs
    BY <1>1
  <1>3. k >= 1 /\ data[head] = read + 1 /\ head \in Descs
    BY <1>1, <1>2
  <1>4. \A i \in 1 .. l - 1 : i + 1 \in 1 .. l /\ rest[i] # head /\ rest[i] \in Descs
    BY <1>1, <1>2
  <1> HIDE DEF k, rest, l
  <1>5. rest = <<>> <=> l = 1
    BY <1>2
  <1>6. Threaded(rest, next[head], Cut(next, head), last)
    <2>1. Cut(next, head) \in [Descs -> 0 .. RX_BUFFERS]
          /\ \A d \in Descs : d # head => Cut(next, head)[d] = next[d]
      BY <1>1, <1>3, MacAssumption DEF Cut, NULL
    <2>2. \A i, j \in 1 .. l - 1 : rest[i] = rest[j] => i = j
      BY <1>1, <1>2, <1>4
    <2>3. next[head] = (IF rest = <<>> THEN NULL ELSE rest[1])
      BY <1>1, <1>2, <1>5
    <2>4. ASSUME NEW i \in 1 .. l - 1
          PROVE  Cut(next, head)[rest[i]] = (IF i < l - 1 THEN rest[i + 1] ELSE NULL)
      <3>1. Cut(next, head)[rest[i]] = next[list[i + 1]]
        BY <1>2, <1>4, <2>1
      <3>2. next[list[i + 1]] = (IF i + 1 < l THEN list[(i + 1) + 1] ELSE NULL)
        BY <1>1, <1>4
      <3>3. i < l - 1 => rest[i + 1] = list[(i + 1) + 1]
        BY <1>2
      <3> QED
        BY <1>2, <3>1, <3>2, <3>3
    <2>5. rest # <<>> => last = rest[l - 1]
      BY <1>1, <1>2, <1>5
    <2> QED
      BY <1>2, <2>1, <2>2, <2>3, <2>4, <2>5 DEF Threaded
  <1>7. AllThere(rest, head, "decode")
    <2>1. ASSUME NEW d \in Descs, d # head PROVE \E i \in 1 .. l - 1 : rest[i] = d
      <3>1. PICK i \in 1 .. l : list[i] = d
        BY <1>1
      <3>0. i # 1 /\ l \in Nat
        BY <1>1, <1>2, <2>1, <3>1
      <3>2. i - 1 \in 1 .. l - 1 /\ (i - 1) + 1 = i
        BY <3>0
      <3>3. rest[i - 1] = d
        BY <1>2, <3>1, <3>2
      <3> QED
        BY <3>2, <3>3
    <2>2. Len(rest) + 1 = RX_BUFFERS /\ 1 .. Len(rest) = 1 .. l - 1
      BY <1>1, <1>2
    <2>3. HeldAt("decode")
      BY DEF HeldAt
    <2> QED
      BY <1>3, <1>4, <2>1, <2>2, <2>3 DEF AllThere
  <1>8. FilledUpTo(rest, data, read + 1, k - 1)
    <2>1. ASSUME NEW i \in 1 .. l - 1
          PROVE  data[rest[i]] = (IF i <= k - 1 THEN (read + 1) + i ELSE 0)
      <3>1. rest[i] = list[i + 1] /\ i + 1 \in 1 .. l
        BY <1>2, <1>4
      <3>2. data[list[i + 1]] = (IF i + 1 <= k THEN read + (i + 1) ELSE 0)
        BY <1>1, <3>1
      <3> QED
        BY <1>1, <3>1, <3>2
    <2> QED
      BY <1>1, <1>2, <1>3, <2>1 DEF FilledUpTo
  <1>9. HwFollows(rest, hw, done, k - 1, "decode")
    <2>1. CASE hw # NULL
      <3>1. k < l /\ hw = list[k + 1]
        BY <1>1, <2>1 DEF HwFollows, l
      <3>2. k \in 1 .. l - 1 /\ hw = rest[k] /\ (k - 1) + 1 = k
        BY <1>1, <1>2, <1>3, <3>1
      <3> QED
        BY <1>2, <2>1, <3>2 DEF HwFollows
    <2>2. CASE hw = NULL
      <3>1. k = l /\ done = list[k]
        BY <1>1, <1>3, <2>2 DEF HwFollows, l
      <3>2. k - 1 >= 1 => done = rest[k - 1]
        BY <1>2, <3>1
      <3> QED
        BY <1>2, <2>2, <3>1, <3>2 DEF HwFollows
    <2> QED
      BY <2>1, <2>2
  <1>10. ReadBy("decode", read) = read + 1 /\ heard - (read + 1) = k - 1
    BY <1>1 DEF ReadBy
  <1> QED
    BY <1>1, <1>3, <1>6, <1>7, <1>8, <1>9, <1>10 DEF Received, rest

\* Decoding reads the frame that is next in order.
LEMMA ItemDecoded ==
    ASSUME NEW item, NEW list, NEW head, NEW next, NEW last, NEW data, NEW hw,
           NEW done, NEW heard, NEW read,
           Received("decode", item, list, head, next, last, data, hw, done, heard, read)
    PROVE  Received("recycle", item, list, head, next, last, data, hw, done, heard, data[item])
  <1>1. /\ data[item] = read + 1 /\ read \in Nat /\ read + 1 \in Nat
        /\ ReadBy("decode", read) = read + 1 /\ ReadBy("recycle", read + 1) = read + 1
    BY DEF Received, ReadBy
  <1>2. AllThere(list, item, "recycle") /\ HwFollows(list, hw, done, heard - (read + 1), "recycle")
    BY <1>1 DEF Received, AllThere, HwFollows, HeldAt
  <1>3. Received("recycle", item, list, head, next, last, data, hw, done, heard, read + 1)
    BY <1>1, <1>2 DEF Received
  <1> QED
    BY <1>1, <1>3

Linking(next, a, b) == [next EXCEPT ![a] = NULL, ![b] = a]
Emptied(data, d) == [data EXCEPT ![d] = 0]

\* What the task holds at "recycle", without the rest of the chain.
LEMMA HeldItem ==
    ASSUME NEW item, NEW list, NEW head, NEW next, NEW last, NEW data, NEW hw,
           NEW done, NEW heard, NEW read,
           Received("recycle", item, list, head, next, last, data, hw, done, heard, read)
    PROVE  /\ read \in Nat /\ heard \in Nat /\ item \in Descs /\ list \in Seq(Descs)
           /\ Len(list) \in Nat /\ Len(list) + 1 = RX_BUFFERS
           /\ \A i \in 1 .. Len(list) : list[i] # item /\ list[i] \in Descs
           /\ \A d \in Descs : d = item \/ \E i \in 1 .. Len(list) : list[i] = d
           /\ Threaded(list, head, next, last) /\ FilledUpTo(list, data, read, heard - read)
           /\ HwFollows(list, hw, done, heard - read, "recycle")
  <1>1. /\ read \in Nat /\ heard \in Nat /\ Threaded(list, head, next, last)
        /\ AllThere(list, item, "recycle") /\ FilledUpTo(list, data, read, heard - read)
        /\ HwFollows(list, hw, done, heard - read, "recycle")
    BY DEF Received, ReadBy
  <1>2. HeldAt("recycle")
    BY DEF HeldAt
  <1>3. list \in Seq(Descs) /\ Len(list) \in Nat /\ \A i \in 1 .. Len(list) : list[i] \in Descs
    BY <1>1 DEF Threaded
  <1>4. item \in Descs /\ \A i \in 1 .. Len(list) : list[i] # item
    BY <1>1, <1>2 DEF AllThere
  <1>5. Len(list) + 1 = RX_BUFFERS
    BY <1>1, <1>2 DEF AllThere
  <1>6. \A d \in Descs : d = item \/ \E i \in 1 .. Len(list) : list[i] = d
    BY <1>1 DEF AllThere
  <1> QED
    BY <1>1, <1>3, <1>4, <1>5, <1>6

\* Putting the item back at the end: the list is whole again and the item empty.
LEMMA BackAtTheEnd ==
    ASSUME NEW item, NEW list, NEW head, NEW next, NEW last, NEW data, NEW hw,
           NEW done, NEW heard, NEW read,
           Received("recycle", item, list, head, next, last, data, hw, done, heard, read)
    PROVE  /\ AllThere(Append(list, item), item, "commit")
           /\ FilledUpTo(Append(list, item), Emptied(data, item), read, heard - read)
  <1> DEFINE l == Len(list)
             k == heard - read
             back == Append(list, item)
  <1>1. /\ read \in Nat /\ heard \in Nat /\ item \in Descs /\ list \in Seq(Descs)
        /\ l \in Nat /\ l + 1 = RX_BUFFERS
        /\ \A i \in 1 .. l : list[i] # item /\ list[i] \in Descs
        /\ \A d \in Descs : d = item \/ \E i \in 1 .. l : list[i] = d
    BY HeldItem
  <1>2. /\ back \in Seq(Descs) /\ Len(back) = l + 1 /\ back[l + 1] = item
        /\ \A i \in 1 .. l : back[i] = list[i]
    BY <1>1
  <1>3. /\ data \in [Descs -> Nat] /\ k \in 0 .. l
        /\ \A i \in 1 .. l : data[list[i]] = (IF i <= k THEN read + i ELSE 0)
    BY HeldItem DEF FilledUpTo
  <1> HIDE DEF l, k, back
  <1>4. \A i \in 1 .. l : i \in 1 .. l + 1
    BY <1>1
  <1>5. l + 1 \in 1 .. l + 1
    BY <1>1
  <1>6. AllThere(back, item, "commit")
    <2>1. ~HeldAt("commit")
      BY DEF HeldAt
    <2>2. \A d \in Descs : \E i \in 1 .. l + 1 : back[i] = d
      BY <1>1, <1>2, <1>4, <1>5
    <2>3. Len(back) + 0 = RX_BUFFERS
      BY <1>1, <1>2
    <2> QED
      BY <1>2, <2>1, <2>2, <2>3 DEF AllThere
  <1>7. FilledUpTo(back, Emptied(data, item), read, k)
    <2>1. Emptied(data, item) \in [Descs -> Nat]
          /\ \A d \in Descs : Emptied(data, item)[d] = (IF d = item THEN 0 ELSE data[d])
      BY <1>1, <1>3 DEF Emptied
    <2>2. ASSUME NEW i \in 1 .. l + 1
          PROVE  Emptied(data, item)[back[i]] = (IF i <= k THEN read + i ELSE 0)
      <3>1. CASE i = l + 1
        <4>1. ~(i <= k) /\ back[i] = item
          BY <1>1, <1>2, <1>3, <3>1
        <4> QED
          BY <1>1, <2>1, <4>1
      <3>2. CASE i # l + 1
        <4>1. i \in 1 .. l
          BY <1>1, <3>2
        <4>2. /\ back[i] = list[i] /\ list[i] # item /\ list[i] \in Descs
              /\ data[list[i]] = (IF i <= k THEN read + i ELSE 0)
          BY <1>1, <1>2, <1>3, <4>1
        <4>3. Emptied(data, item)[list[i]] = data[list[i]]
          BY <2>1, <4>2
        <4> QED
          BY <4>2, <4>3
      <3> QED
        BY <3>1, <3>2
    <2>3. k \in 0 .. l + 1
      BY <1>1, <1>3
    <2> QED
      BY <1>1, <1>2, <2>1, <2>2, <2>3 DEF FilledUpTo
  <1> QED
    BY <1>6, <1>7 DEF back, k

\* The item behind the last of a list that is not empty.
LEMMA RecycledBehind ==
    ASSUME NEW item, NEW list, NEW head, NEW next, NEW last, NEW data, NEW hw,
           NEW done, NEW heard, NEW read,
           Received("recycle", item, list, head, next, last, data, hw, done, heard, read),
           head # NULL
    PROVE  Received("commit", item, Append(list, item), head, Linking(next, item, last), item,
                    Emptied(data, item), hw, done, heard, read)
  <1> DEFINE l == Len(list)
             k == heard - read
             back == Append(list, item)
             tied == Linking(next, item, last)
  <1>1. /\ read \in Nat /\ heard \in Nat /\ item \in Descs /\ list \in Seq(Descs)
        /\ l \in Nat /\ l + 1 = RX_BUFFERS
        /\ \A i \in 1 .. l : list[i] # item /\ list[i] \in Descs
        /\ HwFollows(list, hw, done, k, "recycle")
    BY HeldItem
  <1>0. /\ back \in Seq(Descs) /\ Len(back) = l + 1 /\ back[l + 1] = item
        /\ \A i \in 1 .. l : back[i] = list[i]
    BY <1>1
  <1>2. /\ back \in Seq(Descs) /\ Len(back) = l + 1 /\ back[l + 1] = item /\ back # <<>>
        /\ \A i \in 1 .. l : back[i] = list[i]
    <2> HIDE DEF back, l
    <2>1. Len(back) # 0
      BY <1>0, <1>1
    <2> QED
      BY <1>0, <2>1
  <1>3. /\ next \in [Descs -> 0 .. RX_BUFFERS] /\ list # <<>> /\ head = list[1] /\ last = list[l]
        /\ \A i, j \in 1 .. l : list[i] = list[j] => i = j
        /\ \A i \in 1 .. l : next[list[i]] = (IF i < l THEN list[i + 1] ELSE NULL)
    BY HeldItem DEF Threaded
  <1>4. l >= 1 /\ l \in 1 .. l
    BY <1>1, <1>3
  <1>5. k \in 0 .. l
    BY HeldItem DEF FilledUpTo
  <1> HIDE DEF l, k, back
  <1>6. Threaded(back, head, tied, item)
    <2>1. last \in Descs /\ last # item
      BY <1>1, <1>3, <1>4
    <2>2. item \in 0 .. RX_BUFFERS /\ NULL \in 0 .. RX_BUFFERS
      BY <1>1, MacAssumption DEF Descs, NULL
    <2>3. /\ tied \in [Descs -> 0 .. RX_BUFFERS] /\ tied[item] = NULL /\ tied[last] = item
          /\ \A d \in Descs : d # item /\ d # last => tied[d] = next[d]
      BY <1>1, <1>3, <2>1, <2>2 DEF Linking
    <2> HIDE DEF tied
    <2>4. ASSUME NEW i \in 1 .. l + 1, NEW j \in 1 .. l + 1, back[i] = back[j] PROVE i = j
      <3>1. \A m \in 1 .. l + 1 : m \in 1 .. l \/ m = l + 1
        BY <1>1
      <3> QED
        BY ZenonT(60), <1>1, <1>2, <1>3, <2>4, <3>1
    <2>5. head = back[1]
      BY <1>2, <1>3, <1>4
    <2>6. ASSUME NEW i \in 1 .. l + 1
          PROVE  tied[back[i]] = (IF i < l + 1 THEN back[i + 1] ELSE NULL)
      <3>1. CASE i = l + 1
        BY <1>1, <1>2, <2>3, <3>1
      <3>2. CASE i = l
        <4>1. i < l + 1 /\ back[i] = last /\ back[i + 1] = item
          BY <1>1, <1>2, <1>3, <1>4, <3>2
        <4> QED
          BY <2>3, <4>1
      <3>3. CASE i # l + 1 /\ i # l
        <4>1. i \in 1 .. l /\ i + 1 \in 1 .. l /\ i < l + 1 /\ i < l
          BY <1>1, <3>3
        <4>2. back[i] = list[i] /\ back[i + 1] = list[i + 1] /\ list[i] \in Descs /\ list[i] # item
          BY <1>1, <1>2, <4>1
        <4>3. list[i] # last
          BY <1>3, <1>4, <3>3, <4>1
        <4> QED
          BY <1>3, <2>3, <4>1, <4>2, <4>3
      <3> QED
        BY <3>1, <3>2, <3>3
    <2> QED
      BY <1>2, <2>3, <2>4, <2>5, <2>6 DEF Threaded
  <1>7. HwFollows(back, hw, done, k, "commit")
    <2>1. CASE hw # NULL
      <3>1. k < l /\ hw = list[k + 1]
        BY <1>1, <2>1 DEF HwFollows, l
      <3>2. k < l + 1 /\ k + 1 \in 1 .. l
        BY <1>1, <1>5, <3>1
      <3> QED
        BY <1>2, <2>1, <3>1, <3>2 DEF HwFollows
    <2>2. CASE hw = NULL
      <3>1. k = l /\ done = list[k]
        BY <1>1, <1>4, <2>2 DEF HwFollows, l
      <3>2. k >= 1 /\ k = (l + 1) - 1 /\ done = back[k]
        BY <1>1, <1>2, <1>4, <3>1
      <3> QED
        BY <1>2, <2>2, <3>2 DEF HwFollows
    <2> QED
      BY <2>1, <2>2
  <1>8. AllThere(back, item, "commit") /\ FilledUpTo(back, Emptied(data, item), read, k)
    BY BackAtTheEnd DEF back, k
  <1>9. ReadBy("commit", read) = read
    BY DEF ReadBy
  <1> HIDE DEF tied
  <1>10. Received("commit", item, back, head, tied, item, Emptied(data, item), hw, done, heard, read)
    BY <1>1, <1>6, <1>7, <1>8, <1>9 DEF Received, k
  <1> QED
    BY <1>10 DEF back, tied

\* The item as the new base of an empty list: the hardware starts again there.
LEMMA RecycledAlone ==
    ASSUME NEW item, NEW list, NEW head, NEW next, NEW last, NEW data, NEW hw,
           NEW done, NEW heard, NEW read,
           Received("recycle", item, list, head, next, last, data, hw, done, heard, read),
           head = NULL
    PROVE  Received("commit", item, Append(list, item), item, Cut(next, item), item,
                    Emptied(data, item), item, NULL, heard, read)
  <1> DEFINE k == heard - read
             back == Append(list, item)
  <1>1. /\ read \in Nat /\ heard \in Nat /\ item \in Descs /\ list \in Seq(Descs)
        /\ \A i \in 1 .. Len(list) : list[i] \in Descs
        /\ item # NULL
    BY HeldItem DEF Descs, NULL
  <1>2. list = <<>>
    <2>1. SUFFICES ASSUME list # <<>> PROVE FALSE
      OBVIOUS
    <2>2. head = list[1] /\ 1 \in 1 .. Len(list)
      BY <1>1, <2>1, HeldItem DEF Threaded
    <2> QED
      BY <1>1, <2>2 DEF Descs, NULL
  <1>3. k = 0
    BY <1>1, <1>2, HeldItem DEF FilledUpTo
  <1>4. /\ back \in Seq(Descs) /\ Len(back) = 1 /\ back[1] = item /\ back # <<>>
    BY <1>1, <1>2
  <1>5. AllThere(back, item, "commit") /\ FilledUpTo(back, Emptied(data, item), read, k)
    BY BackAtTheEnd
  <1> HIDE DEF back, k
  <1>6. Threaded(back, item, Cut(next, item), item)
    <2>1. next \in [Descs -> 0 .. RX_BUFFERS]
      BY HeldItem DEF Threaded
    <2>2. Cut(next, item) \in [Descs -> 0 .. RX_BUFFERS] /\ Cut(next, item)[item] = NULL
      BY <1>1, <2>1, MacAssumption DEF Cut, NULL
    <2> QED
      BY <1>4, <2>2 DEF Threaded
  <1>7. HwFollows(back, item, NULL, k, "commit")
    BY <1>1, <1>3, <1>4 DEF HwFollows
  <1>8. ReadBy("commit", read) = read
    BY DEF ReadBy
  <1>9. Received("commit", item, back, item, Cut(next, item), item, Emptied(data, item), item, NULL,
                 heard, read)
    BY <1>1, <1>5, <1>6, <1>7, <1>8 DEF Received, k
  <1> QED
    BY <1>9 DEF back

\* Where the hardware goes on once the new link has been committed.
Resumed(next, hw, done) == IF hw = NULL /\ done # NULL THEN next[done] ELSE hw

LEMMA ChainCommitted ==
    ASSUME NEW item, NEW list, NEW head, NEW next, NEW last, NEW data, NEW hw,
           NEW done, NEW heard, NEW read,
           Received("commit", item, list, head, next, last, data, hw, done, heard, read)
    PROVE  Received("loop", NULL, list, head, next, last, data, Resumed(next, hw, done), done,
                    heard, read)
  <1> DEFINE l == Len(list)
             k == heard - read
  <1>1. ReadBy("commit", read) = read /\ ReadBy("loop", read) = read
        /\ ~HeldAt("commit") /\ ~HeldAt("loop")
    BY DEF ReadBy, HeldAt
  <1>2. /\ read \in Nat /\ heard \in Nat /\ Threaded(list, head, next, last)
        /\ AllThere(list, item, "commit") /\ FilledUpTo(list, data, read, k)
        /\ HwFollows(list, hw, done, k, "commit")
    BY <1>1 DEF Received
  <1>3. AllThere(list, NULL, "loop")
    BY <1>1, <1>2 DEF AllThere
  <1>4. /\ l \in Nat /\ k \in 0 .. l
        /\ \A i \in 1 .. l : list[i] \in Descs
        /\ \A i \in 1 .. l : next[list[i]] = (IF i < l THEN list[i + 1] ELSE NULL)
    BY <1>2 DEF Threaded, FilledUpTo
  <1>5. l = RX_BUFFERS /\ l >= 1
    BY <1>1, <1>2, <1>4, MacAssumption DEF AllThere
  <1>6. \A i \in 1 .. l : list[i] # NULL
    BY <1>4 DEF Descs, NULL
  <1>7. HwFollows(list, Resumed(next, hw, done), done, k, "loop")
    <2>1. CASE hw # NULL
      BY <1>2, <2>1 DEF HwFollows, Resumed
    <2>2. CASE hw = NULL
      <3>1. /\ k >= 1 => done = list[k]
            /\ k = l \/ (k >= 1 /\ k = l - 1)
        BY <1>2, <2>2 DEF HwFollows
      <3>2. k \in 1 .. l /\ done = list[k] /\ done # NULL
        BY <1>4, <1>5, <1>6, <3>1
      <3>3. Resumed(next, hw, done) = (IF k < l THEN list[k + 1] ELSE NULL)
        BY <1>4, <2>2, <3>2 DEF Resumed
      <3>4. CASE k < l
        <4>1. k + 1 \in 1 .. l
          BY <1>4, <3>4
        <4>2. Resumed(next, hw, done) = list[k + 1] /\ list[k + 1] # NULL
          BY <1>6, <3>3, <3>4, <4>1
        <4> QED
          BY <3>4, <4>2 DEF HwFollows
      <3>5. CASE ~(k < l)
        <4>1. k = l /\ Resumed(next, hw, done) = NULL
          BY <1>4, <3>3, <3>5
        <4> QED
          BY <3>2, <4>1 DEF HwFollows
      <3> QED
        BY <3>4, <3>5
    <2> QED
      BY <2>1, <2>2
  <1> QED
    BY <1>1, <1>2, <1>3, <1>7 DEF Received


-----------------------------------------------------------------------------
LEMMA MacInitHolds == MacInit => MacInv
  BY DEF MacInit, MacInv

LEMMA MacStepHolds == MacInv /\ [MacNext]_macVars => MacInv'
  <1> SUFFICES ASSUME MacInv, [MacNext]_macVars PROVE MacInv'
    OBVIOUS
  <1>0. /\ y_ready \in BOOLEAN
        /\ ~y_ready => y_pc = "off" /\ h_heard = 0 /\ h_read = 0
        /\ y_ready => Received(y_pc, y_item, h_list, y_head, y_next, y_last, y_data,
                               y_hw, y_done, h_heard, h_read)
    BY DEF MacInv
  <1>a. y_pc # "off" => y_ready
    BY <1>0
  <1>b. SUFFICES /\ y_ready' \in BOOLEAN
                 /\ ~y_ready' => y_pc' = "off" /\ h_heard' = 0 /\ h_read' = 0
                 /\ y_ready' => Received(y_pc', y_item', h_list', y_head', y_next', y_last', y_data',
                                         y_hw', y_done', h_heard', h_read')
    BY DEF MacInv
  <1>1. CASE UNCHANGED <<y_ready, ringVars2, y_pc, y_item, h_heard, h_read>>
    BY <1>0, <1>1 DEF ringVars2
  <1>2. ASSUME wifimac_init \/ wifimac_set_channel \/ FrameIsSent \/ wifimac_beacon_start
               \/ wifimac_beacon_stop \/ wifimac_probe_request \/ TickOver \/ UNCHANGED macVars
        PROVE  UNCHANGED <<y_ready, ringVars2, y_pc, y_item, h_heard, h_read>>
    BY <1>2 DEF wifimac_init, wifimac_set_channel, FrameIsSent, wifimac_beacon_start,
                wifimac_beacon_stop, wifimac_probe_request, TickOver, macVars, upVs, ringVars2, taskVs
  <1>3. CASE wifimac_rx_start
    <2>1. h_heard = 0 /\ h_read = 0
      BY <1>0, <1>3 DEF wifimac_rx_start
    <2>2. /\ y_ready' = TRUE /\ y_pc' = "loop" /\ h_list' = StartedList /\ y_head' = RX_BUFFERS
          /\ y_next' = [d \in Descs |-> d - 1] /\ y_last' = 1 /\ y_data' = [d \in Descs |-> 0]
          /\ y_hw' = RX_BUFFERS /\ y_done' = NULL /\ h_heard' = 0 /\ h_read' = 0
      BY <1>3, <2>1 DEF wifimac_rx_start, StartedList
    <2>3. Received("loop", y_item', StartedList, RX_BUFFERS, [d \in Descs |-> d - 1], 1,
                   [d \in Descs |-> 0], RX_BUFFERS, NULL, 0, 0)
      BY ChainStarts, PcMoves
    <2> QED
      BY <2>2, <2>3
  <1>4. CASE FrameArrives
    <2>1. /\ y_ready /\ y_hw # NULL
          /\ y_ready' = y_ready /\ y_pc' = y_pc /\ y_item' = y_item /\ h_list' = h_list
          /\ y_head' = y_head /\ y_next' = y_next /\ y_last' = y_last /\ h_read' = h_read
          /\ y_data' = FrameIn(y_data, y_hw, h_heard) /\ y_hw' = y_next[y_hw] /\ y_done' = y_hw
          /\ h_heard' = h_heard + 1
      BY <1>4 DEF FrameArrives, FrameIn, upVs
    <2>2. Received(y_pc, y_item, h_list, y_head, y_next, y_last, FrameIn(y_data, y_hw, h_heard),
                   y_next[y_hw], y_hw, h_heard + 1, h_read)
      BY <1>0, <2>1, FrameStored
    <2> QED
      BY <1>0, <2>1, <2>2
  <1>5. CASE wifimac_rx_service
    <2>0. /\ y_ready /\ y_ready' = y_ready /\ y_data' = y_data /\ y_last' = y_last /\ y_hw' = y_hw
          /\ y_done' = y_done /\ h_heard' = h_heard /\ h_read' = h_read
          /\ Received("loop", y_item, h_list, y_head, y_next, y_last, y_data,
                      y_hw, y_done, h_heard, h_read)
      BY <1>0, <1>a, <1>5 DEF wifimac_rx_service, upVs
    <2>1. CASE y_head # NULL /\ y_data[y_head] # 0 /\ y_handled < RX_BURST
      <3>1. /\ y_item' = y_head /\ y_head' = y_next[y_head] /\ y_next' = Cut(y_next, y_head)
            /\ h_list' = Tail(h_list) /\ y_pc' = "decode"
        BY <1>5, <2>1 DEF wifimac_rx_service, Cut
      <3>2. Received("decode", y_head, Tail(h_list), y_next[y_head], Cut(y_next, y_head), y_last,
                     y_data, y_hw, y_done, h_heard, h_read)
        BY <2>0, <2>1, ItemTaken
      <3> QED
        BY <1>0, <2>0, <3>1, <3>2
    <2>2. CASE ~(y_head # NULL /\ y_data[y_head] # 0 /\ y_handled < RX_BURST)
      <3>1. y_item' = y_item /\ y_head' = y_head /\ y_next' = y_next /\ h_list' = h_list /\ y_pc' = "reap"
        BY <1>5, <2>2 DEF wifimac_rx_service
      <3>2. Received("reap", y_item, h_list, y_head, y_next, y_last, y_data,
                     y_hw, y_done, h_heard, h_read)
        BY <2>0, PcMoves
      <3> QED
        BY <1>0, <2>0, <3>1, <3>2
    <2> QED
      BY <2>1, <2>2
  <1>6. CASE decode_frame
    <2>1. /\ y_ready /\ y_ready' = y_ready /\ y_pc' = "recycle" /\ h_read' = y_data[y_item]
          /\ y_item' = y_item /\ h_list' = h_list /\ y_head' = y_head /\ y_next' = y_next
          /\ y_last' = y_last /\ y_data' = y_data /\ y_hw' = y_hw /\ y_done' = y_done
          /\ h_heard' = h_heard
          /\ Received("decode", y_item, h_list, y_head, y_next, y_last, y_data,
                      y_hw, y_done, h_heard, h_read)
      BY <1>0, <1>a, <1>6 DEF decode_frame, upVs, ringVars2
    <2>2. Received("recycle", y_item, h_list, y_head, y_next, y_last, y_data,
                   y_hw, y_done, h_heard, y_data[y_item])
      BY <2>1, ItemDecoded
    <2> QED
      BY <1>0, <2>1, <2>2
  <1>7. CASE recycle_item
    <2>0. /\ y_ready /\ y_ready' = y_ready /\ y_pc' = "commit" /\ h_read' = h_read
          /\ y_item' = y_item /\ h_list' = Append(h_list, y_item)
          /\ y_last' = y_item /\ y_data' = Emptied(y_data, y_item) /\ h_heard' = h_heard
          /\ Received("recycle", y_item, h_list, y_head, y_next, y_last, y_data,
                      y_hw, y_done, h_heard, h_read)
      BY <1>0, <1>a, <1>7 DEF recycle_item, upVs, Emptied
    <2>1. CASE y_head # NULL
      <3>1. /\ y_head' = y_head /\ y_hw' = y_hw /\ y_done' = y_done
            /\ y_next' = Linking(y_next, y_item, y_last)
        BY <1>7, <2>1 DEF recycle_item, Linking
      <3>2. Received("commit", y_item, Append(h_list, y_item), y_head,
                     Linking(y_next, y_item, y_last), y_item, Emptied(y_data, y_item), y_hw, y_done,
                     h_heard, h_read)
        BY <2>0, <2>1, RecycledBehind
      <3> QED
        BY <1>0, <2>0, <3>1, <3>2
    <2>2. CASE y_head = NULL
      <3>1. y_head' = y_item /\ y_hw' = y_item /\ y_done' = NULL /\ y_next' = Cut(y_next, y_item)
        BY <1>7, <2>2 DEF recycle_item, Cut
      <3>2. Received("commit", y_item, Append(h_list, y_item), y_item, Cut(y_next, y_item), y_item,
                     Emptied(y_data, y_item), y_item, NULL, h_heard, h_read)
        BY <2>0, <2>2, RecycledAlone
      <3> QED
        BY <1>0, <2>0, <3>1, <3>2
    <2> QED
      BY <2>1, <2>2
  <1>8. CASE update_rx_chain
    <2>1. /\ y_ready /\ y_ready' = y_ready /\ y_pc' = "loop" /\ h_read' = h_read /\ y_item' = NULL
          /\ h_list' = h_list /\ y_head' = y_head /\ y_next' = y_next /\ y_last' = y_last
          /\ y_data' = y_data /\ y_hw' = Resumed(y_next, y_hw, y_done) /\ y_done' = y_done
          /\ h_heard' = h_heard
          /\ Received("commit", y_item, h_list, y_head, y_next, y_last, y_data,
                      y_hw, y_done, h_heard, h_read)
      BY <1>0, <1>a, <1>8 DEF update_rx_chain, upVs, Resumed
    <2>2. Received("loop", NULL, h_list, y_head, y_next, y_last, y_data,
                   Resumed(y_next, y_hw, y_done), y_done, h_heard, h_read)
      BY <2>1, ChainCommitted
    <2> QED
      BY <1>0, <2>1, <2>2
  <1>9. ASSUME wifimac_tx_reap \/ wifi_rx_task
        PROVE  /\ y_pc \in {"reap", "beacon"} /\ y_pc' \in {"beacon", "loop"} /\ y_ready' = y_ready
               /\ y_item' = y_item /\ h_list' = h_list /\ y_head' = y_head /\ y_next' = y_next
               /\ y_last' = y_last /\ y_data' = y_data /\ y_hw' = y_hw /\ y_done' = y_done
               /\ h_heard' = h_heard /\ h_read' = h_read
    BY <1>9 DEF wifimac_tx_reap, wifi_rx_task, upVs, ringVars2
  <1>10. CASE wifimac_tx_reap \/ wifi_rx_task
    <2>1. y_ready /\ Received(y_pc', y_item, h_list, y_head, y_next, y_last, y_data,
                              y_hw, y_done, h_heard, h_read)
      BY <1>0, <1>a, <1>9, <1>10, PcMoves
    <2> QED
      BY <1>0, <1>9, <1>10, <2>1
  <1> QED
    BY <1>1, <1>2, <1>3, <1>4, <1>5, <1>6, <1>7, <1>8, <1>10 DEF MacNext

LEMMA MacInvMeans == MacInv => FramesAreKept
  <1> SUFFICES ASSUME MacInv, y_ready PROVE
        LET all == InHand \o h_list
        IN /\ Linked /\ Len(all) = RX_BUFFERS /\ {all[i] : i \in 1 .. RX_BUFFERS} = Descs
           /\ \A i \in 1 .. Len(h_list) :
                  y_data[h_list[i]] # 0 =>
                      y_data[h_list[i]] = i + h_read + (IF y_pc = "decode" THEN 1 ELSE 0)
    BY DEF FramesAreKept
  <1> DEFINE all == InHand \o h_list
             base == ReadBy(y_pc, h_read)
  <1>1. /\ h_read \in Nat /\ Threaded(h_list, y_head, y_next, y_last)
        /\ AllThere(h_list, y_item, y_pc) /\ FilledUpTo(h_list, y_data, base, h_heard - base)
    BY DEF MacInv, Received
  <1>2. Linked
    BY <1>1 DEF Threaded, Linked
  <1>3. /\ h_list \in Seq(Descs) /\ Len(h_list) \in Nat
        /\ \A i \in 1 .. Len(h_list) : h_list[i] \in Descs
    BY <1>1 DEF Threaded
  <1>4. Len(all) = RX_BUFFERS /\ {all[i] : i \in 1 .. RX_BUFFERS} = Descs
    <2>1. CASE HeldAt(y_pc)
      <3>1. InHand = <<y_item>> /\ y_item \in Descs /\ Len(h_list) + 1 = RX_BUFFERS
        BY <1>1, <2>1 DEF InHand, Holding, HeldAt, AllThere
      <3>2. \A d \in Descs : d = y_item \/ \E i \in 1 .. Len(h_list) : h_list[i] = d
        BY <1>1 DEF AllThere
      <3>3. /\ Len(all) = Len(h_list) + 1 /\ all[1] = y_item
            /\ \A i \in 1 .. Len(h_list) : all[i + 1] = h_list[i]
        BY <1>3, <3>1
      <3> HIDE DEF all
      <3>4. \A i \in 1 .. RX_BUFFERS : i = 1 \/ (i - 1 \in 1 .. Len(h_list) /\ (i - 1) + 1 = i)
        BY <1>3, <3>1
      <3>5. ASSUME NEW i \in 1 .. RX_BUFFERS PROVE all[i] \in Descs
        BY <1>3, <3>1, <3>3, <3>4
      <3>6. ASSUME NEW d \in Descs PROVE \E i \in 1 .. RX_BUFFERS : all[i] = d
        <4>1. 1 \in 1 .. RX_BUFFERS /\ \A i \in 1 .. Len(h_list) : i + 1 \in 1 .. RX_BUFFERS
          BY <1>3, <3>1
        <4> QED
          BY <3>2, <3>3, <4>1
      <3> QED
        BY <3>1, <3>3, <3>5, <3>6
    <2>2. CASE ~HeldAt(y_pc)
      <3>1. InHand = <<>> /\ Len(h_list) = RX_BUFFERS
        BY <1>1, <1>3, <2>2 DEF InHand, Holding, HeldAt, AllThere
      <3>2. all = h_list
        BY <1>3, <3>1
      <3>3. \A d \in Descs : \E i \in 1 .. Len(h_list) : h_list[i] = d
        BY <1>1, <2>2 DEF AllThere
      <3> HIDE DEF all
      <3> QED
        BY <1>3, <3>1, <3>2, <3>3
    <2> QED
      BY <2>1, <2>2
  <1>5. ASSUME NEW i \in 1 .. Len(h_list), y_data[h_list[i]] # 0
        PROVE  y_data[h_list[i]] = i + h_read + (IF y_pc = "decode" THEN 1 ELSE 0)
    <2>1. y_data[h_list[i]] = base + i
      BY <1>1, <1>5 DEF FilledUpTo
    <2> QED
      BY <1>1, <1>3, <2>1 DEF ReadBy
  <1> QED
    BY <1>2, <1>4, <1>5

\* No frame is lost, overwritten or read out of order between the hardware and
\* wifi_rx_task, for any number of descriptors, any burst and any run of frames.
THEOREM FramesAlwaysKept == MacSpec => []FramesAreKept
  BY MacInitHolds, MacStepHolds, MacInvMeans, PTL DEF MacSpec

-----------------------------------------------------------------------------
(* The WiFi view, its jobs and its records (WifiApp.tla).                   *)

\* A record has one entry for a network.
RecOk(rec) ==
    /\ rec \in Seq(Nets \X Passes)
    /\ \A i, j \in DOMAIN rec : rec[i][1] = rec[j][1] => i = j

LEMMA RecRows ==
    ASSUME NEW rec, RecOk(rec)
    PROVE  /\ Len(rec) \in Nat /\ DOMAIN rec = 1 .. Len(rec)
           /\ \A i \in DOMAIN rec : /\ rec[i] \in Nets \X Passes /\ rec[i][1] \in Nets
                                    /\ rec[i][2] \in Passes /\ rec[i] = <<rec[i][1], rec[i][2]>>
  BY DEF RecOk

LEMMA RowIs ==
    ASSUME NEW rec, RecOk(rec), NEW i \in DOMAIN rec
    PROVE  /\ rec[i][1] \in Keys(rec) /\ RowOf(rec, rec[i][1]) = i
           /\ Entry(rec, rec[i][1]) = rec[i][2]
  <1>1. RowOf(rec, rec[i][1]) = i
    BY DEF RecOk, RowOf
  <1> QED
    BY <1>1 DEF Keys, Entry

LEMMA KeyHasRow ==
    ASSUME NEW rec, RecOk(rec), NEW net \in Keys(rec)
    PROVE  /\ RowOf(rec, net) \in DOMAIN rec /\ rec[RowOf(rec, net)][1] = net
           /\ rec[RowOf(rec, net)][2] = Entry(rec, net)
           /\ net \in Nets /\ Entry(rec, net) \in Passes
  <1>1. PICK i \in DOMAIN rec : net = rec[i][1]
    BY DEF Keys
  <1>2. RowOf(rec, net) = i /\ Entry(rec, net) = rec[i][2]
    BY <1>1, RowIs
  <1> QED
    BY <1>1, <1>2, RecRows

\* What a record says after another was put in its place.
Keeps(new, old, net) ==
    /\ RecOk(new)
    /\ \A m \in Keys(new) : m # net => m \in Keys(old) /\ Entry(new, m) = Entry(old, m)

\* One row with a network's new value.
Changed(rec, net, val) == [i \in DOMAIN rec |-> IF rec[i][1] = net THEN <<net, val>> ELSE rec[i]]

LEMMA ChangedIs ==
    ASSUME NEW rec, RecOk(rec), NEW net \in Nets, NEW val \in Passes, net \in Keys(rec)
    PROVE  /\ Keeps(Changed(rec, net, val), rec, net)
           /\ net \in Keys(Changed(rec, net, val)) /\ Entry(Changed(rec, net, val), net) = val
  <1> DEFINE new == Changed(rec, net, val)
  <1>1. /\ new \in Seq(Nets \X Passes) /\ DOMAIN new = DOMAIN rec
        /\ \A i \in DOMAIN rec : new[i] = (IF rec[i][1] = net THEN <<net, val>> ELSE rec[i])
        /\ \A i \in DOMAIN rec : new[i][1] = rec[i][1]
    BY RecRows DEF Changed
  <1> HIDE DEF new
  <1>2. RecOk(new)
    BY <1>1 DEF RecOk
  <1>3. PICK i \in DOMAIN rec : rec[i][1] = net
    BY KeyHasRow
  <1>4. net \in Keys(new) /\ Entry(new, net) = val
    <2>1. new[i] = <<net, val>> /\ new[i][1] = net /\ new[i][2] = val /\ i \in DOMAIN new
      BY <1>1, <1>3
    <2> QED
      BY <1>2, <2>1, RowIs
  <1>5. ASSUME NEW m \in Keys(new), m # net
        PROVE  m \in Keys(rec) /\ Entry(new, m) = Entry(rec, m)
    <2>1. PICK j \in DOMAIN new : m = new[j][1] /\ Entry(new, m) = new[j][2]
      BY <1>2, KeyHasRow
    <2>2. j \in DOMAIN rec /\ rec[j][1] = m /\ new[j] = rec[j]
      BY <1>1, <1>5, <2>1
    <2>3. m \in Keys(rec) /\ Entry(rec, m) = rec[j][2]
      BY <2>2, RowIs
    <2> QED
      BY <2>1, <2>2, <2>3
  <1> QED
    BY <1>2, <1>4, <1>5 DEF Keeps, new

LEMMA ShorterKeeps ==
    ASSUME NEW rec, RecOk(rec), rec # <<>>, NEW net
    PROVE  Keeps(Tail(rec), rec, net)
  <1> DEFINE new == Tail(rec)
             l == Len(rec)
  <1>1. /\ l \in Nat /\ l >= 1 /\ DOMAIN rec = 1 .. l /\ rec \in Seq(Nets \X Passes)
    BY RecRows DEF RecOk
  <1>2. /\ new \in Seq(Nets \X Passes) /\ DOMAIN new = 1 .. l - 1
        /\ \A i \in 1 .. l - 1 : new[i] = rec[i + 1]
    BY <1>1
  <1> HIDE DEF new, l
  <1>3. \A i \in 1 .. l - 1 : i + 1 \in 1 .. l
    BY <1>1
  <1>4. RecOk(new)
    <2>1. ASSUME NEW i \in 1 .. l - 1, NEW j \in 1 .. l - 1, new[i][1] = new[j][1] PROVE i = j
      <3>1. rec[i + 1][1] = rec[j + 1][1] /\ i + 1 \in DOMAIN rec /\ j + 1 \in DOMAIN rec
        BY <1>1, <1>2, <1>3, <2>1
      <3>2. i + 1 = j + 1
        BY <3>1 DEF RecOk
      <3> QED
        BY <1>1, <3>2
    <2> QED
      BY <1>2, <2>1 DEF RecOk
  <1>5. ASSUME NEW m \in Keys(new)
        PROVE  m \in Keys(rec) /\ Entry(new, m) = Entry(rec, m)
    <2>1. PICK j \in DOMAIN new : m = new[j][1] /\ Entry(new, m) = new[j][2]
      BY <1>4, KeyHasRow
    <2>2. j + 1 \in DOMAIN rec /\ rec[j + 1] = new[j]
      BY <1>1, <1>2, <1>3, <2>1
    <2>3. m \in Keys(rec) /\ Entry(rec, m) = rec[j + 1][2]
      BY <2>1, <2>2, RowIs
    <2> QED
      BY <2>1, <2>2, <2>3
  <1> QED
    BY <1>4, <1>5 DEF Keeps, new

LEMMA AppendedIs ==
    ASSUME NEW rec, RecOk(rec), NEW net \in Nets, NEW val \in Passes, net \notin Keys(rec)
    PROVE  /\ Keeps(Append(rec, <<net, val>>), rec, net)
           /\ net \in Keys(Append(rec, <<net, val>>))
           /\ Entry(Append(rec, <<net, val>>), net) = val
           /\ Keys(rec) \subseteq Keys(Append(rec, <<net, val>>))
  <1> DEFINE new == Append(rec, <<net, val>>)
             l == Len(rec)
  <1>1. /\ l \in Nat /\ DOMAIN rec = 1 .. l /\ rec \in Seq(Nets \X Passes)
        /\ \A i \in 1 .. l : rec[i][1] # net
    BY RecRows DEF RecOk, Keys
  <1>2. /\ new \in Seq(Nets \X Passes) /\ DOMAIN new = 1 .. l + 1
        /\ new[l + 1] = <<net, val>> /\ \A i \in 1 .. l : new[i] = rec[i]
    BY <1>1
  <1> HIDE DEF new, l
  <1>3. /\ \A i \in 1 .. l + 1 : i \in 1 .. l \/ i = l + 1
        /\ l + 1 \in 1 .. l + 1 /\ \A i \in 1 .. l : i \in 1 .. l + 1
    BY <1>1
  <1>0. new[l + 1][1] = net /\ new[l + 1][2] = val
    BY <1>2
  <1>4. RecOk(new)
    <2>1. ASSUME NEW i \in 1 .. l + 1, NEW j \in 1 .. l + 1, new[i][1] = new[j][1] PROVE i = j
      <3>1. CASE i \in 1 .. l /\ j \in 1 .. l
        BY ZenonT(60), <1>1, <1>2, <2>1, <3>1 DEF RecOk
      <3>2. CASE i = l + 1 /\ j \in 1 .. l
        BY <1>0, <1>1, <1>2, <2>1, <3>2
      <3>3. CASE i \in 1 .. l /\ j = l + 1
        BY <1>0, <1>1, <1>2, <2>1, <3>3
      <3> QED
        BY <1>3, <3>1, <3>2, <3>3
    <2> QED
      BY <1>2, <2>1 DEF RecOk
  <1>5. net \in Keys(new) /\ Entry(new, net) = val
    <2>1. l + 1 \in DOMAIN new
      BY <1>2, <1>3
    <2> QED
      BY <1>0, <1>4, <2>1, RowIs
  <1>6. ASSUME NEW m \in Keys(new), m # net
        PROVE  m \in Keys(rec) /\ Entry(new, m) = Entry(rec, m)
    <2>1. PICK j \in DOMAIN new : m = new[j][1] /\ Entry(new, m) = new[j][2]
      BY <1>4, KeyHasRow
    <2>2. j \in DOMAIN rec /\ rec[j] = new[j]
      BY <1>0, <1>1, <1>2, <1>3, <1>6, <2>1
    <2>3. m \in Keys(rec) /\ Entry(rec, m) = rec[j][2]
      BY <2>1, <2>2, RowIs
    <2> QED
      BY <2>1, <2>2, <2>3
  <1>7. ASSUME NEW m \in Keys(rec) PROVE m \in Keys(new)
    <2>1. PICK j \in DOMAIN rec : m = rec[j][1]
      BY DEF Keys
    <2>2. j \in DOMAIN new /\ new[j] = rec[j]
      BY <1>1, <1>2, <1>3, <2>1
    <2> QED
      BY <2>1, <2>2 DEF Keys
  <1> QED
    BY <1>4, <1>5, <1>6, <1>7 DEF Keeps, new

\* put: the network's entry has the value, and the others are as they were or gone.
LEMMA PutIs ==
    ASSUME NEW rec, RecOk(rec), NEW net \in Nets, NEW val \in Passes
    PROVE  /\ Keeps(put(rec, net, val), rec, net)
           /\ net \in Keys(put(rec, net, val)) /\ Entry(put(rec, net, val), net) = val
  <1>1. CASE net \in Keys(rec)
    <2>1. put(rec, net, val) = Changed(rec, net, val)
      BY <1>1 DEF put, Changed
    <2> QED
      BY <1>1, <2>1, ChangedIs
  <1>2. CASE net \notin Keys(rec) /\ Len(rec) >= RecordSlots
    <2>1. put(rec, net, val) = Append(Tail(rec), <<net, val>>)
      BY <1>2 DEF put
    <2>2. rec # <<>>
      BY <1>2, WifiAssumption
    <2>3. Keeps(Tail(rec), rec, net)
      BY <2>2, ShorterKeeps
    <2>4. RecOk(Tail(rec)) /\ net \notin Keys(Tail(rec))
      <3>1. Keeps(Tail(rec), rec, NONE)
        BY <2>2, ShorterKeeps
      <3> QED
        BY <1>2, <3>1, WifiAssumption DEF Keeps
    <2>5. /\ Keeps(put(rec, net, val), Tail(rec), net)
          /\ net \in Keys(put(rec, net, val)) /\ Entry(put(rec, net, val), net) = val
      BY <2>1, <2>4, AppendedIs
    <2> QED
      BY <2>3, <2>5 DEF Keeps
  <1>3. CASE net \notin Keys(rec) /\ ~(Len(rec) >= RecordSlots)
    <2>1. put(rec, net, val) = Append(rec, <<net, val>>)
      BY <1>3 DEF put
    <2> QED
      BY <1>3, <2>1, AppendedIs
  <1> QED
    BY <1>1, <1>2, <1>3

\* forget: the network is gone and nothing else has changed.
LEMMA ForgetIs ==
    ASSUME NEW rec, RecOk(rec), NEW net
    PROVE  /\ Keeps(forget(rec, net), rec, net) /\ net \notin Keys(forget(rec, net))
           /\ \A m \in Keys(rec) : m # net => m \in Keys(forget(rec, net))
  <1> DEFINE new == forget(rec, net)
             l == Len(rec)
             k == RowOf(rec, net)
  <1>1. CASE net \notin Keys(rec)
    BY <1>1 DEF forget, Keeps
  <1>2. CASE net \in Keys(rec)
    <2>1. /\ l \in Nat /\ DOMAIN rec = 1 .. l /\ k \in 1 .. l /\ rec[k][1] = net
          /\ \A i \in 1 .. l : rec[i] \in Nets \X Passes
          /\ \A i, j \in 1 .. l : rec[i][1] = rec[j][1] => i = j
      BY <1>2, RecRows, KeyHasRow DEF RecOk
    <2>2. new = [i \in 1 .. l - 1 |-> rec[IF i < k THEN i ELSE i + 1]]
      BY <1>2 DEF forget
    <2> HIDE DEF l, k, new
    <2>3. \A i \in 1 .. l - 1 : (IF i < k THEN i ELSE i + 1) \in 1 .. l
      BY <2>1
    <2>4. /\ DOMAIN new = 1 .. l - 1 /\ \A i \in 1 .. l - 1 : new[i] = rec[IF i < k THEN i ELSE i + 1]
          /\ \A i \in 1 .. l - 1 : new[i] \in Nets \X Passes
      BY <2>1, <2>2, <2>3
    <2>5. new \in Seq(Nets \X Passes)
      <3>1. l - 1 \in Nat
        BY <2>1
      <3> QED
        BY <2>2, <2>4, <3>1
    <2>6. \A i \in 1 .. l - 1 : new[i][1] # net
      <3>1. \A i \in 1 .. l - 1 : (IF i < k THEN i ELSE i + 1) # k
        BY <2>1
      <3> QED
        BY <2>1, <2>3, <2>4, <3>1
    <2>7. RecOk(new)
      <3>1. ASSUME NEW i \in 1 .. l - 1, NEW j \in 1 .. l - 1, new[i][1] = new[j][1] PROVE i = j
        <4>1. (IF i < k THEN i ELSE i + 1) = (IF j < k THEN j ELSE j + 1)
          BY <2>1, <2>3, <2>4, <3>1
        <4> QED
          BY <2>1, <4>1
      <3> QED
        BY <2>4, <2>5, <3>1 DEF RecOk
    <2>8. ASSUME NEW m \in Keys(new) PROVE m # net /\ m \in Keys(rec) /\ Entry(new, m) = Entry(rec, m)
      <3>1. PICK j \in DOMAIN new : m = new[j][1] /\ Entry(new, m) = new[j][2]
        BY <2>7, KeyHasRow
      <3>2. PICK i \in DOMAIN rec : new[j] = rec[i]
        BY <2>1, <2>3, <2>4, <3>1
      <3>3. rec[i][1] \in Keys(rec) /\ Entry(rec, rec[i][1]) = rec[i][2]
        BY <3>2, RowIs
      <3> QED
        BY <2>4, <2>6, <3>1, <3>2, <3>3
    <2>9. ASSUME NEW m \in Keys(rec), m # net PROVE m \in Keys(new)
      <3>1. PICK j \in 1 .. l : m = rec[j][1]
        BY <2>1 DEF Keys
      <3>2. j # k
        BY <2>1, <2>9, <3>1
      <3>3. PICK i \in 1 .. l - 1 : j = (IF i < k THEN i ELSE i + 1)
        <4>1. CASE j < k
          <5>1. j \in 1 .. l - 1
            BY <2>1, <4>1
          <5> QED
            BY <4>1, <5>1
        <4>2. CASE ~(j < k)
          <5>1. j - 1 \in 1 .. l - 1 /\ ~(j - 1 < k) /\ j = (j - 1) + 1
            BY <2>1, <3>2, <4>2
          <5> QED
            BY <5>1
        <4> QED
          BY <4>1, <4>2
      <3> QED
        BY <2>4, <3>1, <3>3 DEF Keys
    <2> QED
      BY <2>7, <2>8, <2>9 DEF Keeps, new
  <1> QED
    BY <1>1, <1>2

\* The networks heard on a channel, as a list.
LEMMA HeardIsList ==
    ASSUME NEW S \in SUBSET Nets
    PROVE  SetToSeq(S) \in Seq(Nets)
  <1>1. IsFiniteSet(S)
    BY WifiAssumption, FS_Subset
  <1>2. Cardinality(S) \in Nat /\ ExistsBijection(1 .. Cardinality(S), S)
    BY <1>1, FS_CardinalityType
  <1>3. PICK f \in [1 .. Cardinality(S) -> S] : IsInjective(f)
    BY <1>2 DEF ExistsBijection, Bijection, Injection
  <1>4. SetToSeq(S) \in [1 .. Cardinality(S) -> S]
    BY <1>3 DEF SetToSeq
  <1> QED
    BY <1>2, <1>4

-----------------------------------------------------------------------------
Jobs == {"none", "start", "join", "autojoin"}

WifiTypes ==
    /\ RecOk(w_cred) /\ RecOk(w_pmk) /\ g_aps \in Seq(Nets) /\ w_pref \in Nets \cup {NONE}
    /\ g_hs_pass \in Passes /\ g_pass \in Passes \cup {NONE}
    /\ g_fn \in Jobs /\ n_job \in Jobs
    /\ n_pc \in {"idle", "took", "starting", "joining", "sweep"}
    /\ g_running \in BOOLEAN /\ blob_ready \in BOOLEAN /\ g_wpa_conn_cb \in BOOLEAN

\* Where the net task is tells which job it has.
TaskKept ==
    /\ n_pc = "joining" => g_running = TRUE /\ n_job \in {"join", "autojoin"} /\ r_key[1] \in Nets
    /\ n_pc \in {"idle", "sweep"} => n_job = NONE
    /\ n_pc = "starting" => n_job = "start"

\* Before the radio is up there is nothing to list, to join or to be on.
StartKept ==
    /\ blob_ready = FALSE => /\ g_aps = <<>> /\ g_wpa_conn_cb = FALSE /\ n_pc \notin {"sweep", "joining"}
                             /\ n_job \in {NONE, "start"} /\ g_fn \in {NONE, "start"}
    /\ g_fn = "start" \/ n_job = "start" =>
           g_aps = <<>> /\ g_wpa_conn_cb = FALSE /\ n_pc \notin {"sweep", "joining"}
    /\ g_fn = "start" => n_job \in {NONE, "start"}

\* The passphrase asked for is that of a listed network which has none.
AskKept == g_state = "ASKPASS" => /\ g_fn = NONE /\ g_ask \in DOMAIN g_aps
                                  /\ g_aps[g_ask] \notin Keys(w_cred)

\* A passphrase fit to join a network with: the saved one, or none where the key is
\* cached already.
FitToJoin(net, pass, cred, pmk, pref) ==
    \/ net = pref /\ net \in Keys(pmk)
    \/ net \in Keys(cred) /\ (pass = NONE \/ pass = Entry(cred, net))

JoinOut == g_fn = "join" \/ (n_pc = "took" /\ n_job = "join")
AutoOut == g_fn = "autojoin" \/ (n_pc = "took" /\ n_job = "autojoin")

KeysFit(cred, pmk) == \A net \in Keys(pmk) : net \in Keys(cred) /\ Entry(cred, net) = Entry(pmk, net)

FaithKept ==
    /\ KeysFit(w_cred, w_pmk)
    /\ g_wpa_conn_cb = TRUE \/ n_pc = "joining" => r_key[1] \in Keys(w_pmk)
    /\ g_wpa_conn_cb = TRUE /\ n_pc # "joining" => w_pref = r_key[1]
    /\ n_pc = "joining" /\ n_job = "autojoin" => w_pref = r_key[1]
    /\ AutoOut => w_pref \in Keys(w_cred)
    /\ JoinOut /\ g_join_row \in DOMAIN g_aps =>
           FitToJoin(g_aps[g_join_row], g_pass, w_cred, w_pmk, w_pref)
    /\ g_fn = "join" /\ n_pc = "joining" /\ n_job = "join" => g_join_row = 0
    /\ g_fn = "join" /\ n_pc = "sweep" => g_join_row \in DOMAIN g_aps

WifiInv == /\ WifiTypes /\ TaskKept /\ StartKept /\ AskKept /\ w_loose \in BOOLEAN
           /\ w_loose = FALSE => FaithKept
           /\ StartingIsAnswered

-----------------------------------------------------------------------------
LEMMA WifiInitHolds == WifiInit => WifiInv
  <1> SUFFICES ASSUME WifiInit PROVE WifiInv
    OBVIOUS
  <1>1. RecOk(<<>>) /\ Keys(<<>>) = {}
    BY DEF RecOk, Keys
  <1>2. WifiTypes
    <2>1. RecOk(w_cred) /\ RecOk(w_pmk) /\ g_aps \in Seq(Nets)
      BY <1>1 DEF WifiInit
    <2>2. w_pref \in Nets \cup {NONE} /\ g_hs_pass \in Passes /\ g_pass \in Passes \cup {NONE}
      BY WifiAssumption DEF WifiInit
    <2>3. g_running \in BOOLEAN /\ blob_ready \in BOOLEAN /\ g_wpa_conn_cb \in BOOLEAN
      BY DEF WifiInit
    <2>4. g_fn \in Jobs /\ n_job \in Jobs /\ n_pc \in {"idle", "took", "starting", "joining", "sweep"}
      BY DEF WifiInit, Jobs, NONE
    <2> QED
      BY <2>1, <2>2, <2>3, <2>4 DEF WifiTypes
  <1>3. TaskKept /\ StartKept
    BY DEF WifiInit, TaskKept, StartKept, NONE
  <1>4. AskKept /\ w_loose \in BOOLEAN /\ StartingIsAnswered
    BY DEF WifiInit, AskKept, StartingIsAnswered
  <1>5. FaithKept
    BY <1>1 DEF WifiInit, FaithKept, KeysFit, AutoOut, JoinOut, NONE
  <1> QED
    BY <1>2, <1>3, <1>4, <1>5 DEF WifiInv

\* The list after the view was settled: as it was given, or the preferred network alone
\* where the radio is on one.
Listed(aps, conn, pref, list) ==
    list = aps \/ (aps = <<>> /\ conn = TRUE /\ pref # NONE /\ list = <<pref>>)

LEMMA ListedIsList ==
    ASSUME NEW aps \in Seq(Nets), NEW conn, NEW pref \in Nets \cup {NONE}, NEW list,
           Listed(aps, conn, pref, list)
    PROVE  /\ list \in Seq(Nets)
           /\ conn = FALSE => list = aps
           /\ list # aps => aps = <<>> /\ conn = TRUE /\ DOMAIN list = {1} /\ list[1] = pref
  <1>1. CASE list = aps
    BY <1>1
  <1>2. CASE aps = <<>> /\ conn = TRUE /\ pref # NONE /\ list = <<pref>>
    <2>1. pref \in Nets
      BY <1>2
    <2>2. <<pref>> \in Seq(Nets) /\ DOMAIN <<pref>> = {1} /\ <<pref>>[1] = pref
      BY <2>1
    <2> QED
      BY <1>2, <2>2
  <1> QED
    BY <1>1, <1>2 DEF Listed

\* The queue after the view was settled: as it was, or the join of the preferred network.
Queued(fn, pref, job) ==
    \/ job = fn
    \/ fn = NONE /\ job = "autojoin" /\ g_running = FALSE /\ blob_ready = TRUE /\ pref \in Keys(w_cred)

\* The view settled, and nothing else: wifiapp_open, wifiapp_service.
LEMMA SettledHolds ==
    ASSUME WifiInv, NEW fn,
           fn = g_fn \/ (g_fn = NONE /\ g_running = FALSE /\ blob_ready = FALSE /\ fn = "start"),
           Listed(g_aps, g_wpa_conn_cb, w_pref, g_aps'), Queued(fn, w_pref, g_fn'),
           UNCHANGED <<recVars, g_pass, g_join_row, g_running, n_pc, n_job, radVars>>,
           g_state' # "ASKPASS", StartingIsAnswered'
    PROVE  WifiInv'
  <1>0. WifiTypes /\ TaskKept /\ StartKept /\ (w_loose = FALSE => FaithKept) /\ w_loose \in BOOLEAN
    BY DEF WifiInv
  <1>1. /\ w_cred' = w_cred /\ w_pmk' = w_pmk /\ w_pref' = w_pref /\ w_loose' = w_loose
        /\ g_pass' = g_pass /\ g_join_row' = g_join_row /\ g_running' = g_running /\ n_pc' = n_pc
        /\ n_job' = n_job /\ blob_ready' = blob_ready /\ g_wpa_conn_cb' = g_wpa_conn_cb
        /\ g_hs_pass' = g_hs_pass /\ r_key' = r_key
    BY DEF recVars, radVars
  <1>2. /\ g_aps' \in Seq(Nets)
        /\ g_wpa_conn_cb = FALSE => g_aps' = g_aps
        /\ g_aps' # g_aps => g_aps = <<>> /\ g_wpa_conn_cb = TRUE /\ DOMAIN g_aps' = {1} /\ g_aps'[1] = w_pref
    BY <1>0, ListedIsList DEF WifiTypes
  <1>3. /\ g_fn' \in {g_fn, "start", "autojoin"}
        /\ g_fn' # g_fn => g_fn = NONE /\ g_running = FALSE
        /\ g_fn' # g_fn /\ g_fn' = "start" => blob_ready = FALSE
        /\ g_fn' # g_fn /\ g_fn' = "autojoin" => blob_ready = TRUE /\ w_pref \in Keys(w_cred)
    BY DEF Queued, NONE
  <1>4. WifiTypes'
    <2>1. g_fn' \in Jobs
      BY <1>0, <1>3 DEF WifiTypes, Jobs
    <2>2. RecOk(w_cred') /\ RecOk(w_pmk')
      BY <1>0, <1>1 DEF WifiTypes
    <2>3. /\ w_pref' \in Nets \cup {NONE} /\ g_hs_pass' \in Passes /\ g_pass' \in Passes \cup {NONE}
          /\ n_job' \in Jobs /\ n_pc' \in {"idle", "took", "starting", "joining", "sweep"}
      BY <1>0, <1>1 DEF WifiTypes
    <2>4. g_running' \in BOOLEAN /\ blob_ready' \in BOOLEAN /\ g_wpa_conn_cb' \in BOOLEAN
      BY <1>0, <1>1 DEF WifiTypes
    <2> QED
      BY <1>2, <2>1, <2>2, <2>3, <2>4 DEF WifiTypes
  <1>5. TaskKept'
    BY <1>0, <1>1 DEF TaskKept
  <1>6. StartKept'
    BY <1>0, <1>1, <1>2, <1>3 DEF StartKept, TaskKept, WifiTypes
  <1>7. AskKept'
    BY DEF AskKept
  <1>8. ASSUME w_loose = FALSE PROVE FaithKept'
    <2>0. FaithKept
      BY <1>0, <1>8
    <2>1. (AutoOut => w_pref \in Keys(w_cred))'
      BY <1>1, <1>3, <2>0 DEF FaithKept, AutoOut
    <2>2. JoinOut' => JoinOut
      BY <1>1, <1>3 DEF JoinOut
    <2>3. (JoinOut /\ g_join_row \in DOMAIN g_aps =>
             FitToJoin(g_aps[g_join_row], g_pass, w_cred, w_pmk, w_pref))'
      <3>1. CASE g_aps' = g_aps
        BY <1>1, <2>0, <2>2, <3>1 DEF FaithKept
      <3>2. CASE g_aps' # g_aps
        <4>0. SUFFICES ASSUME JoinOut', g_join_row \in DOMAIN g_aps'
                       PROVE  FitToJoin(g_aps'[g_join_row], g_pass, w_cred, w_pmk, w_pref)
          BY <1>1
        <4>1. g_join_row = 1 /\ g_aps'[g_join_row] = w_pref /\ g_wpa_conn_cb = TRUE
          BY <1>2, <3>2, <4>0
        <4>2. r_key[1] \in Keys(w_pmk)
          BY <2>0, <4>1 DEF FaithKept
        <4>3. w_pref = r_key[1]
          <5>1. CASE n_pc # "joining"
            BY <2>0, <4>1, <5>1 DEF FaithKept
          <5>2. CASE n_pc = "joining" /\ n_job = "autojoin"
            BY <2>0, <5>2 DEF FaithKept
          <5>3. CASE n_pc = "joining" /\ n_job = "join"
            BY <2>0, <2>2, <4>0, <4>1, <5>3 DEF FaithKept, JoinOut
          <5> QED
            BY <1>0, <5>1, <5>2, <5>3 DEF TaskKept
        <4> QED
          BY <4>1, <4>2, <4>3 DEF FitToJoin
      <3> QED
        BY <3>1, <3>2
    <2>4. (g_fn = "join" /\ n_pc = "sweep" => g_join_row \in DOMAIN g_aps)'
      <3>0. SUFFICES ASSUME g_fn' = "join", n_pc = "sweep" PROVE g_join_row \in DOMAIN g_aps'
        BY <1>1
      <3>1. g_fn = "join"
        BY <1>3, <3>0
      <3>2. g_join_row \in DOMAIN g_aps
        BY <2>0, <3>0, <3>1 DEF FaithKept
      <3>3. g_aps # <<>>
        BY <3>2
      <3> QED
        BY <1>2, <3>2, <3>3
    <2>5. (g_fn = "join" /\ n_pc = "joining" /\ n_job = "join" => g_join_row = 0)'
      BY <1>1, <1>3, <2>0 DEF FaithKept
    <2> QED
      BY <1>1, <2>0, <2>1, <2>3, <2>4, <2>5 DEF FaithKept
  <1> QED
    BY <1>0, <1>1, <1>4, <1>5, <1>6, <1>7, <1>8 DEF WifiInv

LEMMA OpenHolds == WifiInv /\ wifiapp_open => WifiInv'
  <1> SUFFICES ASSUME WifiInv, wifiapp_open PROVE WifiInv'
    OBVIOUS
  <1>0. g_running \in BOOLEAN /\ blob_ready \in BOOLEAN /\ g_wpa_conn_cb \in BOOLEAN
    BY DEF WifiInv, WifiTypes
  <1>1. UNCHANGED <<recVars, g_pass, g_join_row, g_running, n_pc, n_job, radVars>>
    BY DEF wifiapp_open
  <1>2. CASE w_enabled
    <2> DEFINE fn == IF blob_ready THEN g_fn ELSE Submitted("start")
    <2>1. fn = g_fn \/ (g_fn = NONE /\ g_running = FALSE /\ blob_ready = FALSE /\ fn = "start")
      BY <1>0 DEF Submitted, job_busy
    <2>2. view_settle(g_aps, 0, g_wpa_conn_cb, fn, w_pref)
      BY <1>2 DEF wifiapp_open
    <2> HIDE DEF fn
    <2>3. /\ Listed(g_aps, g_wpa_conn_cb, w_pref, g_aps') /\ Queued(fn, w_pref, g_fn')
          /\ g_state' # "ASKPASS" /\ (g_state' = "STARTING" => g_fn' # NONE \/ g_running = TRUE)
      BY <1>0, <2>2 DEF view_settle, Listed, Queued, NONE
    <2>4. StartingIsAnswered'
      BY <1>0, <1>1, <2>3 DEF StartingIsAnswered, job_busy
    <2> QED
      BY <1>1, <2>1, <2>3, <2>4, SettledHolds
  <1>3. CASE ~w_enabled
    <2>1. g_state' = "NORADIO" /\ g_aps' = g_aps /\ g_fn' = g_fn
      BY <1>3 DEF wifiapp_open
    <2>2. Listed(g_aps, g_wpa_conn_cb, w_pref, g_aps') /\ Queued(g_fn, w_pref, g_fn')
          /\ g_state' # "ASKPASS" /\ StartingIsAnswered'
      BY <2>1 DEF Listed, Queued, StartingIsAnswered
    <2> QED
      BY <1>1, <2>2, SettledHolds
  <1> QED
    BY <1>2, <1>3

LEMMA ServiceHolds == WifiInv /\ wifiapp_service => WifiInv'
  <1> SUFFICES ASSUME WifiInv, wifiapp_service PROVE WifiInv'
    OBVIOUS
  <1>0. g_running \in BOOLEAN /\ blob_ready \in BOOLEAN /\ g_wpa_conn_cb \in BOOLEAN
    BY DEF WifiInv, WifiTypes
  <1>1. UNCHANGED <<recVars, g_pass, g_join_row, g_running, n_pc, n_job, radVars>>
    BY DEF wifiapp_service
  <1>2. CASE g_state = "STARTING"
    <2>2. view_settle(g_aps, g_sel, g_wpa_conn_cb, g_fn, w_pref)
      BY <1>2 DEF wifiapp_service
    <2>3. /\ Listed(g_aps, g_wpa_conn_cb, w_pref, g_aps') /\ Queued(g_fn, w_pref, g_fn')
          /\ g_state' # "ASKPASS" /\ (g_state' = "STARTING" => g_fn' # NONE \/ g_running = TRUE)
      BY <1>0, <2>2 DEF view_settle, Listed, Queued, NONE
    <2>4. StartingIsAnswered'
      BY <1>0, <1>1, <2>3 DEF StartingIsAnswered, job_busy
    <2> QED
      BY <1>1, <2>3, <2>4, SettledHolds
  <1>3. CASE g_state # "STARTING"
    <2>1. g_state' = g_state /\ g_aps' = g_aps /\ g_fn' = g_fn /\ g_ask' = g_ask
      BY <1>3 DEF wifiapp_service
    <2> QED
      BY <1>1, <1>3, <2>1 DEF WifiInv, WifiTypes, TaskKept, StartKept, AskKept, FaithKept, AutoOut,
                              JoinOut, StartingIsAnswered, recVars, radVars
  <1> QED
    BY <1>2, <1>3

\* A tap on a row.
LEMMA TapHolds == ASSUME WifiInv, NEW i, TapRow(i) PROVE WifiInv'
  <1>0. WifiTypes /\ TaskKept /\ StartKept /\ (w_loose = FALSE => FaithKept) /\ w_loose \in BOOLEAN
    BY DEF WifiInv
  <1>1. /\ w_cred' = w_cred /\ w_pmk' = w_pmk /\ w_pref' = w_pref /\ w_loose' = w_loose
        /\ g_aps' = g_aps /\ g_running' = g_running /\ n_pc' = n_pc
        /\ n_job' = n_job /\ blob_ready' = blob_ready /\ g_wpa_conn_cb' = g_wpa_conn_cb
        /\ g_hs_pass' = g_hs_pass /\ r_key' = r_key /\ i \in DOMAIN g_aps
    BY DEF TapRow, recVars, radVars
  <1>2. CASE g_sel # i
    <2>1. g_state' = g_state /\ g_ask' = g_ask /\ g_pass' = g_pass /\ g_join_row' = g_join_row
          /\ g_fn' = g_fn /\ j_new' = j_new
      BY <1>2 DEF TapRow
    <2> QED
      BY <1>1, <2>1 DEF WifiInv, WifiTypes, TaskKept, StartKept, AskKept, FaithKept, AutoOut,
                        JoinOut, StartingIsAnswered, job_busy
  <1>3. CASE g_sel = i
    <2>1. /\ g_fn = NONE /\ g_running = FALSE /\ g_pass' = Stored(w_cred, g_aps[i])
          /\ IF g_aps[i] \in Keys(w_cred)
             THEN g_join_row' = i /\ g_fn' = "join" /\ g_state' = "DERIVING"
             ELSE g_ask' = i /\ g_state' = "ASKPASS" /\ g_join_row' = g_join_row /\ g_fn' = g_fn
      BY <1>0, <1>3 DEF TapRow, job_busy, Submitted, WifiTypes
    <2>2. g_aps # <<>> /\ blob_ready = TRUE /\ n_job # "start"
      BY <1>0, <1>1 DEF StartKept, WifiTypes
    <2>3. /\ g_aps[i] \in Keys(w_cred) => g_pass' = Entry(w_cred, g_aps[i]) /\ g_pass' \in Passes
          /\ g_aps[i] \notin Keys(w_cred) => g_pass' = NONE
      BY <1>0, <2>1, KeyHasRow DEF Stored, WifiTypes
    <2>4. g_fn' = g_fn \/ g_fn' = "join"
      BY <2>1
    <2>5. WifiTypes'
      <3>1. g_fn' \in Jobs /\ g_pass' \in Passes \cup {NONE}
        BY <1>0, <2>3, <2>4 DEF WifiTypes, Jobs
      <3> QED
        BY <1>0, <1>1, <3>1 DEF WifiTypes
    <2>6. TaskKept'
      BY <1>0, <1>1 DEF TaskKept
    <2>7. StartKept'
      BY <1>0, <1>1, <2>1, <2>2, <2>4 DEF StartKept, NONE
    <2>8. AskKept'
      BY <1>1, <2>1 DEF AskKept
    <2>9. ASSUME w_loose = FALSE PROVE FaithKept'
      <3>0. FaithKept
        BY <1>0, <2>9
      <3>1. (AutoOut => w_pref \in Keys(w_cred))'
        BY <1>1, <2>4, <3>0 DEF FaithKept, AutoOut
      <3>2. (JoinOut /\ g_join_row \in DOMAIN g_aps =>
               FitToJoin(g_aps[g_join_row], g_pass, w_cred, w_pmk, w_pref))'
        <4>1. CASE g_aps[i] \in Keys(w_cred)
          BY <1>1, <2>1, <2>3, <4>1 DEF FitToJoin
        <4>2. CASE g_aps[i] \notin Keys(w_cred)
          <5>1. g_join_row' = g_join_row /\ g_fn' = g_fn /\ g_pass' = NONE
            BY <2>1, <2>3, <4>2
          <5> QED
            BY <1>1, <3>0, <5>1 DEF FaithKept, JoinOut, FitToJoin
        <4> QED
          BY <4>1, <4>2
      <3>3. (g_fn = "join" /\ n_pc = "sweep" => g_join_row \in DOMAIN g_aps)'
        BY <1>1, <2>1, <3>0 DEF FaithKept, NONE
      <3>4. (g_fn = "join" /\ n_pc = "joining" /\ n_job = "join" => g_join_row = 0)'
        BY <1>0, <1>1, <2>1 DEF TaskKept, NONE
      <3> QED
        BY <1>1, <3>0, <3>1, <3>2, <3>3, <3>4 DEF FaithKept
    <2>10. StartingIsAnswered'
      BY <2>1 DEF StartingIsAnswered
    <2> QED
      BY <1>0, <1>1, <2>5, <2>6, <2>7, <2>8, <2>9, <2>10 DEF WifiInv
  <1> QED
    BY <1>2, <1>3

\* A passphrase typed.
LEMMA SubmitHolds == ASSUME WifiInv, NEW pass \in Passes, SubmitPass(pass) PROVE WifiInv'
  <1>0. WifiTypes /\ TaskKept /\ StartKept /\ (w_loose = FALSE => FaithKept) /\ w_loose \in BOOLEAN
    BY DEF WifiInv
  <1> DEFINE net == g_aps[g_ask]
  <1>1. /\ g_fn = NONE /\ g_ask \in DOMAIN g_aps /\ net \notin Keys(w_cred) /\ net \in Nets
    BY <1>0 DEF WifiInv, AskKept, SubmitPass, WifiTypes
  <1>2. /\ w_pmk' = w_pmk /\ w_pref' = w_pref
        /\ g_aps' = g_aps /\ g_running' = g_running /\ n_pc' = n_pc
        /\ n_job' = n_job /\ blob_ready' = blob_ready /\ g_wpa_conn_cb' = g_wpa_conn_cb
        /\ g_hs_pass' = g_hs_pass /\ r_key' = r_key
        /\ g_pass' = pass /\ g_join_row' = g_ask /\ g_state' = "DERIVING"
        /\ w_cred' = put(w_cred, net, pass)
        /\ w_loose' = (w_loose \/ ~(Keys(w_cred) \subseteq Keys(w_cred')))
        /\ g_fn' = Submitted("join")
    BY <1>1 DEF SubmitPass, wificred_put, radVars
  <1>3. (g_fn' = NONE /\ g_running = TRUE) \/ (g_fn' = "join" /\ g_running = FALSE)
    BY <1>0, <1>1, <1>2 DEF Submitted, job_busy, WifiTypes
  <1>4. g_aps # <<>> /\ blob_ready = TRUE /\ n_job # "start"
    BY <1>0, <1>1 DEF StartKept, WifiTypes
  <1>5. Keeps(w_cred', w_cred, net) /\ net \in Keys(w_cred') /\ Entry(w_cred', net) = pass
    BY <1>0, <1>1, <1>2, PutIs DEF WifiTypes
  <1> HIDE DEF net
  <1>6. WifiTypes'
    <2>1. g_fn' \in Jobs /\ g_pass' \in Passes \cup {NONE} /\ RecOk(w_cred')
      BY <1>2, <1>3, <1>5 DEF Keeps, Jobs, NONE
    <2> QED
      BY <1>0, <1>2, <2>1 DEF WifiTypes
  <1>7. TaskKept'
    BY <1>0, <1>2 DEF TaskKept
  <1>8. StartKept'
    BY <1>0, <1>2, <1>3, <1>4 DEF StartKept, NONE
  <1>9. AskKept' /\ StartingIsAnswered'
    BY <1>2 DEF AskKept, StartingIsAnswered
  <1>10. w_loose' \in BOOLEAN
    BY <1>2
  <1>11. ASSUME w_loose' = FALSE PROVE FaithKept'
    <2>0. w_loose = FALSE /\ Keys(w_cred) \subseteq Keys(w_cred')
      BY <1>0, <1>2, <1>11
    <2>1. FaithKept
      BY <1>0, <2>0
    <2>2. KeysFit(w_cred', w_pmk')
      <3>1. KeysFit(w_cred, w_pmk)
        BY <2>1 DEF FaithKept
      <3> QED
        BY <1>1, <1>2, <1>5, <2>0, <3>1 DEF KeysFit, Keeps
    <2>3. (AutoOut => w_pref \in Keys(w_cred))'
      BY <1>1, <1>2, <1>3, <2>0, <2>1 DEF FaithKept, AutoOut, NONE
    <2>4. FitToJoin(g_aps'[g_join_row'], g_pass', w_cred', w_pmk', w_pref')
      BY <1>2, <1>5 DEF FitToJoin, net
    <2>5. (g_fn = "join" /\ n_pc = "sweep" => g_join_row \in DOMAIN g_aps)'
      BY <1>1, <1>2
    <2>6. (g_fn = "join" /\ n_pc = "joining" /\ n_job = "join" => g_join_row = 0)'
      BY <1>0, <1>2, <1>3 DEF TaskKept, NONE
    <2> QED
      BY <1>2, <2>1, <2>2, <2>3, <2>4, <2>5, <2>6 DEF FaithKept
  <1> QED
    BY <1>6, <1>7, <1>8, <1>9, <1>10, <1>11 DEF WifiInv

\* The driver's disconnect leaves the supplicant's flag down.
LEMMA LeftAll == ASSUME WifiInv, wifi_leave PROVE g_wpa_conn_cb' = FALSE
  BY DEF WifiInv, WifiTypes, StartKept, wifi_leave

LEMMA ToggleHolds == WifiInv /\ ToggleRadio => WifiInv'
  <1> SUFFICES ASSUME WifiInv, ToggleRadio PROVE WifiInv'
    OBVIOUS
  <1>0. WifiTypes /\ TaskKept /\ StartKept /\ (w_loose = FALSE => FaithKept) /\ w_loose \in BOOLEAN
    BY DEF WifiInv
  <1>1. /\ w_cred' = w_cred /\ w_pmk' = w_pmk /\ w_pref' = w_pref
        /\ w_loose' = (w_loose \/ (n_pc = "sweep" /\ g_fn = "join"))
        /\ g_pass' = g_pass /\ g_join_row' = g_join_row /\ g_running' = g_running /\ n_pc' = n_pc
        /\ n_job' = n_job /\ blob_ready' = blob_ready /\ g_hs_pass' = g_hs_pass /\ r_key' = r_key
    BY DEF ToggleRadio
  <1>2. g_wpa_conn_cb' = g_wpa_conn_cb \/ g_wpa_conn_cb' = FALSE
    BY LeftAll DEF ToggleRadio
  <1>3. /\ Listed(<<>>, g_wpa_conn_cb', w_pref, g_aps') /\ Queued(g_fn, w_pref, g_fn')
        /\ g_state' # "ASKPASS" /\ (g_state' = "STARTING" => g_fn' # NONE \/ g_running = TRUE)
    <2>1. g_running \in BOOLEAN /\ blob_ready \in BOOLEAN /\ g_wpa_conn_cb' \in BOOLEAN
      BY <1>0, <1>2 DEF WifiTypes
    <2> QED
      BY <2>1 DEF ToggleRadio, view_settle, Listed, Queued, NONE
  <1>4. /\ g_aps' \in Seq(Nets)
        /\ g_wpa_conn_cb' = FALSE => g_aps' = <<>>
        /\ g_aps' # <<>> => g_wpa_conn_cb' = TRUE /\ DOMAIN g_aps' = {1} /\ g_aps'[1] = w_pref
    <2>1. CASE g_aps' = <<>>
      BY <2>1
    <2>2. CASE g_wpa_conn_cb' = TRUE /\ w_pref # NONE /\ g_aps' = <<w_pref>>
      <3>1. w_pref \in Nets
        BY <1>0, <2>2 DEF WifiTypes
      <3>2. <<w_pref>> \in Seq(Nets) /\ DOMAIN <<w_pref>> = {1} /\ <<w_pref>>[1] = w_pref
        BY <3>1
      <3> QED
        BY <2>2, <3>2
    <2> QED
      BY <1>3, <2>1, <2>2 DEF Listed
  <1>5. /\ g_fn' \in {g_fn, "autojoin"}
        /\ g_fn' # g_fn => g_fn = NONE /\ g_running = FALSE /\ blob_ready = TRUE /\ w_pref \in Keys(w_cred)
    BY <1>3 DEF Queued
  <1>6. WifiTypes'
    <2>1. g_fn' \in Jobs /\ g_wpa_conn_cb' \in BOOLEAN
      BY <1>0, <1>2, <1>5 DEF WifiTypes, Jobs
    <2> QED
      BY <1>0, <1>1, <1>4, <2>1 DEF WifiTypes
  <1>7. TaskKept'
    BY <1>0, <1>1 DEF TaskKept
  <1>8. StartKept'
    BY <1>0, <1>1, <1>2, <1>4, <1>5 DEF StartKept, WifiTypes
  <1>9. AskKept' /\ StartingIsAnswered'
    BY <1>0, <1>1, <1>3 DEF AskKept, StartingIsAnswered, job_busy
  <1>10. w_loose' \in BOOLEAN
    BY <1>1
  <1>11. ASSUME w_loose' = FALSE PROVE FaithKept'
    <2>0. w_loose = FALSE /\ ~(n_pc = "sweep" /\ g_fn = "join")
      BY <1>0, <1>1, <1>11
    <2>1. FaithKept
      BY <1>0, <2>0
    <2>2. (AutoOut => w_pref \in Keys(w_cred))'
      BY <1>1, <1>5, <2>1 DEF FaithKept, AutoOut
    <2>3. JoinOut' => JoinOut
      BY <1>1, <1>5 DEF JoinOut
    <2>4. (JoinOut /\ g_join_row \in DOMAIN g_aps =>
             FitToJoin(g_aps[g_join_row], g_pass, w_cred, w_pmk, w_pref))'
      <3>0. SUFFICES ASSUME JoinOut', g_join_row \in DOMAIN g_aps'
                     PROVE  FitToJoin(g_aps'[g_join_row], g_pass, w_cred, w_pmk, w_pref)
        BY <1>1
      <3>1. g_join_row = 1 /\ g_aps'[g_join_row] = w_pref /\ g_wpa_conn_cb = TRUE
        BY <1>2, <1>4, <3>0
      <3>2. r_key[1] \in Keys(w_pmk)
        BY <2>1, <3>1 DEF FaithKept
      <3>3. w_pref = r_key[1]
        <4>1. CASE n_pc # "joining"
          BY <2>1, <3>1, <4>1 DEF FaithKept
        <4>2. CASE n_pc = "joining" /\ n_job = "autojoin"
          BY <2>1, <4>2 DEF FaithKept
        <4>3. CASE n_pc = "joining" /\ n_job = "join"
          BY <2>1, <2>3, <3>0, <3>1, <4>3 DEF FaithKept, JoinOut
        <4> QED
          BY <1>0, <4>1, <4>2, <4>3 DEF TaskKept
      <3> QED
        BY <3>1, <3>2, <3>3 DEF FitToJoin
    <2>5. (g_fn = "join" /\ n_pc = "sweep" => g_join_row \in DOMAIN g_aps)'
      BY <1>1, <1>5, <2>0
    <2>6. (g_fn = "join" /\ n_pc = "joining" /\ n_job = "join" => g_join_row = 0)'
      BY <1>1, <1>5, <2>1 DEF FaithKept
    <2> QED
      BY <1>1, <1>2, <2>1, <2>2, <2>4, <2>5, <2>6 DEF FaithKept
  <1> QED
    BY <1>6, <1>7, <1>8, <1>9, <1>10, <1>11 DEF WifiInv

LEMMA ForgetHolds == WifiInv /\ ForgetNetwork => WifiInv'
  <1> SUFFICES ASSUME WifiInv, ForgetNetwork PROVE WifiInv'
    OBVIOUS
  <1>0. WifiTypes /\ TaskKept /\ StartKept /\ (w_loose = FALSE => FaithKept) /\ w_loose \in BOOLEAN
    BY DEF WifiInv
  <1> DEFINE net == g_aps[g_sel]
             pref == IF w_pref = net THEN NONE ELSE w_pref
  <1>1. /\ w_pmk' = forget(w_pmk, net) /\ w_cred' = forget(w_cred, net) /\ w_pref' = pref
        /\ w_loose' = (w_loose \/ job_busy \/ n_pc = "took")
        /\ wifi_leave /\ view_settle(<<>>, 0, g_wpa_conn_cb', g_fn, pref)
        /\ g_pass' = g_pass /\ g_join_row' = g_join_row /\ g_running' = g_running /\ n_pc' = n_pc
        /\ n_job' = n_job /\ blob_ready' = blob_ready /\ g_hs_pass' = g_hs_pass /\ r_key' = r_key
        /\ g_sel \in DOMAIN g_aps
    BY DEF ForgetNetwork, can_forget, pmkcache_forget
  <1>2. g_wpa_conn_cb' = FALSE
    BY <1>1, LeftAll
  <1>3. blob_ready = TRUE /\ g_fn # "start" /\ n_job # "start"
    BY <1>0, <1>1 DEF StartKept, WifiTypes
  <1>4. /\ Keeps(w_pmk', w_pmk, net) /\ net \notin Keys(w_pmk')
        /\ Keeps(w_cred', w_cred, net) /\ net \notin Keys(w_cred')
        /\ \A m \in Keys(w_cred) : m # net => m \in Keys(w_cred')
    BY <1>0, <1>1, ForgetIs DEF WifiTypes
  <1>5. pref \in Nets \cup {NONE} /\ (pref # NONE => pref # net)
    BY <1>0 DEF WifiTypes
  <1> HIDE DEF net, pref
  <1>6. /\ g_aps' = <<>> /\ Queued(g_fn, pref, g_fn') /\ g_state' # "ASKPASS"
        /\ g_state' = "STARTING" => g_fn' # NONE \/ g_running = TRUE
    <2>1. g_running \in BOOLEAN /\ blob_ready \in BOOLEAN
      BY <1>0 DEF WifiTypes
    <2> QED
      BY <1>1, <1>2, <2>1 DEF view_settle, Queued, NONE
  <1>7. /\ g_fn' \in {g_fn, "autojoin"}
        /\ g_fn' # g_fn => g_fn = NONE /\ g_running = FALSE /\ pref \in Keys(w_cred)
    BY <1>6 DEF Queued
  <1>8. WifiTypes'
    <2>1. g_fn' \in Jobs /\ g_wpa_conn_cb' \in BOOLEAN /\ g_aps' \in Seq(Nets)
      <3>1. g_fn' \in Jobs
        BY <1>0, <1>7 DEF WifiTypes, Jobs
      <3>2. g_aps' \in Seq(Nets)
        <4>1. g_aps' = <<>>
          BY <1>6
        <4> QED
          BY <4>1
      <3> QED
        BY <1>2, <3>1, <3>2
    <2>2. RecOk(w_cred') /\ RecOk(w_pmk')
      BY <1>4 DEF Keeps
    <2> QED
      BY <1>0, <1>1, <1>5, <2>1, <2>2 DEF WifiTypes
  <1>9. TaskKept'
    BY <1>0, <1>1 DEF TaskKept
  <1>10. StartKept'
    BY <1>0, <1>1, <1>2, <1>3, <1>6, <1>7 DEF StartKept
  <1>11. AskKept' /\ StartingIsAnswered'
    BY <1>0, <1>1, <1>6 DEF AskKept, StartingIsAnswered, job_busy
  <1>12. w_loose' \in BOOLEAN
    BY <1>1
  <1>13. ASSUME w_loose' = FALSE PROVE FaithKept'
    <2>0. w_loose = FALSE /\ g_fn = NONE /\ g_running = FALSE /\ n_pc # "took" /\ n_pc # "joining"
      BY <1>0, <1>1, <1>13 DEF job_busy, TaskKept, WifiTypes
    <2>1. KeysFit(w_cred, w_pmk)
      BY <1>0, <2>0 DEF FaithKept
    <2>2. KeysFit(w_cred', w_pmk')
      BY <1>4, <2>1 DEF KeysFit, Keeps
    <2>3. (AutoOut => w_pref \in Keys(w_cred))'
      <3>1. pref \in Keys(w_cred) => pref \in Keys(w_cred')
        <4>1. NONE \notin Keys(w_cred)
          BY <1>0, KeyHasRow, WifiAssumption DEF WifiTypes
        <4> QED
          BY <1>4, <1>5, <4>1
      <3> QED
        BY <1>1, <1>7, <2>0, <3>1 DEF AutoOut, NONE
    <2>4. JoinOut' = FALSE
      BY <1>1, <1>7, <2>0 DEF JoinOut, NONE
    <2> QED
      BY <1>1, <1>2, <2>0, <2>2, <2>3, <2>4 DEF FaithKept, JoinOut
  <1> QED
    BY <1>8, <1>9, <1>10, <1>11, <1>12, <1>13 DEF WifiInv

LEMMA FrameHolds == WifiInv /\ wifiapp_frame => WifiInv'
  BY DEF WifiInv, wifiapp_frame, WifiTypes, TaskKept, StartKept, AskKept, FaithKept, AutoOut,
         JoinOut, StartingIsAnswered, recVars, jobVars, radVars

LEMMA TakeHolds == WifiInv /\ job_service => WifiInv'
  <1> SUFFICES ASSUME WifiInv, job_service PROVE WifiInv'
    OBVIOUS
  <1>0. WifiTypes /\ TaskKept /\ StartKept /\ (w_loose = FALSE => FaithKept) /\ w_loose \in BOOLEAN
    BY DEF WifiInv
  <1>1. /\ w_cred' = w_cred /\ w_pmk' = w_pmk /\ w_pref' = w_pref /\ w_loose' = w_loose
        /\ g_aps' = g_aps /\ g_running' = g_running /\ g_state' = g_state /\ g_ask' = g_ask
        /\ g_pass' = g_pass /\ g_join_row' = g_join_row
        /\ blob_ready' = blob_ready /\ g_wpa_conn_cb' = g_wpa_conn_cb
        /\ g_hs_pass' = g_hs_pass /\ r_key' = r_key
        /\ n_pc = "idle" /\ n_pc' = "took" /\ n_job' = g_fn /\ g_fn' = NONE /\ n_job = NONE
    BY <1>0 DEF job_service, recVars, viewVars, radVars, TaskKept
  <1>2. WifiTypes'
    BY <1>0, <1>1 DEF WifiTypes, Jobs, NONE
  <1>3. TaskKept' /\ StartKept'
    BY <1>0, <1>1 DEF TaskKept, StartKept, NONE
  <1>4. AskKept' /\ StartingIsAnswered'
    BY <1>1 DEF WifiInv, AskKept, StartingIsAnswered
  <1>5. (JoinOut' => JoinOut) /\ (AutoOut' => AutoOut)
    BY <1>1 DEF JoinOut, AutoOut, NONE
  <1>6. ASSUME w_loose = FALSE PROVE FaithKept'
    <2>1. FaithKept
      BY <1>0, <1>6
    <2> QED
      BY <1>1, <1>5, <2>1 DEF FaithKept
  <1> QED
    BY <1>0, <1>1, <1>2, <1>3, <1>4, <1>6 DEF WifiInv

LEMMA StartHolds == WifiInv /\ start_radio => WifiInv'
  <1> SUFFICES ASSUME WifiInv, start_radio PROVE WifiInv'
    OBVIOUS
  <1>0. WifiTypes /\ TaskKept /\ StartKept /\ (w_loose = FALSE => FaithKept) /\ w_loose \in BOOLEAN
    BY DEF WifiInv
  <1>1. /\ w_cred' = w_cred /\ w_pmk' = w_pmk /\ w_pref' = w_pref /\ w_loose' = w_loose
        /\ g_ask' = g_ask /\ g_fn' = g_fn
        /\ g_pass' = g_pass /\ g_join_row' = g_join_row
        /\ g_wpa_conn_cb' = g_wpa_conn_cb /\ g_hs_pass' = g_hs_pass /\ r_key' = r_key
        /\ n_pc \in {"took", "starting"} /\ n_job = "start" /\ g_aps' = <<>> /\ g_aps = <<>>
        /\ g_wpa_conn_cb = FALSE
    BY <1>0 DEF start_radio, recVars, radVars, TaskKept, StartKept
  <1>2. /\ n_pc' \in {"starting", "idle"} /\ g_running' \in BOOLEAN
        /\ n_pc' = "starting" => n_job' = "start" /\ g_running' = TRUE
        /\ n_pc' = "idle" => n_job' = NONE /\ j_new' = TRUE
        /\ blob_ready' = blob_ready \/ blob_ready' = TRUE
        /\ g_state' = g_state \/ g_state' # "ASKPASS"
    BY <1>1 DEF start_radio, JobEnds, radVars
  <1>3. WifiTypes'
    <2>1. g_aps' \in Seq(Nets) /\ n_job' \in Jobs /\ blob_ready' \in BOOLEAN
      BY <1>0, <1>1, <1>2 DEF WifiTypes, Jobs, NONE
    <2> QED
      BY <1>0, <1>1, <1>2, <2>1 DEF WifiTypes
  <1>4. TaskKept' /\ StartKept'
    BY <1>0, <1>1, <1>2 DEF TaskKept, StartKept, NONE, WifiTypes
  <1>5. AskKept' /\ StartingIsAnswered'
    BY <1>1, <1>2 DEF WifiInv, AskKept, StartingIsAnswered, job_busy
  <1>6. ASSUME w_loose = FALSE PROVE FaithKept'
    <2>1. FaithKept
      BY <1>0, <1>6
    <2>2. AutoOut' => AutoOut
      BY <1>1, <1>2 DEF AutoOut, NONE
    <2> QED
      BY <1>1, <1>2, <2>1, <2>2 DEF FaithKept
  <1> QED
    BY <1>0, <1>1, <1>3, <1>4, <1>5, <1>6 DEF WifiInv

\* The job that joins: no target, no radio, or a connect with the key of the cache or
\* the one derived and cached.
LEMMA JoinHolds == WifiInv /\ join => WifiInv'
  <1> SUFFICES ASSUME WifiInv, join PROVE WifiInv'
    OBVIOUS
  <1>0. WifiTypes /\ TaskKept /\ StartKept /\ (w_loose = FALSE => FaithKept) /\ w_loose \in BOOLEAN
    BY DEF WifiInv
  <1>1. /\ w_cred' = w_cred /\ w_pref' = w_pref /\ w_loose' = w_loose
        /\ g_aps' = g_aps /\ g_ask' = g_ask /\ g_pass' = g_pass /\ g_fn' = g_fn
        /\ blob_ready' = blob_ready /\ g_wpa_conn_cb' = g_wpa_conn_cb
        /\ n_pc = "took" /\ n_job \in {"join", "autojoin"}
        /\ n_job = "join" => g_join_row' = 0
        /\ n_job = "autojoin" => g_join_row' = g_join_row
    BY DEF join
  <1>2. /\ g_fn # "start" /\ blob_ready = TRUE /\ 0 \notin DOMAIN g_aps
    BY <1>0, <1>1 DEF StartKept, NONE, WifiTypes
  <1>3. CASE JobEnds /\ UNCHANGED <<w_pmk, g_hs_pass, r_key>>
    <2>1. /\ g_running' = FALSE /\ j_new' = TRUE /\ n_pc' = "idle" /\ n_job' = NONE
          /\ w_pmk' = w_pmk /\ g_hs_pass' = g_hs_pass /\ r_key' = r_key
          /\ g_state' = g_state \/ g_state' = "NORADIO"
      BY <1>1, <1>3 DEF JobEnds, join, wifi_join_ssid
    <2>2. WifiTypes'
      BY <1>0, <1>1, <2>1 DEF WifiTypes, Jobs, NONE
    <2>3. TaskKept' /\ StartKept'
      BY <1>0, <1>1, <1>2, <2>1 DEF TaskKept, StartKept, NONE
    <2>4. AskKept' /\ StartingIsAnswered'
      BY <1>1, <2>1 DEF WifiInv, AskKept, StartingIsAnswered
    <2>5. ASSUME w_loose = FALSE PROVE FaithKept'
      <3>1. FaithKept
        BY <1>0, <2>5
      <3>2. (JoinOut' => JoinOut) /\ (AutoOut' => AutoOut)
        BY <1>1, <2>1 DEF JoinOut, AutoOut, NONE
      <3>3. (JoinOut /\ g_join_row \in DOMAIN g_aps =>
               FitToJoin(g_aps[g_join_row], g_pass, w_cred, w_pmk, w_pref))'
        BY <1>1, <1>2, <2>1, <3>1, <3>2 DEF FaithKept
      <3> QED
        BY <1>1, <1>2, <2>1, <3>1, <3>2, <3>3 DEF FaithKept
    <2> QED
      BY <1>0, <1>1, <2>2, <2>3, <2>4, <2>5 DEF WifiInv
  <1>4. CASE JoinTarget # NONE /\ wifi_join_ssid(JoinTarget, JoinPass) /\ g_state' = "JOINING"
             /\ g_running' = TRUE /\ n_pc' = "joining" /\ n_job' = n_job
    <2> DEFINE net == JoinTarget
               typed == IF JoinPass = NONE THEN g_hs_pass ELSE JoinPass
    <2>1. /\ n_job = "autojoin" => net = w_pref
          /\ n_job = "join" => g_join_row \in DOMAIN g_aps /\ net = g_aps[g_join_row]
      BY <1>1, <1>4 DEF JoinTarget
    <2>2. net \in Nets
      BY <1>0, <1>1, <1>4, <2>1 DEF WifiTypes
    <2>3. typed \in Passes
      <3>1. Stored(w_cred, JoinTarget) \in Passes \cup {NONE}
        BY <1>0, KeyHasRow DEF Stored, WifiTypes
      <3>2. JoinPass \in Passes \cup {NONE}
        BY <1>0, <3>1 DEF JoinPass, WifiTypes
      <3> QED
        BY <1>0, <3>2 DEF WifiTypes
    <2>4. /\ g_hs_pass' = typed /\ r_key'[1] = net
          /\ net \in Keys(w_pmk) => w_pmk' = w_pmk
          /\ net \notin Keys(w_pmk) => w_pmk' = put(w_pmk, net, typed)
      BY <1>4 DEF wifi_join_ssid
    <2>5. /\ Keeps(w_pmk', w_pmk, net) /\ net \in Keys(w_pmk')
          /\ net \notin Keys(w_pmk) => Entry(w_pmk', net) = typed
      <3>1. CASE net \in Keys(w_pmk)
        BY <1>0, <2>4, <3>1 DEF Keeps, WifiTypes
      <3>2. CASE net \notin Keys(w_pmk)
        BY <1>0, <2>2, <2>3, <2>4, <3>2, PutIs DEF WifiTypes
      <3> QED
        BY <3>1, <3>2
    <2>6. ASSUME w_loose = FALSE, net \notin Keys(w_pmk)
          PROVE  net \in Keys(w_cred) /\ typed = Entry(w_cred, net)
      <3>0. FaithKept
        BY <1>0, <2>6
      <3>1. net \in Keys(w_cred) /\ JoinPass = Entry(w_cred, net)
        <4>1. CASE n_job = "autojoin"
          <5>1. w_pref \in Keys(w_cred)
            BY <1>1, <3>0, <4>1 DEF FaithKept, AutoOut
          <5> QED
            BY <2>1, <4>1, <5>1 DEF JoinPass, Stored
        <4>2. CASE n_job = "join"
          <5>1. FitToJoin(net, g_pass, w_cred, w_pmk, w_pref)
            BY <1>1, <2>1, <3>0, <4>2 DEF FaithKept, JoinOut
          <5>2. net \in Keys(w_cred) /\ (g_pass = NONE \/ g_pass = Entry(w_cred, net))
            BY <2>6, <5>1 DEF FitToJoin
          <5> QED
            BY <4>2, <5>2 DEF JoinPass, Stored
        <4> QED
          BY <1>1, <4>1, <4>2
      <3>2. JoinPass \in Passes
        BY <1>0, <3>1, KeyHasRow DEF WifiTypes
      <3> QED
        BY <3>1, <3>2, WifiAssumption
    <2> HIDE DEF net, typed
    <2>7. WifiTypes'
      <3>1. RecOk(w_pmk') /\ g_hs_pass' \in Passes
        BY <2>3, <2>4, <2>5 DEF Keeps
      <3> QED
        BY <1>0, <1>1, <1>4, <3>1 DEF WifiTypes
    <2>8. TaskKept' /\ StartKept'
      BY <1>0, <1>1, <1>2, <1>4, <2>2, <2>4 DEF TaskKept, StartKept, NONE
    <2>9. AskKept' /\ StartingIsAnswered'
      BY <1>4 DEF AskKept, StartingIsAnswered
    <2>10. ASSUME w_loose = FALSE PROVE FaithKept'
      <3>0. FaithKept
        BY <1>0, <2>10
      <3>1. KeysFit(w_cred', w_pmk')
        <4>1. KeysFit(w_cred, w_pmk)
          BY <3>0 DEF FaithKept
        <4>2. CASE net \in Keys(w_pmk)
          BY <1>1, <2>4, <4>1, <4>2
        <4>3. CASE net \notin Keys(w_pmk)
          BY <1>1, <2>5, <2>6, <2>10, <4>1, <4>3 DEF KeysFit, Keeps
        <4> QED
          BY <4>2, <4>3
      <3>2. (JoinOut' => JoinOut) /\ (AutoOut' => AutoOut)
        BY <1>1, <1>4 DEF JoinOut, AutoOut
      <3>3. (JoinOut /\ g_join_row \in DOMAIN g_aps =>
               FitToJoin(g_aps[g_join_row], g_pass, w_cred, w_pmk, w_pref))'
        <4>1. CASE n_job = "join"
          BY <1>1, <1>2, <4>1
        <4>2. CASE n_job = "autojoin"
          <5>0. SUFFICES ASSUME JoinOut', g_join_row \in DOMAIN g_aps
                         PROVE  FitToJoin(g_aps[g_join_row], g_pass, w_cred, w_pmk', w_pref)
            BY <1>1, <4>2
          <5>1. FitToJoin(g_aps[g_join_row], g_pass, w_cred, w_pmk, w_pref)
            BY <3>0, <3>2, <5>0 DEF FaithKept
          <5>2. w_pref \in Keys(w_pmk) => w_pref \in Keys(w_pmk')
            BY <2>1, <2>5, <4>2
          <5> QED
            BY <5>1, <5>2 DEF FitToJoin
        <4> QED
          BY <1>1, <4>1, <4>2
      <3>4. (n_pc = "joining" /\ n_job = "autojoin" => w_pref = r_key[1])'
        BY <1>1, <1>4, <2>1, <2>4
      <3> QED
        BY <1>1, <1>4, <2>4, <2>5, <3>0, <3>1, <3>2, <3>3, <3>4 DEF FaithKept
    <2> QED
      BY <1>0, <1>1, <2>7, <2>8, <2>9, <2>10 DEF WifiInv
  <1> QED
    BY <1>2, <1>3, <1>4 DEF join

\* The end of the wait for the access point.
LEMMA JoinedHolds == WifiInv /\ join_named => WifiInv'
  <1> SUFFICES ASSUME WifiInv, join_named PROVE WifiInv'
    OBVIOUS
  <1>0. WifiTypes /\ TaskKept /\ StartKept /\ (w_loose = FALSE => FaithKept) /\ w_loose \in BOOLEAN
    BY DEF WifiInv
  <1>1. /\ w_cred' = w_cred /\ w_pmk' = w_pmk /\ w_loose' = w_loose
        /\ g_aps' = g_aps /\ g_ask' = g_ask /\ g_pass' = g_pass /\ g_fn' = g_fn
        /\ g_join_row' = g_join_row /\ r_key' = r_key /\ g_hs_pass' = g_hs_pass
        /\ blob_ready' = blob_ready /\ g_wpa_conn_cb' = g_wpa_conn_cb
        /\ n_pc = "joining" /\ n_pc' = "idle" /\ n_job' = NONE /\ g_running' = FALSE
        /\ g_state' \in {"JOINED", "FAILED"}
        /\ (g_wpa_conn_cb = TRUE /\ w_pref' = r_key[1]) \/ (g_wpa_conn_cb = FALSE /\ w_pref' = w_pref)
    BY <1>0 DEF join_named, JobEnds, radVars, WifiTypes
  <1>2. n_job \in {"join", "autojoin"} /\ r_key[1] \in Nets
    BY <1>0, <1>1 DEF TaskKept
  <1>3. WifiTypes'
    <2>1. w_pref' \in Nets \cup {NONE} /\ n_job' \in Jobs
      BY <1>0, <1>1, <1>2 DEF WifiTypes, Jobs, NONE
    <2> QED
      BY <1>0, <1>1, <2>1 DEF WifiTypes
  <1>4. TaskKept' /\ StartKept'
    BY <1>0, <1>1, <1>2 DEF TaskKept, StartKept, NONE
  <1>5. AskKept' /\ StartingIsAnswered'
    BY <1>1 DEF AskKept, StartingIsAnswered
  <1>6. ASSUME w_loose = FALSE PROVE FaithKept'
    <2>1. FaithKept
      BY <1>0, <1>6
    <2>2. r_key[1] \in Keys(w_pmk) /\ r_key[1] \in Keys(w_cred)
      BY <1>1, <2>1 DEF FaithKept, KeysFit
    <2>3. (JoinOut' => JoinOut /\ g_fn = "join") /\ (AutoOut' => AutoOut)
      BY <1>1 DEF JoinOut, AutoOut
    <2>4. (JoinOut /\ g_join_row \in DOMAIN g_aps =>
             FitToJoin(g_aps[g_join_row], g_pass, w_cred, w_pmk, w_pref))'
      <3>1. CASE n_job = "autojoin"
        <4>1. w_pref' = w_pref
          BY <1>1, <2>1, <3>1 DEF FaithKept
        <4> QED
          BY <1>1, <2>1, <2>3, <4>1 DEF FaithKept
      <3>2. CASE n_job = "join"
        <4>1. JoinOut' => g_join_row = 0
          BY <1>1, <2>1, <2>3, <3>2 DEF FaithKept
        <4>2. 0 \notin DOMAIN g_aps
          BY <1>0 DEF WifiTypes
        <4> QED
          BY <1>1, <4>1, <4>2
      <3> QED
        BY <1>2, <3>1, <3>2
    <2>5. (AutoOut => w_pref \in Keys(w_cred))'
      BY <1>1, <2>1, <2>2, <2>3 DEF FaithKept
    <2> QED
      BY <1>1, <2>1, <2>2, <2>4, <2>5 DEF FaithKept
  <1> QED
    BY <1>0, <1>1, <1>3, <1>4, <1>5, <1>6 DEF WifiInv

\* What a sweep hears is added behind what is listed.
LEMMA LongerKeeps ==
    ASSUME NEW s \in Seq(Nets), NEW t \in Seq(Nets)
    PROVE  s \o t \in Seq(Nets) /\ \A i \in DOMAIN s : i \in DOMAIN (s \o t) /\ (s \o t)[i] = s[i]
  OBVIOUS

LEMMA SweepHolds == WifiInv /\ scan_step => WifiInv'
  <1> SUFFICES ASSUME WifiInv, scan_step PROVE WifiInv'
    OBVIOUS
  <1>0. WifiTypes /\ TaskKept /\ StartKept /\ (w_loose = FALSE => FaithKept) /\ w_loose \in BOOLEAN
    BY DEF WifiInv
  <1>1. /\ w_cred' = w_cred /\ w_pmk' = w_pmk /\ w_pref' = w_pref /\ w_loose' = w_loose
        /\ g_ask' = g_ask /\ g_pass' = g_pass /\ g_join_row' = g_join_row /\ g_fn' = g_fn
        /\ g_running' = g_running /\ j_new' = j_new /\ n_job' = n_job
        /\ blob_ready' = blob_ready /\ g_wpa_conn_cb' = g_wpa_conn_cb
        /\ g_hs_pass' = g_hs_pass /\ r_key' = r_key
    BY DEF scan_step, recVars, radVars
  <1>2. CASE n_pc = "idle" /\ n_pc' = "sweep" /\ g_aps' = g_aps /\ g_state' = g_state
             /\ ~job_busy /\ blob_ready
    <2>1. g_fn = NONE /\ n_job = NONE /\ blob_ready = TRUE
      BY <1>0, <1>2 DEF job_busy, TaskKept, WifiTypes
    <2>2. WifiTypes'
      BY <1>0, <1>1, <1>2 DEF WifiTypes
    <2>3. TaskKept' /\ StartKept'
      BY <1>0, <1>1, <1>2, <2>1 DEF TaskKept, StartKept, NONE
    <2>4. AskKept' /\ StartingIsAnswered'
      BY <1>1, <1>2 DEF WifiInv, AskKept, StartingIsAnswered, job_busy
    <2>5. ASSUME w_loose = FALSE PROVE FaithKept'
      <3>1. FaithKept
        BY <1>0, <2>5
      <3> QED
        BY <1>1, <1>2, <2>1, <3>1 DEF FaithKept, JoinOut, AutoOut, NONE
    <2> QED
      BY <1>0, <1>1, <2>2, <2>3, <2>4, <2>5 DEF WifiInv
  <1>3. CASE /\ n_pc = "sweep" /\ n_pc' = "idle"
             /\ \E heard \in SUBSET Nets : g_aps' = g_aps \o SetToSeq(heard \ Range(g_aps))
             /\ g_state' = g_state \/ g_state' = "IDLE"
    <2>1. PICK heard \in SUBSET Nets : g_aps' = g_aps \o SetToSeq(heard \ Range(g_aps))
      BY <1>3
    <2>2. SetToSeq(heard \ Range(g_aps)) \in Seq(Nets)
      BY HeardIsList
    <2>3. g_aps' \in Seq(Nets) /\ \A i \in DOMAIN g_aps : i \in DOMAIN g_aps' /\ g_aps'[i] = g_aps[i]
      <3> DEFINE more == SetToSeq(heard \ Range(g_aps))
      <3>1. more \in Seq(Nets) /\ g_aps \in Seq(Nets) /\ g_aps' = g_aps \o more
        BY <1>0, <2>1, <2>2 DEF WifiTypes
      <3> HIDE DEF more
      <3> QED
        BY <3>1, LongerKeeps
    <2>4. n_job = NONE /\ blob_ready = TRUE /\ g_fn # "start"
      BY <1>0, <1>3 DEF TaskKept, StartKept, WifiTypes
    <2>5. WifiTypes'
      BY <1>0, <1>1, <1>3, <2>3 DEF WifiTypes
    <2>6. TaskKept' /\ StartKept'
      BY <1>0, <1>1, <1>3, <2>4 DEF TaskKept, StartKept, NONE
    <2>7. AskKept' /\ StartingIsAnswered'
      BY <1>1, <1>3, <2>3 DEF WifiInv, AskKept, StartingIsAnswered, job_busy
    <2>8. ASSUME w_loose = FALSE PROVE FaithKept'
      <3>1. FaithKept
        BY <1>0, <2>8
      <3>2. (JoinOut' => JoinOut /\ g_join_row \in DOMAIN g_aps) /\ (AutoOut' => AutoOut)
        BY <1>1, <1>3, <2>4, <3>1 DEF FaithKept, JoinOut, AutoOut, NONE
      <3>3. (JoinOut /\ g_join_row \in DOMAIN g_aps =>
               FitToJoin(g_aps[g_join_row], g_pass, w_cred, w_pmk, w_pref))'
        BY <1>1, <2>3, <3>1, <3>2 DEF FaithKept
      <3> QED
        BY <1>1, <1>3, <3>1, <3>2, <3>3 DEF FaithKept
    <2> QED
      BY <1>0, <1>1, <2>5, <2>6, <2>7, <2>8 DEF WifiInv
  <1> QED
    BY <1>2, <1>3 DEF scan_step

\* The air: an answer, or the link gone.
LEMMA AirHolds == WifiInv /\ (ApAccepts \/ LinkLost) => WifiInv'
  <1> SUFFICES ASSUME WifiInv, ApAccepts \/ LinkLost PROVE WifiInv'
    OBVIOUS
  <1>0. WifiTypes /\ TaskKept /\ StartKept /\ (w_loose = FALSE => FaithKept) /\ w_loose \in BOOLEAN
    BY DEF WifiInv
  <1>1. /\ UNCHANGED <<recVars, viewVars, jobVars, blob_ready, g_hs_pass, r_key>>
        /\ g_wpa_conn_cb' = g_wpa_conn_cb \/ (g_wpa_conn_cb' = TRUE /\ n_pc = "joining")
    BY DEF ApAccepts, LinkLost
  <1>2. /\ w_cred' = w_cred /\ w_pmk' = w_pmk /\ w_pref' = w_pref /\ w_loose' = w_loose
        /\ g_ask' = g_ask /\ g_pass' = g_pass /\ g_join_row' = g_join_row /\ g_fn' = g_fn
        /\ g_running' = g_running /\ j_new' = j_new /\ n_job' = n_job /\ n_pc' = n_pc
        /\ blob_ready' = blob_ready /\ g_aps' = g_aps /\ g_state' = g_state
        /\ g_hs_pass' = g_hs_pass /\ r_key' = r_key
    BY <1>1 DEF recVars, viewVars, jobVars
  <1>3. WifiTypes'
    BY <1>0, <1>1, <1>2 DEF WifiTypes
  <1>4. TaskKept'
    BY <1>0, <1>2 DEF TaskKept
  <1>5. StartKept'
    BY <1>0, <1>1, <1>2 DEF StartKept, TaskKept
  <1>6. AskKept' /\ StartingIsAnswered'
    BY <1>2 DEF WifiInv, AskKept, StartingIsAnswered, job_busy
  <1>7. ASSUME w_loose = FALSE PROVE FaithKept'
    <2>1. FaithKept
      BY <1>0, <1>7
    <2>2. JoinOut' = JoinOut /\ AutoOut' = AutoOut
      BY <1>2 DEF JoinOut, AutoOut
    <2> QED
      BY <1>1, <1>2, <2>1, <2>2 DEF FaithKept
  <1> QED
    BY <1>0, <1>2, <1>3, <1>4, <1>5, <1>6, <1>7 DEF WifiInv

LEMMA WifiStepHolds == WifiInv /\ [WifiNext]_wifiVars => WifiInv'
  <1> SUFFICES ASSUME WifiInv, [WifiNext]_wifiVars PROVE WifiInv'
    OBVIOUS
  <1>1. ASSUME NEW i \in 1 .. Cardinality(Nets), TapRow(i) PROVE WifiInv'
    BY <1>1, TapHolds
  <1>2. ASSUME NEW p \in Passes, SubmitPass(p) PROVE WifiInv'
    BY <1>2, SubmitHolds
  <1>3. CASE UNCHANGED wifiVars
    BY <1>3 DEF WifiInv, WifiTypes, TaskKept, StartKept, AskKept, FaithKept, AutoOut, JoinOut,
                StartingIsAnswered, job_busy, wifiVars, recVars, viewVars, jobVars, radVars
  <1> QED
    BY <1>1, <1>2, <1>3, OpenHolds, ToggleHolds, ForgetHolds, FrameHolds, TakeHolds, StartHolds,
       JoinHolds, JoinedHolds, ServiceHolds, SweepHolds, AirHolds DEF WifiNext

\* A key in the cache is the one derived from the passphrase saved for its network, but for
\* the three exceptions KeyMatchesPass names, and a view that says it is starting has a job
\* that will answer it: for any networks, passphrases, record size and sweep
\* (wifiapp.c, job.c, wificred.c, pmkcache.c).
THEOREM JoinsKeepFaith == WifiSpec => []JoinKeepsFaith
  <1>1. WifiInv => JoinKeepsFaith
    <2> SUFFICES ASSUME WifiInv PROVE JoinKeepsFaith
      OBVIOUS
    <2>1. StartingIsAnswered
      BY DEF WifiInv
    <2>2. w_loose \in BOOLEAN /\ (w_loose = FALSE => KeysFit(w_cred, w_pmk))
      BY DEF WifiInv, FaithKept
    <2>3. KeyMatchesPass
      BY <2>2 DEF KeyMatchesPass, KeysFit
    <2> QED
      BY <2>1, <2>3 DEF JoinKeepsFaith
  <1> QED
    BY <1>1, WifiInitHolds, WifiStepHolds, PTL DEF WifiSpec

=============================================================================
