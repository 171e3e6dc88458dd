\* Three workers (one created at run time) and idle contend for one mutex; an
\* interrupt and a task wake the waiters spuriously.
SPECIFICATION Spec
CONSTANTS
    TASK_MAX = 4
    TASK_PRIO_LEVELS = 2
    TASK_AGE_TICKS = 2
    TASK_AGE_MAX = 2
    TICK_MOD = 4
    g_idle_id = 2
    Booted = {0, 1}
    Creators = {0}
    Wakers = {1}
    IrqTasks = {0}
    Naps = {}
    NewPrios <- MCNewPrios
    MaxDepth = 2
INVARIANTS
    HolderOwns
    LockAccounted
    NoLostWakeup
    WaitBound
