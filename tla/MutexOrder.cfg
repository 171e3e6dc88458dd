\* Three workers contend for the lock; the mask is scanned from bit 0.
SPECIFICATION OrderSpec
CONSTANTS
    TASK_MAX = 4
    TASK_PRIO_LEVELS = 2
    TASK_AGE_TICKS = 2
    TASK_AGE_MAX = 2
    TICK_MOD = 4
    g_idle_id = 3
    Booted = {0, 1, 2}
    Creators = {}
    Wakers = {}
    IrqTasks = {}
    Naps = {}
    NewPrios = {}
    MaxDepth = 1
PROPERTIES
    LongestWaitingFirst
