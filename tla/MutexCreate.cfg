\* Two tasks call task_create: its scan and its store of READY are unmasked.
SPECIFICATION Spec
CONSTANTS
    TASK_MAX = 4
    TASK_PRIO_LEVELS = 2
    TASK_AGE_TICKS = 2
    TASK_AGE_MAX = 2
    TICK_MOD = 4
    g_idle_id = 2
    Booted = {0, 1}
    Creators = {0, 1}
    Wakers = {}
    IrqTasks = {}
    Naps = {}
    NewPrios = {}
    MaxDepth = 1
INVARIANTS
    OneTaskPerSlot
