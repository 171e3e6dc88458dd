\* Two workers of any priority that sleep and take the lock: what they started
\* ends, although the more urgent one may never sleep.
SPECIFICATION FairSpec
CONSTANTS
    TASK_MAX = 3
    TASK_PRIO_LEVELS = 2
    TASK_AGE_TICKS = 1
    TASK_AGE_MAX = 2
    TICK_MOD = 6
    g_idle_id = 2
    Booted = {0, 1}
    Creators = {}
    Wakers = {0}
    IrqTasks = {}
    Naps = {1, 5}
    NewPrios = {}
    MaxDepth = 1
PROPERTIES
    SleepEnds
    GrantIsTaken
    NoEarlyReturn
INVARIANTS
    UserCodeIsReady
    PunctualWake
    NoWakeLost
