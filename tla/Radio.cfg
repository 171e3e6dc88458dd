\* Two networks, two passphrases, a sweep of two channels, two starters of the radio,
\* three tasks in vendor code, a receive ring of three and two timers.
SPECIFICATION BenchSpec
VIEW Moving
CONSTANTS
    Nets = {"a", "b"}
    Passes = {"p", "q"}
    Right = "p"
    RecordSlots = 1
    SweepLength = 2
    BlobCallers = {0, 1}
    BlobWorkers = {2}
    BlobReceivers = {2}
    QueueRoom = 1
    OsiTasks = {1, 2}
    OsiQueueLen = 2
    SemSlotsRecycled = FALSE
    MaxSent = 4
    Ets = {"p", "q"}
    OSI_TIMER_MAX = 2
    US_PER_TICK = 2
    Asks = {3}
    OSI_EVT_LOG = 1
    ClockReaders = {"task"}
    MaxTime = 3
    MaxPosts = 2
    RX_BUFFERS = 3
    RX_BURST = 2
    NET_MAX = 1
    TX_MAX = 1
    MaxHeard = 5
    Starters = {"shell", "job"}
    TakeTurns = TRUE
    MaxBtBoots = 1
INVARIANTS
    
    VendorCodeIsExclusive
    HandlesHold
    TimersAreTrue
    FramesAreKept
    CalibratedOnce
CHECK_DEADLOCK FALSE
