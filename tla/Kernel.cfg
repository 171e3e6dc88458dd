\* A cycle counter that wraps at 28, three faults, taps and double taps of a few
\* samples, two fetches through a ring of two, pages of eight characters; a bus
\* whose bytes have two bits.
SPECIFICATION BenchSpec
VIEW Moving
CONSTANTS
    CcountRange = 28
    Interval = 4
    YieldCycles = 1
    LateCycles = 1
    WatchdogCycles = 9
    LIVENESS_WINDOW = 2
    WDT_TICKS = 6
    BLOB_PIN_MAX = 4
    MaxFaults = 3
    TOUCH_DOWN_SAMPLES = 2
    TAP_MIN_TICKS = 2
    DOUBLE_TAP_TICKS = 4
    BYTE_BITS = 2
    MaxRead = 2
    SlaveAddr <- MCSlaveAddr
    Bufs <- MCBufs
    SlaveGives <- MCSlaveGives
    NET_SLOTS = 2
    BODY_MAX = 2
    MaxTries = 1
    MaxFetches = 2
    HTML_TEXT_MAX = 8
    HTML_LINKS_MAX = 2
    COLS = 2
    ROWS = 2
    Bodies <- MCBodies
    TapsOutrunFrames = FALSE
    MaxTokens = 6
INVARIANTS
    TickIsTime
    TickLineIsKept
    FaultsSurface
    TouchIsDeliberate
    TransferIsWhole
    ReplyIsWhole
    PageIsTrue
CHECK_DEADLOCK FALSE
