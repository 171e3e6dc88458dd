\* A ring of three buffers, a song of five samples, a video of two pictures; a
\* panel of two by two pixels, a 3D frame of one column.
SPECIFICATION BenchSpec
VIEW Moving
CONSTANTS
    PCM_BUFS = 3
    PCM_SAMPLES = 2
    SongLength = 5
    Decoded = 3
    VideoFrames = 2
    SPF = 3
    MaxLate = 3
    Drawers = {"d", "v"}
    Player = "v"
    LINE_MAX = 3
    BE_CHUNK = 2
    FIFO_MAX = 1
    RAY_COLS = 1
    MaxHeld = 1
INVARIANTS
    SoundIsFaithful
    PlayerObeys
    PixelsAreTheWindows
    LauncherIsCurrent
CHECK_DEADLOCK FALSE
