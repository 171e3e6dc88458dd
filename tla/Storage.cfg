\* One record slot and two boots; sectors of seven bytes, one open file, two
\* blocks of the card; a machine of words of eight values in four cells.
SPECIFICATION BenchSpec
VIEW Moving
CONSTANTS
    SlotVals = {1}
    STORE_DEFER_MAX = 2
    StorePreempts = FALSE
    MaxFrames = 1
    MaxBoots = 2
    SD_BLOCK_SIZE = 7
    Batch = 4
    MaxIdle = 4
    DiagnosticsShare = FALSE
    Handles = {1}
    Iterators = {1}
    ReadSizes = {1, 4, 7}
    SeekPositions = {0, 4, 7}
    SEC = 2
    ENTS = 2
    SPC = 2
    FATS = 3
    CLUSTERS = 5
    FAT <- MCFAT
    Chain <- MCChain
    Size = 11
    DirChain <- MCDirChain
    Dir <- MCDir
    KB_TEXT_MAX = 3
    NOTES_MAX = 4
    INPUT_MAX = 2
    MSG_MAX = 2
    MSG_LEN = 2
    KEYQ_MAX = 2
    MaxTaps = 6
    DevApps = {"a"}
    XFER_MAX = 2
    SD_BYTES = 2
    Lbas = {1, 2}
    BodyMax = 3
    ShellUsesSd = FALSE
    WordRange = 8
    VmSize = 4
    VM_INSN_BYTES = 2
    VM_CALL_DEPTH = 2
    VM_STR_MAX = 3
    PanelW = 3
    PanelH = 2
    ViewX = 1
    ViewW = 2
INVARIANTS
    RecordSurvives
    SectorsArrive
    FilesAreExact
    
    BytesAreTheDevices
    StaysInside
PROPERTIES
    HandlerIsTransparent
CHECK_DEADLOCK FALSE
