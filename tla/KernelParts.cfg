SPECIFICATION PartsSpec
CONSTANTS
    MaxSpace = 2
    Heap = 1
    Maps = 1
    MaxFrame = 5
    MaxRegions = 2
    RegionCalls = 3
    Value = {0}
    MemOps = {"fork", "clone", "mmap", "brk", "kernel", "readonly", "stray", "exit"}
    DfsPaths <- MCDfsPaths DfsContents = {1} DfsInodes = {1,2} DfsCrossing = {2} DfsSectors = {5,6} DfsBlocks = 2 JournalImage = 9 DfsFaults = {"power","data","inode","bmap"} MaxFaults = 1
    ChfsTasks = {1,2} ChfsFds = {0,1} ChfsNames = {"f"} ChfsDirs = {"g"} ChfsOpeners = {1} ChfsInodes = {0,1,2} ChfsBlocks = {0,1} ChfsDataBlocks = 2 MaxLife = 2 MaxOpen = 2
    KHeapInitial = 8 KHeapPage = 3 KHeapTop = 11 KHeapSizes = {1,2} KHeapAreas = 2
    TcpSend = 3 TcpRecv = 3 TcpMss = 2 TcpRbuf = 2 TcpMaxRetx = 2
    NicRing = 4 NicFrames = 10 ArpCache = 2 ArpHosts = {1,2,3} ArpMacs = {1,2} ArpNews = 4 UdpSocks = 2 UdpPorts = {7,9} UdpData = {1,2} SumWidth = 8 SumWords = 4
    NvQueue = 3 NvShift = 2 NvBlocks = 1 NvCids = 4 BlkVals = {1,2} VioSectors = {0,1} VioTimeouts = 1
    GuiRows = 2 COMP_MAX = 6 WM_MAX = 2 GuiIds = 2 GuiHeights = {2}
    PowerTicks = 4 THERMAL_AVG_N = 4 THERMAL_PSTATE_MAX = 4 Temps = {45, 70, 80, 100, 130} SYSLOG_SIZE = 4 LogMessages <- MCLogMessages LogReads = {2, 4, 9} TRACE_LEVELS = 3 ProfClock = 6 ProfRounds = 4 ClockWidth = 12 ClockSleeps = {1, 3, 5}
    KBD_BUF_SIZE = 2  IN_QSIZE = 3 IN_COALESCE_MAX = 12
    InputKeys = {"a", "shift", "alt", "F2", "up"}
    MousePackets <- MCPackets
    MaxInputs = 2 MaxSwitches = 1
    PTY_MAX = 1 PTY_RING = 2 PTY_LINE = 3 PtyChars = {"x", "nl", "bs"}
    PtyWrites <- MCPtyWrites
    VT_ROWS = 2 VT_COLS = 2 VtChars = {"x", "y", "nl", "cr", "bs"} MaxWritten = 4
    TERM_BUF_LINES = 3 TERM_BUF_W = 4
    DL_MAX = 3 DL_COPY_MAX = 1 DlFiles <- MCDlFiles DlPaths = {"a","b","c","d"} DlNames = {"h"} DlThreads = {"main","t"} DlRegions = 7 DlLoads = 3 DlModes <- MCDlModes DlRefs = 2
CHECK_DEADLOCK FALSE
INVARIANTS
    KernelMemorySound DiskSound ChfsSound NetworkSound DevicesSound DesktopSound
    ConsoleSound HousekeepingSound LinkerSound
PROPERTIES
    KernelSteps
