SPECIFICATION PartsSpec
CONSTANTS
    WmSlots = {1,2} WmWidths = {1} WmLimits <- MCLimits WmIds = 2 WmDepth = 2 WmLow = 1 WmShaped = {1} Workspaces = {0,1}
    BarSlots = {1,2} BarWins = {1,2} BarPlaces = 2 ThemeSlots = {1,2,3} Themes = {"a","b","c"} LaunchSlots = {1,2,3} LaunchNames = {"x","y","z"} LaunchRuns = 1 PanelPlugins = {1,2,3,4} PanelNames = {"p","q"} MenuItems = {1,2,3}
    SetSlots = {1,2} SetKeys <- MCSetKeys SetVals = {"u","v"} SetWatches <- MCSetWatches SetQueue = 2 SetTexts <- MCSetTexts SetWidth = 1234
    NoteSlots = {1,2} NoteIds = 2 NoteTime = 3 NoteTimeouts = {0,2} FileSlots = {1,2,3} FilePaths <- MCFilePaths FileSizes = {1} FileClips = 1
    RegexAtoms <- MCRegexAtoms
    RegexItems = 2
    RegexTexts <- MCRegexTexts
    REGEX64_DEPTH = 64
    MakeTargets = {1,2,3}
    MakeTimes = {2}
    MakeEnd = 2
    MAKE64_MAX_DEPS = 1
    CodePoints = {127,128,255,256,2047,2048,55295,65535,65536,1114111}
    Encodings = {"latin1","utf8","utf16","utf32"}
    IconvRooms = {3,8}
    IconvLength = 2
    PyNumbers = {3,12}
    PyOps = {"add","sub","mul","div","mod"}
    ShellWords <- MCShellWords
    SHELL64_WORD = 4
    SHELL64_MAX_TOKENS = 3
    SHELL64_HIST = 3
    ShellLines = 6
    WAYLAND64_MAX_OBJ = 2
    WAYLAND64_MAX_EV = 3
    WlEvents = {1}
    Versions <- MCVersions
    PkgNames = {"a","b","c"}
    PkgVersions <- MCPkgVersions
    DepVersions <- MCDepVersions
    UpdNames = {"a"}
    DepLists <- MCDepLists
    REPO64_MAX_ENTRIES = 1
    DEPSOLVE64_MAXOUT = 3
    TargetWants <- MCTargetWants
    BOOTTARGET64_MAX = 3
    TXN64_MAX_OPS = 2
    TXN64_MAX_DB = 2
    PKGMGR64_MAX_PKGS = 2
    UPDATE64_MAX_PKGS = 2
    SecKeys = {1}
    SECUPD64_MAX_KEYS = 2
    FileWord = 8
    FileLens = {1,2,5}
    FileNumbers = {0,2,3,6,7}
    CopySizes = {0,1,2}
    INSTALLFW64_MAX_STEPS = 2
CHECK_DEADLOCK FALSE
INVARIANTS
    UserServicesSound
PROPERTIES
    UserServicesSteps
