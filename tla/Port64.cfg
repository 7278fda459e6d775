SPECIFICATION PartsSpec
CONSTANTS
    PmmFrames = 3 SlabObjs = 2 ARENA64_MAG = 1 BALLOON64_MAX = 1 GUARD64_MAX = 2 ArenaCpus = {1} GuardPages = {2} ZoneTop = 2 FrameOps = {"slab","balloon","guard","zone"}
    BuddyOrders = 3 VRAM64_MAX_SEG = 5 VramSize = 6 VramSizes = {1,2} VramAligns = {1,2} LfObjs = 3 LfCpus = {1,2} LfAllocators = {1}
    SwapPages = {1,2,3,4,5,6}
    SwapFrames = 6
    SwapSlots = 2
    RECLAIM64_MAX = 6
    EvictCalls = 2
    SwapWritten = {2}
    HUGESWAP64_SUBPAGES = 2
    EvictCounts = {2}
    SwapFaults = 1
    CowPages = {1,2,3}
    CowFrames = 3
    KSM64_MAX = 1
    PageData = {1}
    SCHED_MAX = 3
    SchedPids = {1,2,3}
    SchedPrios = {1,2}
    RCU64_MAX_CB = 2
    RcuReaders = {1,2}
    RcuObjects = 3
    RcuEpochs = 1
    RcuCountMax = 3
    WQ64_MAX = 3
    WqItems = 5
    TIMER64_MAX = 2
    TimerIntervals = {1,2,3}
    TimerEnd = 9
    SYNC_MAX = 2
    SyncOwners = {1,2}
    SyncIds = 4
    IPC_MAX = 2
    IpcMessages = {1,2}
    IpcIds = 4
    PollFds = {1,2}
    EPOLL64_MAX_EVENTS = 2
    INOTIFY64_MAX_WD = 2
    INOTIFY64_MAX_EV = 3
    WatchInodes = {1,2}
    JOURNALD64_MAX = 3
    JournalServices = {"a","b"}
    JournalWrites = 6
    TmpNames = {"a","b"}
    TMPFS64_MAX_FRAMES = 2
    TmpFrames = 2
    FrameBytes = 2
    TmpBytes = {1,2}
    VFS_INODES = 2
    VFS_FDS = 2
    VfsValues = {1,2}
    VfsNumbers = 3
    JOURNAL64_MAX = 3
    JournalBlocks = {1,2}
    JournalCommits = 3
    FSYNC64_MAX = 2
    SNAP64_MAX = 2
    SNAP64_MAX_CHANGES = 2
    SnapBlocks = {1,2,3}
    JRNL_MAX = 3
    JrnlNumbers = 5
    BTRFS64_MAX = 3
    SubvolNames = {"a","b","c"}
    SubvolIds = 4
    BLK_MAX = 2
    BLK_SECTORS = 2
    DiskNumbers = 3
    PART_MAX = 2
    PartBits = 3
    PARTTOOL64_MAX_PARTS = 3
    PARTTOOL_MIN_LBA = 1
    PartLba = 5
    FLOCK64_MAX = 2
    LockOwners = {1,2}
    QUOTA64_MAX = 2
    QuotaUids = {1,2}
    QuotaLimit = 2
    VFSOPS64_MAX = 2
    LinkInodes = 4
    MaxLinks = 3
    DENTRY64_MAX = 2
    XATTR64_MAX = 2
    KeyInodes = {1,2}
    KeyNames = {"a","b"}
    ACL64_MAX = 3
    AclIds = {1}
    Ext2Images <- MCExt2Images
    EXT2_BSIZE = 2
    EXT2_DIRECT = 3
    Octets = {0,10,255}
    Groups6 = {0,1,4096}
    ARPV4_MAX = 2
    ARPNDP64_TTL = 2
    ArpIps = {1,2,3}
    ArpMacs = {1}
    ArpEnd = 3
    DnsAnswers <- MCDnsAnswers
    DNS_HEADER = 3
    TlvOptions <- MCTlvOptions
    TlvMessages = 3
    UDP64_MAX = 2
    UDP64_BUF = 2
    UdpPorts = {1,2}
    UdpBytes = {1,2}
    TCP_MAX = 2
    TcpNumbers = 3
    NET_MAX = 2
    NicNumbers = 3
    NetPackets = {1,2}
    CubicAcks = 7
    CubicLosses = 2
    CubicSeconds = 3
    NETFILTER64_MAX_RULES = 3
    FilterAddrs = {1,2}
    FilterPorts = {1}
    APMODE64_MAX_STA = 2
    StaMacs = {1,2,3}
    StaAids = 5
    PASSWD64_MAX = 2
    Logins = {"u","v"}
    Passwords = {1,2}
    LastDay = 1
    PAM64_MAX_MODS = 3
    PAM64_MAX_HANDLES = 1
    PamModules = {"unix","deny"}
    SUDO64_MAX_RULES = 2
    SudoCommands = {"ls"}
    SudoEnd = 2
    SudoTimeouts = {1,3}
    SUDO64_MAX_STAMPS = 2
    GROUP64_MAX = 2
    GroupNames = {"g","h"}
    GROUP64_MAX_MEMBERS = 2
    GROUP64_MAX_POLICY = 2
    SECPOL64_MAX_PROFILES = 2
    SECPOL64_MAX_RULES = 1
    PolicyPaths <- MCPolicyPaths
    Ops = {1,2}
    LANDLK64_MAX_RS = 2
    LANDLK64_MAX_RULES = 1
    LUKSOP64_SLOTS = 2
    LuksKeys = {1,2}
    SECCTX64_MAX_APP = 2
    AppIds = {"a","b"}
    SECCOMP_MAX = 2
    SyscallNrs = {1,2}
    SELINUX64_MAX_RULES = 2
    SelinuxTypes = {"s","t"}
    SELCTX64_MAX_LABEL = 2
    ContextTexts <- MCContextTexts
    FIELD_MAX = 2
CHECK_DEADLOCK FALSE
INVARIANTS
    KernelServicesSound TablesSound ContentsSound
PROPERTIES
    AccessSteps
