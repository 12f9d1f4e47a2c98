INIT PluginsInit
NEXT PluginsNext
CONSTANTS
    Plugins = {"portal", "capture", "gate", "barrier", "mpris", "phone", "remote", "volume", "sinks", "clipboard", "pausemusic", "sftp", "share", "notification", "contacts", "phonedata", "runcommand", "alarm", "sendnotifications", "pointer", "tablet"}
    PoStarts = 2
    CapPeers = {"a"}
    CapSessions = 2
    CapChanges = 1
    IgCycles = 2
    IgItems = 2
    IgKinds = {"motion", "rightup"}
    BarLayouts <- MCBarLayouts
    BarEdges = {"left", "right", "top", "bottom"}
    BarMoves = 3
    MprServices = {"plasma", "firefox"}
    MprShadows <- MCShadows
    MprOwners = 2
    MprRemotes = {"r1", "r2"}
    MprCap = 1
    MprLists = 2
    MprQueue = 1
    SvlSinks = {"a", "b"}
    SvlMax = 2
    SvlChanges = 2
    ClpPhones = {"p", "q"}
    ClpTexts = {"a", "b"}
    ClpMoves = 4
    ClpAhead = 1
    PmPhones = {"p", "q"}
    PmPlayers = {"x", "y"}
    PmCalls = 3
    PmLogCap = 1
    SfSessions = 3
    SfCleaners = {"gone"}
    ShDevices = {"p"}
    ShJobs = {1, 2}
    ShNames = {"f"}
    ShCopies = 1
    ShMax = 1
    ShTotals = {0, 2}
    ShPerDevice = 2
    ShGlobal = 2
    ShKnown = 1
    ShLogCap = 1
    ShRequests = 2
    NtIds = {"a"}
    NtContents = {"x", "y"}
    NtHashes = {"i"}
    NtHistoryCap = 1
    NtIconCap = 1
    NtPackets = 2
    CnUids = {"a", "b"}
    CnVersions = 2
    CnMaxContacts = 2
    CnMaxBytes = 3
    CnChanges = 2
    CnSyncs = 2
    PdDevices = {"p"}
    PdValues = {"x"}
    PdKeys = {"k"}
    PdThreads = {"s", "t", "u"}
    PdDates = {0, 1, 2, 3}
    PdMaxThreads = 2
    PdMaxMessages = 2
    PdPackets = 3
    RcDevices = {"p"}
    RcKeys = {"k", "l"}
    RcTexts = {"x", "y"}
    RcRows <- MCRows
    RcJobs = {1, 2}
    RcMaxRecords = 2
    AlSinks = {"a", "b"}
    AlTouches = 3
    SnPhones = {"p", "q"}
    SnNotices = 2
    SnIdMod = 2
    PtRequests <- MCRequests
    PtAbsMax = 5
    PtPackets = 3
    TbPhones = {"p"}
    TbSizes = {0, 1, 3, 17}
    TbCoords = {2, 6, 18}
    TbMod = 16
    TbAxisCap = 1
    TbDeltas <- MCDeltas
    TbMaxPixels = 4
    TbPackets = 3
INVARIANTS PluginsTypeOK CaptureTied GateInOrder InputCarriedOut DesktopMirrored PhoneMirrored DesktopRestored CleanupSparesNewer PopupsWithinReach
CHECK_DEADLOCK FALSE
