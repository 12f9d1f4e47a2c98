INIT MCInit
NEXT MCNext
CONSTANTS
    Foci = {"registry", "stream", "routing", "router", "certificates", "handshake", "dialogue", "meeting", "notices", "inhibit", "api"}
    RegIds = {a, b}
    RegCalls = 3
    RegTasks = {t1, t2}
    RegCap = 1
    RegFaults = {"save", "drop"}
    RegNone = None
    SseWriters = {"v", "w"}
    SseStates = {"d", "c", "p"}
    SseCapacity = 2
    SseNone = "none"
    RtNames = {"x", "y"}
    RtCaps = {"p", "q"}
    RtWriters = {"w"}
    RtHandlers = 2
    CsIds = {"a", "b", "c"}
    CsPeers = {"p", "q"}
    CsMints = 2
    HsAccepted = {"s"}
    HsDialled = {"t"}
    HsSelf = "self"
    HsIds = {"d", "e"}
    HsCerts = {"d1", "d2", "e1"}
    HsCn <- MCCn
    HsNorm <- MCNorm
    HsHellos <- MCHellos
    HsNone = None
    PAIR_REQUEST_TIMEOUT = 3
    PAIR_ACCEPT_TIMEOUT = 1
    DgDelay = 1
    DgFresh = 9
    DgHorizon = 6
    DgRequests = 3
    MtDaemons = {"a", "b"}
    MtAddresses = {"x", "y"}
    MtPrivate = {"x", "y"}
    MtWindow = 2
    MtKept = 2
    MtHorizon = 2
    MtUnderWay = 1
    NtcSessions = {1, 2}
    NtcAttempts = 1
    NtcApiCalls = 1
    InhNotices = 4
    InhFaults = {"bus"}
    ApiClients = {"c", "d"}
    ApiLimit = 1
    ApiWindow = 2
    ApiHorizon = 2
    ApiCapacity = 1
    ApiWord = 4
    ApiListed = 2
INVARIANTS MCTypeOK RegistryTrue ViewConverges CertificatesKept PeersAreKnown AcceptFindsRequest SidesAgree PluginsFollow RetryAfterHolds
CHECK_DEADLOCK FALSE
