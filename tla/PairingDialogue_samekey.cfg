INIT DgInit
NEXT DgNext
CONSTANTS
    PAIR_REQUEST_TIMEOUT = 3
    PAIR_ACCEPT_TIMEOUT = 1
    DgDelay = 1
    DgFresh = 9
    DgHorizon = 6
    DgRequests = 3
CHECK_DEADLOCK FALSE
INVARIANTS SameKeyShown
