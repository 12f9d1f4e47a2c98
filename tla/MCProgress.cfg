SPECIFICATION MCSpec
CONSTANTS
    MaxSize = 4
    Lengths = {1, 4, 5, 9}
    MaxLines = 3
    Tasks = {"t1", "t2"}
    Calls = {"initiate", "initiateReap", "receive", "mutual", "expired", "accept", "reject", "unpair", "state"}
    DialTasks = {"d1", "d2"}
    DialOthers = {"o"}
    DialRetries = 2
    DiscChanges = 3
    DiscDoublings = 2
    SvcClients = {"c"}
INVARIANTS MCTypeOK BufferExact NothingLost LinkSurvives OneMarkedDial
PROPERTIES LinesRead CallsReturn StopEndsDials NeighboursHear StopExitsOrHelper
CHECK_DEADLOCK FALSE
