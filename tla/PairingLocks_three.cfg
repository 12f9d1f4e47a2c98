SPECIFICATION LockSpec
CONSTANTS
    Tasks = {t1, t2, t3}
    Calls = {"initiate", "receive", "reject"}
INVARIANT NoDeadlock
