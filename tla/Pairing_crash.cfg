SPECIFICATION Spec
CONSTANTS
    NoDevice = NoDevice
    NoCert = NoCert
    NoTask = NoTask
    Devices = {a}
    Certs = {c1}
    Tasks = {t1}
    MaxPending = 1
    Faults = {"crash"}
INVARIANT PairedHasAnchor
