SPECIFICATION Spec
CONSTANTS
    NoDevice = NoDevice
    NoCert = NoCert
    NoTask = NoTask
    Devices = {a}
    Certs = {c1}
    Tasks = {t1, t2}
    MaxPending = 1
    Faults = {"crash"}
SYMMETRY PairingSymmetry
INVARIANTS PendingBounded DiskSettles
 
