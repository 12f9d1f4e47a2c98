SPECIFICATION Spec
CONSTANTS
    NoDevice = NoDevice
    NoCert = NoCert
    NoTask = NoTask
    Devices = {a, b}
    Certs = {c1, c2}
    Tasks = {t1}
    MaxPending = 2
    Faults = {"save", "cert"}
SYMMETRY PairingSymmetry
INVARIANTS PairedHasAnchor StagedHasRequest PairedHasNoRequest
PROPERTIES PinNeverReplaced ReapedCertGoes
