SPECIFICATION Spec
CONSTANTS
    phone = phone
    i1 = i1
    i2 = i2
    i3 = i3
    o1 = o1
    certA = certA
    certB = certB
    NoLink = NoLink
    Devices = {phone}
    InLinks = {i1, i2}
    OutLinks = {o1}
    DevOf <- MCDevOf
    CertOf <- SameCert
    Callers = {"send", "api"}
SYMMETRY InSymmetry
INVARIANTS GenerationNamesLink NoUsurpedTeardown
CHECK_DEADLOCK FALSE
