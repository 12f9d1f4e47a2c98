SPECIFICATION FairSpec
CONSTANTS
    phone = phone
    i1 = i1
    i2 = i2
    i3 = i3
    o1 = o1
    certA = certA
    certB = certB
    NoLink = NoLink
    Devices = {phone}
    InLinks = {i1, i2}
    OutLinks = {o1}
    DevOf <- MCDevOf
    CertOf <- TwoCerts
    Callers = {}
PROPERTIES SupersededLoopEnds SlotImplemented
CHECK_DEADLOCK FALSE
