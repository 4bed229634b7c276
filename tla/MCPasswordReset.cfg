SPECIFICATION Spec
CONSTANTS
    a1 = a1
    a2 = a2
    t1 = t1
    t2 = t2
    i1 = i1
    p1 = p1
    p2 = p2
    ana = ana
    bea = bea
    Bea = Bea
    Nil = Nil
    Admins = {a1, a2}
    Addresses = {ana, bea, Bea}
    Tokens = {t1, t2}
    IPs = {i1}
    Procs = {p1, p2}
    Lower <- MCLower
    AddressOf <- MCAddressOf
    Window = 2
    SweepEvery = 2
    ResetTokenTTL = 1
    ForgotLimit = 2
    ResetLimit = 2
    MaxTime = 2
    MaxFailures = 1
SYMMETRY MCSymmetry
INVARIANTS
    EarlierLinksAreDead
    UsedTwiceOnlyByOverlap
    NoBurstBeyondLimit
