SPECIFICATION Spec
CONSTANTS
    eb = eb
    cb = cb
    c1 = c1
    c2 = c2
    k1 = k1
    k2 = k2
    k3 = k3
    p1 = p1
    p2 = p2
    Nil = Nil
    Programs <- MCPrograms
    Clients <- MCClients
    Codes <- MCCodes
    Procs <- MCProcs
    MaxFailures = 1
    MaxDraws = 4
SYMMETRY MCSymmetry
INVARIANTS
    OldCodesAreDead
PROPERTIES
    OthersLoseRedrawnCodesOnly
