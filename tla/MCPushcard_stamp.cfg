SPECIFICATION Spec
CONSTANTS
    c1 = c1
    c2 = c2
    w1 = w1
    w2 = w2
    k1 = k1
    k2 = k2
    p1 = p1
    p2 = p2
    Clients = {c1}
    Collaborators = {w1}
    Codes = {k1}
    Procs = {p1, p2}
    Slots = {1, 2}
    Expiry = {TRUE, FALSE}
    ListLimit = 2
    Nil = Nil
    MaxMessages = 4
    MaxConfigUpdates = 1
    MaxFailures = 0
SYMMETRY MCSymmetry
INVARIANTS
    TypeOK
    OneOpenCard
    FullCardIsCompleted
PROPERTIES
    LifecycleIsOneWay
