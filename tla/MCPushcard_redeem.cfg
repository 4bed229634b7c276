SPECIFICATION Spec
CONSTANTS
    c1 = c1
    c2 = c2
    w1 = w1
    w2 = w2
    k1 = k1
    k2 = k2
    p1 = p1
    p2 = p2
    Clients = {c1, c2}
    Collaborators = {w1}
    Codes = {k1, k2}
    Procs = {p1, p2}
    Slots = {1}
    Expiry = {FALSE}
    ListLimit = 2
    Nil = Nil
    MaxMessages = 4
    MaxConfigUpdates = 0
    MaxFailures = 1
SYMMETRY MCSymmetry
INVARIANTS
    CodesAreForCompletedCards
    DeliveredCardsAreRedeemed
    CodeDeliversOnce
