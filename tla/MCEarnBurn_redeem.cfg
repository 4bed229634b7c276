SPECIFICATION FairSpec
CONSTANTS
    c1 = c1
    c2 = c2
    w1 = w1
    w2 = w2
    k1 = k1
    k2 = k2
    p1 = p1
    p2 = p2
    Clients = {c1, c2}
    Collaborators = {w2}
    OwnClients <- MCOwnClients
    Rewards = {r1}
    Codes = {k1, k2}
    Receipts = {}
    NoReceipt = NoReceipt
    Procs = {p1, p2}
    Amounts = {20}
    NewAmounts = {}
    Costs = {1}
    Stocks = {1, 3}
    Unlimited = Unlimited
    PointsRatio = 10
    MinTicket = 0
    Nil = Nil
    MaxMessages = 4
    MaxAdminUpdates = 1
INVARIANTS
    TypeOK
    StockIsAccounted
    HeldRowsAreCurrent
    BurnsMatchRedemptions
PROPERTIES
    EveryMessageFinishes
