SPECIFICATION Spec
CONSTANTS
    c1 = c1
    c2 = c2
    w1 = w1
    w2 = w2
    k1 = k1
    k2 = k2
    p1 = p1
    p2 = p2
    NoText = NoText
    NoReceipt = NoReceipt
    DateLayouts = {"iso", "dmy", "slashes"}
    Clients = {c1}
    Collaborators = {w1}
    OwnClients <- MCOwnClients
    Rewards = {r1}
    Codes = {k1}
    Extracts = {}
    NoExtract = NoExtract
    Procs = {p1, p2}
    Amounts = {300}
    NewAmounts = {}
    Configs <- MCCapped
    DefaultWindow = 2
    Costs = {2}
    Stocks = {0, 1}
    None = None
    Nil = Nil
    MaxMessages = 2
    MaxAdminUpdates = 0
    MaxDays = 0
INVARIANTS
    PeriodCapIsNeverExceeded
