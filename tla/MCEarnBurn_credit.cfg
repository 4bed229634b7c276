SPECIFICATION Spec
CONSTANTS
    c1 = c1
    c2 = c2
    w1 = w1
    w2 = w2
    k1 = k1
    k2 = k2
    p1 = p1
    p2 = p2
    Clients = {c1, c2}
    Collaborators = {w1, w2}
    OwnClients <- MCOwnClients
    Rewards = {r1}
    Codes = {k1, k2}
    Receipts = {x1}
    NoReceipt = NoReceipt
    Procs = {p1, p2}
    Amounts = {10}
    NewAmounts = {0, 2}
    Costs = {1}
    Stocks = {Unlimited}
    Unlimited = Unlimited
    PointsRatio = 10
    MinTicket = 0
    Nil = Nil
    MaxMessages = 4
    MaxAdminUpdates = 0
SYMMETRY MCSymmetry
INVARIANTS
    BalanceReplaysLedger
    LoadCodeCreditsOnce
    ReceiptCreditedOnce
PROPERTIES
    ImplementsContract
    ConfirmationIsFinal
