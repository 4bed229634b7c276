SPECIFICATION Spec
CONSTANTS
    b1 = b1
    b2 = b2
    p1 = p1
    p2 = p2
    Nil = Nil
    Businesses = {b1, b2}
    NameOf <- MCNameOf
    StaffStates <- MCStaffStates
    Commands = {"load", "redeem", "check"}
    Steps <- MCSteps
    Preset <- MCPreset
    PhotoKeys = {"photo"}
    Inbox <- MCInbox
    Procs = {p1, p2}
    MaxMessages = 4
    MaxDisturbances = 1
    MaxOverlaps = 1
INVARIANTS
    DispatchedIsComplete
    DispatchedInItsSession
    FlowDispatchedOnce
    LeftSessionIsOver
SYMMETRY MCSymmetry
