SPECIFICATION FairSpec
CONSTANTS
    Keys = {k1}
    Customers = {c1}
    Procs = {p1, p2}
    Nil = Nil
    MaxUpdates = 2
    MaxFailures = 1
INVARIANTS
    CacheIsCurrent
    QuietAnswerIsRight
    FieldsAreAsAsked
PROPERTIES
    StaleEntryGoes
