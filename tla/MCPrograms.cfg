SPECIFICATION ProgramsSpec
CONSTANTS
    t1 = t1
    t2 = t2
    Systems = {"earn_burn", "pushcard"}
    Tabs = {t1, t2}
    Names = {n1, n2}
    Ratios = {r1, r2}
    Limits = {l1}
    Null = Null
    MaxRequests = 4
    MaxBroken = 1
SYMMETRY MCSymmetry
INVARIANTS
    OfferedProgramsAnswer
    FieldsAreAsAsked
PROPERTIES
    ReactivatedOnlyWhenAsked
