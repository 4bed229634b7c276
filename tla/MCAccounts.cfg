SPECIFICATION Spec
CONSTANTS
    a1 = a1
    a2 = a2
    c1 = c1
    c2 = c2
    ana = ana
    bea = bea
    s1 = s1
    s2 = s2
    g1 = g1
    g2 = g2
    p1 = p1
    p2 = p2
    Nil = Nil
    AdminIds = {a1, a2}
    CustomerIds = {c1, c2}
    Emails = {ana, bea}
    Slugs = {s1, s2}
    Subs = {g1, g2}
    EmailOf <- MCEmailOf
    Procs = {p1, p2}
    SlugAttempts = 2
    MaxFailures = 1
SYMMETRY MCSymmetry
INVARIANTS
    DomainIsOfLinkedAccount
    SignedInAdminIsLinked
    BusinessesHaveAdmins
