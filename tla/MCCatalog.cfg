SPECIFICATION Spec
CONSTANTS
    None = None
    org = org
    eng = eng
    p = p
    q = q
    t1 = t1
    t2 = t2
    t3 = t3
    t4 = t4
    s1 = s1
    s2 = s2
    s3 = s3
    s4 = s4
    s5 = s5
    i1 = i1
    i2 = i2
    i3 = i3
    Requests = {r1, r2}
    Names <- MCNames
    CanonNames = {org, eng}
    Org = org
    Translations <- MCTranslations
    Schemes <- MCSchemes
    Ids <- MCIds
    Start <- MCStart
    MaxCalls = 3
    MaxBoots = 1
    MaxPackage = 2
SYMMETRY RequestSymmetry
INVARIANTS
    TypeOK
PROPERTIES
    PreferredLostOnlyByStaleCopy
    StopsTrackingOnlyKnown
    UnrecordedOnlyByCascade
    SeedRepairs
    RowsFallBehindOnlyAtSeed
    ChainsCloseOnlyAtBases
CHECK_DEADLOCK FALSE
