SPECIFICATION Spec
CONSTANTS
    Sides <- MCSides
    Orgs <- MCOrgs
INVARIANTS
    TypeOK
    NoVerseLost
    EveryDivergenceReported
    InversionsAreFewest
    RunsDecode
    SelfComparisonIsSilent
    MirrorAgrees
CHECK_DEADLOCK FALSE
