SPECIFICATION Spec
CONSTANTS
    Ids = {i1, i2}
    None = None
    t1 = t1
    t2 = t2
    s1 = s1
    s2 = s2
    s3 = s3
    Translations <- MCTranslations
    Schemes <- MCSchemes
    BasedOn <- MCBasedOn
    Associated <- MCAssociated
    Preferred0 <- MCPreferred0
    ChunkSize = 1
    MaxRequests = 1
    MaxEdits = 0
    MaxCrashes = 0
    MaxBoots = 0
    MaxDbErrors = 0
    MaxFaults = 0
PROPERTIES
    ConcurrentRequestWins
