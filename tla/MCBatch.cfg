SPECIFICATION Spec
CONSTANTS
    None = None
    Texts <- MCTexts
    Requests <- MCRequests
    DEFAULT_LIMIT = 2
    MAX_LIMIT = 3
    Workers = {w1}
    MaxRequests = 1
    MaxIds = 3
CONSTRAINT
    UntilAnswered
INVARIANTS
    TypeOK
    AnsweredSinceBuild
PROPERTIES
    ImplementsPromise
CHECK_DEADLOCK FALSE
