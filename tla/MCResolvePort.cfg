SPECIFICATION MCSpec
CONSTANTS
    None = None
    Verses <- MCPortVerses
    MemberSets <- MCMemberSets
    Chains <- MCAllChains
    Tables <- MCTables
    Asks <- MCAllAsks
    Changed <- MCChanged
    MaxEdits = 1
INVARIANTS
    HullClosed
    HullIsComponent
    NothingLost
    TargetsLinked
    SingleVerseAnswer
    PortTypeOK
    FindersAgree
    QueryRowListed
    CounterpartRowsListed
    EmittedOnce
    ChapterCovers
PROPERTIES
    LoopAdvances
CHECK_DEADLOCK FALSE
