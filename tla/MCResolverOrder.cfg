SPECIFICATION Spec
CONSTANTS
    None = None
    Verses <- MCVerses
    MemberSets <- MCMemberSets
    Chains <- MCSplitChains
INVARIANTS
    AnswerIsFixed
CHECK_DEADLOCK FALSE
