SPECIFICATION FairSpec
CONSTANTS
    Reports = {r1}
    Threads = {th1}
    Dialogs = {d1}
    Hooks = {h1}
    None = None
    MaxEdits = 1
    MaxProgress = 1
    MaxRestarts = 1
    MaxStalls = 1
    MaxOpens = 2
INVARIANTS
    TypeOK
PROPERTIES
    OnlyRestartLosesJobs
    MislabelledIsReplaced
    DialogIsAnswered
CHECK_DEADLOCK FALSE
