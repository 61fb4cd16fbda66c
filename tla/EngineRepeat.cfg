CONSTANTS
    read = read
    post = post
    copy = copy
    log = log
    check = check
    tell = tell
    again = again
    Job <- AgainJobs
    Todo <- AgainTodo
    Kind <- MCKind
    Progress <- MCProgress
    Sync <- MCSync
    Answers <- OneOrTwo
    Faults <- LateFaults
    MayStop = TRUE
    MaxRounds = 3
SPECIFICATION FairSpec
CHECK_DEADLOCK FALSE
INVARIANTS
    FullProgress
PROPERTIES
    PipelineSpec
    Completes
    Repeats
