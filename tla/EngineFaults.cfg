CONSTANTS
    read = read
    post = post
    copy = copy
    log = log
    check = check
    tell = tell
    again = again
    Job <- OnceJobs
    Todo <- OnceTodo
    Kind <- MCKind
    Progress <- MCProgress
    Sync <- MCSync
    Answers <- ZeroToTwo
    Faults <- FaultKinds
    MayStop = TRUE
    MaxRounds = 1
SPECIFICATION Spec
CHECK_DEADLOCK FALSE
INVARIANTS
    TypeOK
    StepBarrier
    AnsweredOnce
    NoJobDropped
PROPERTIES
    StopIsFinal
