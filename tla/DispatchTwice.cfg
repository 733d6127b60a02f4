SPECIFICATION MCSpec
CONSTANTS
    NTasks = 4
    NoTurn = NoTurn
    Scenarios <- FourTasks
    Kinds = {"live"}
    Subs <- MCSubs
    Replies <- MCReplies
    Limits <- MCLimits
    MaxFaults = 1
    t1 = t1
    t2 = t2
    t3 = t3
CHECK_DEADLOCK FALSE
INVARIANTS SubtaskRunsOnce
