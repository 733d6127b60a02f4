SPECIFICATION MCSpec
CONSTANTS
    NTasks = 3
    NoTurn = NoTurn
    Scenarios <- ThreeTasks
    Kinds = {"live", "planned"}
    Subs <- MCSubs
    Replies <- MCReplies
    Limits <- MCLimits
    MaxFaults = 1
    t1 = t1
    t2 = t2
    t3 = t3
CHECK_DEADLOCK FALSE
INVARIANTS FailureReachesDependents BudgetHolds SuccessIsEarned
PROPERTIES ProducersFirst EveryRunEnds
