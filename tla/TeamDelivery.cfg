SPECIFICATION SumSpec
CONSTANTS
    a = a
    b = b
    x = x
    NoOne = NoOne
    Workers = {a, b}
    Bodies = {x}
    MinVolleys = 3
    RepeatThreshold = 3
    MaxFollowUps = 1
    MaxRecoveries = 1
    MaxMsgs = 2
    Traffic <- Knocks
    Faults = {"append", "init", "refuse", "exit", "cancel", "unparsed"}
    MaxFaults = 1
CHECK_DEADLOCK FALSE
INVARIANTS ReceiptsAreTrue
PROPERTIES ReceiptsAreFinal Implements
