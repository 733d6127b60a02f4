SPECIFICATION CallsSpec
CONSTANTS
    a = a
    b = b
    x = x
    NoOne = NoOne
    Workers = {a, b}
    Bodies = {x}
    MinVolleys = 3
    RepeatThreshold = 3
    MaxFollowUps = 1
    MaxRecoveries = 0
    MaxMsgs = 1
    Traffic <- OneWay
    Faults = {"append", "init", "exit", "unparsed"}
    MaxFaults = 1
CHECK_DEADLOCK FALSE
PROPERTIES CallsAreAnswered
