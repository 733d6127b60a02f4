SPECIFICATION Spec
CONSTANTS
    c1 = c1
    c2 = c2
    c3 = c3
    Contribs <- ThreeContribs
    Canceller = Canceller
    Healing = TRUE
    Live = TRUE
    Stops = {"root_deadline", "user_cancelled"}
    Faults = {"import", "authority"}
    MaxFaults = 1
    MaxCrashes = 1
CHECK_DEADLOCK FALSE
INVARIANTS CheckoutMatchesStore CancelledRunInStep
PROPERTIES CancelReturns Implements
