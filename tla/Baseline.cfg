SPECIFICATION Spec
CONSTANTS
    r1 = r1
    r2 = r2
    r3 = r3
    Runs <- ThreeRuns
    Startup = Startup
    None = None
    Owner = Owner
    External = TRUE
    RunsStop = TRUE
    Faults = {"outage", "moved"}
    MaxFaults = 1
    MaxCrashes = 1
CHECK_DEADLOCK FALSE
INVARIANTS BaselineMatchesRef CompletedIsPublished
PROPERTIES AdvancesByOneRun TransitionSettles
