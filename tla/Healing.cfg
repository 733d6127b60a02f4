CONSTANTS n1 = n1 n2 = n2 NoNode = NoNode
  r1 = r1 r2 = r2 NoOne = NoOne
  p1 = p1 p2 = p2 p3 = p3 NoProc = NoProc
  one = one two = two
  a = a b = b e = e x = x y = y
  GraphNodes <- MCNodes
  Mutants <- MCMutants
  Histories <- MCHistories
  Doubled = {n1}
  MayStop = TRUE
  Runs <- MCRuns
  Lives <- MCLives
  SoundRuns <- MCRuns
  PageSize = 4
  MaxPending = 1
  MaxFaults = 1
  Jobs = {j1, j2, j3}
  Waits = {w}
  MaxRunning = 2
  MaxKept = 1
  Procs <- MCProcs
  Works <- MCWorks
  MaxCrashes = 1
  Settings <- MCSettings
  Limit = 2
  MaxSteps = 3
  Every = 2
  Protected <- MCProtected
  Allowed <- MCAllowed
  Cancels = {k1, k2}
  MaxTroubles = 2
  Workers <- MCWorkers
  Bodies <- MCBodies
  Messages <- MCMessages
  MaxHistory = 6
  MinVolleys = 3
  RepeatThreshold = 2
SPECIFICATION HealingSpec
CHECK_DEADLOCK FALSE
INVARIANTS TournamentsAreFair HistoryIsSound
PROPERTIES RepairsEnd HistoryIsWhole
