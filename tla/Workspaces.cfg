CONSTANTS p1 = p1 p2 = p2 NoOwner = NoOwner
  c1 = c1 c2 = c2 c3 = c3 i1 = i1 i2 = i2 NoCaller = NoCaller
  j1 = j1 j2 = j2 s1 = s1 s2 = s2 Nobody = Nobody
  t1 = t1 t2 = t2 k1 = k1 n1 = n1 h1 = h1 m1 = m1 r1 = r1 g1 = g1
  a1 = a1 a2 = a2 d1 = d1 d2 = d2 o1 = o1 o2 = o2 q1 = q1 q2 = q2
  Source = Source Nowhere = Nowhere NoProject = NoProject
  Execs <- MCExecs
  MaxCrashes <- MCMaxCrashes
  Setups <- MCSetups
  Callers <- MCCallers
  RunIds <- MCRunIds
  IdOf <- MCIdOf
  ModeOf <- MCModeOf
  PrepFaults <- MCPrepFaults
  PrepCrashes <- MCPrepCrashes
  Jobs <- MCJobs
  Procs <- MCProcs
  Home <- MCHome
  Settings <- MCSettings
  Gates <- MCGates
  TierOf <- MCTierOf
  Cases <- MCCases
  Creates <- MCCreates
  Deletes <- MCDeletes
  Opens <- MCOpens
  Chats <- MCChats
  Slugs <- MCSlugs
  Plans <- MCPlans
  Parts <- MCParts
  Sites <- MCSites
SPECIFICATION MCSpec
CHECK_DEADLOCK FALSE
INVARIANTS ActiveIsOwned AllOrNothing NothingLeftBehind PassedIsEarned
PROPERTIES WorkIsKept
