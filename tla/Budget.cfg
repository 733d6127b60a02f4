CONSTANTS
  w1 = w1
  w2 = w2
  lead = lead
  worker = worker
  NoLimit = NoLimit
  Calls = {w1, w2, lead}
  Proxied = {w1, w2}
  Workers = {worker}
  ScopeOf <- MCScopeOf
  Estimate <- MCEstimate
  CallCap = 2
  CallFuse = 4
  TokenFuse = 7
  Threshold <- MCThreshold
  Usages = {1, 5}
SPECIFICATION Spec
INVARIANT LedgerAddsUp
INVARIANT FuseHolds
PROPERTY NothingAdmittedAfterStop
PROPERTY StoppedCallsEnd
CHECK_DEADLOCK FALSE
