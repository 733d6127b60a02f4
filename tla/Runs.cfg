CONSTANTS s = s l = l w = w
  Agents = {s, l, w}
  RoleOf <- Roles
  Rosters <- TwoRosters
  Runs = {r1, r2}
  NoRun = NoRun
  MayTruncate = TRUE
  MaxOf <- Bounds
  MaxFaults = 2
  MaxRequests = 1
  Old = Old New = New
  m1 = m1 m2 = m2 NoMission = NoMission
  Page = 1
  BufferSize = 1
  SettledRetries = 1
  ChatRuns = {Old, New}
  Missions = {m1, m2}
  Setups <- MCSetups
  Settings <- MCSettings
SPECIFICATION MCSpec
CHECK_DEADLOCK FALSE
INVARIANTS VerdictStands TranscriptIsSound
PROPERTIES RunsSettle TranscriptIsWhole
