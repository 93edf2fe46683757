SPECIFICATION OperationsSpec
CONSTANTS
  v1 = v1
  v2 = v2
  x1 = x1
  x2 = x2
  y1 = y1
  r1 = r1
  u1 = u1
  e1 = e1
  e2 = e2
  e3 = e3
  s1 = s1
  s2 = s2
  Votes = {v1, v2}
  Options = {x1, x2, y1}
  Voters = {r1}
  Casts = {q1, q2}
  OptionVote <- MCOptionVote
  VoterOf <- MCVoterOf
  NoBallot = NoBallot
  Cent = 1
  PctUnit = 1
  Users = {u1}
  Types <- MCTypes
  Requests <- MCRequests
  Schedules <- MCSchedules
  Deposits = {4}
  Conversions <- MCConversions
  Runs = {cron}
  Officers = {o1, o2}
  MaxReports = 2
  MaxCredits = 8
  Edits = {4}
  NoSum = NoSum
  NoOfficer = NoOfficer
  Executions = {e1, e2, e3}
  RowOf <- MCRowOf
  Others = {p1}
  MaxConns = 2
INVARIANTS
  OperationsInv
  QuietRunIsExact
PROPERTIES
  TallySettles
  ImplementsPoll
  AcknowledgedOnce
  NobodyWaitsForEver
CHECK_DEADLOCK FALSE
