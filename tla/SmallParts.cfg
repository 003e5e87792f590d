\* Requests, imports and accounts may come to rest: no deadlock is looked for.
CONSTANTS
  Jobs = {j1}
  Nothing = Nothing
  Refused = Refused
  MAX_POLL_ERRORS = 2
  MaxAge = 5
  Provinces = {p1, p2}
  None = None
  MaxVersion = 3
  Sent = {c1, c2, c3}
  Users = {u1, u2, u3}
  Roles = {"admin", "trader"}
  Requests = {r1, r2}
SPECIFICATION FairSpec
INVARIANTS OnePoller ValuesBelong AdministratorRemains
PROPERTIES PollingSettles RequestsSettle
CHECK_DEADLOCK FALSE
