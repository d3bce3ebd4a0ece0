\* Two processes and one read model: two writes, an outage and a crash.
SPECIFICATION FairSpec
CONSTANTS
  Processes = {p1, p2}
  Keys = {k1}
  Requests = {r1, r2}
  None = None
  MaxWrites = 2
  MaxFailures = 1
  MaxCrashes = 1
CHECK_DEADLOCK FALSE
INVARIANTS ServedIsFresh
PROPERTIES RequestsEnd
