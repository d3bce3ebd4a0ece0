\* Two companies, two jobs, one worker that may leave a job twice.
SPECIFICATION FairSpec
CONSTANTS
  a = a
  b = b
  a1 = a1
  a2 = a2
  b1 = b1
  b2 = b2
  ua = ua
  va = va
  ub = ub
  Nobody = Nobody
  Tenants = {a, b}
  Jobs = {a1, b1}
  OwnerOf <- Owners
  Users = {ua, ub}
  TenantOf <- Companies
  Workers = {w1}
  MaxAttempts = 2
  QueueMax = 1
  KeepersFail = TRUE
  MaxCrashes = 2
  MaxFaults = 1
  MaxImages = 4

CHECK_DEADLOCK FALSE
PROPERTIES JobsEnd
