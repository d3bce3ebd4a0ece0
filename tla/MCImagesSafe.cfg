\* Two companies, three jobs, two workers; keepers do not fail.
SPECIFICATION Spec
CONSTANTS
  a = a
  b = b
  a1 = a1
  a2 = a2
  b1 = b1
  b2 = b2
  ua = ua
  va = va
  ub = ub
  Nobody = Nobody
  Tenants = {a, b}
  Jobs = {a1, a2, b1}
  OwnerOf <- Owners
  Users = {ua, ub}
  TenantOf <- Companies
  Workers = {w1, w2}
  MaxAttempts = 1
  QueueMax = 2
  KeepersFail = FALSE
  MaxCrashes = 1
  MaxFaults = 1
  MaxImages = 3
SYMMETRY Symmetry
CHECK_DEADLOCK FALSE
INVARIANTS OneWorkerPerJob BoundedByCrashes
PROPERTIES EndedStays CompaniesTakeTurns
