\* Two receipts of one collection target, two workers with the same worker_id.
SPECIFICATION Spec
CONSTANTS
  Receipts = {r1, r2}
  Targets = {plain}
  ConnectorTargets = {}
  StoreTargets = {}
  Requests = {q1, q2}
  Callers = {a1, a2}
  Configs = {c1}
  Workers = {w1, w2}
  n1 = n1
  Names = {n1}
  NameOf <- SharedName
  NoOne = NoOne
  LeaseLength = 1
  MaxStale = 1
  MaxGeneration = 2
  MaxPeriod = 1
SYMMETRY Symmetry
CHECK_DEADLOCK FALSE
INVARIANTS TypeOK RowChecks CallersShareReceipt OneHolder SingleProviderRun
PROPERTIES LandsInOpenRun
